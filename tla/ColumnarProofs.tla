--------------------------- MODULE ColumnarProofs ---------------------------
(***************************************************************************)
(* Rows to columns, for rows of any shapes and any number.                 *)
(*                                                                         *)
(* The invariant says that a schema has the right shape (Shaped): columns  *)
(* and leaves of the field map correspond one to one, and each struct in   *)
(* the map covers exactly the columns of its fields.  Discovery keeps it   *)
(* call by call, because a derived serializer ends a struct after its      *)
(* fields and before anything else (DInv); resolving picks one candidate   *)
(* per key, and remapping moves all its routes by the same distance        *)
(* (FinalizeShaped).  A row is then written call by call (FInv): a column  *)
(* is touched by the call of its field, by an absent struct above it, or   *)
(* by padding, and by only one of these.  What rows leave in the columns   *)
(* (FillRowsIs) is a function of the schema and the rows, so a builder     *)
(* keeps it push by push (Built), and chunks can be filled apart.          *)
(*                                                                         *)
(* The rows are data without a bound on depth, but known to the serializers*)
(* by the sequence of their calls, so all inductions are on numbers.       *)
(***************************************************************************)
EXTENDS Columnar, SequenceTheorems, WellFoundedInduction, TLAPS

\* A set of numbers that is not empty has a least number.
LEMMA Least ==
  ASSUME NEW T, T \subseteq Nat, T # {}
  PROVE  \E x \in T : \A y \in T : x <= y
<1> DEFINE R == {ij \in Nat \X Nat : ij[1] < ij[2]}
<1>1. IsWellFoundedOn(R, Nat)
  BY NatLessThanWellFounded DEF OpToRel
<1>2. \E x \in T : \A y \in T : ~ (<<y, x>> \in R)
  <2> HIDE DEF R
  <2> QED BY <1>1, WFMin
<1>3. PICK x \in T : \A y \in T : ~ (<<y, x>> \in R)
  BY <1>2
<1>4. ASSUME NEW y \in T PROVE x <= y
  <2>1. ~ (<<y, x>> \in R) /\ x \in Nat /\ y \in Nat
    BY <1>3
  <2>2. ~ (y < x)
    BY <2>1
  <2> QED BY <2>1, <2>2
<1> QED BY <1>4

\* Induction up to a bound: what holds of 0 and passes from i to i + 1 holds up to n.
\* Used for the calls of a row, the rows, the keys and the chunks.
LEMMA Climb ==
  ASSUME NEW n \in Nat, NEW S, 0 \in S, \A i \in 0..(n - 1) : i \in S => i + 1 \in S
  PROVE  \A i \in 0..n : i \in S
<1> SUFFICES ASSUME NEW j \in 0..n, j \notin S PROVE FALSE
  OBVIOUS
<1> DEFINE T == {i \in 0..n : i \notin S}
<1>1. T \subseteq Nat /\ T # {}
  OBVIOUS
<1>2. PICK x \in T : \A y \in T : x <= y
  <2> HIDE DEF T
  <2> QED BY <1>1, Least
<1>3. x # 0 /\ x - 1 \in 0..(n - 1)
  BY <1>2
<1>4. x - 1 \in S
  BY <1>2, <1>3
<1> QED BY <1>2, <1>3, <1>4

\* What pushing on a Vec makes, for any elements.
LEMMA AppendIs ==
  ASSUME NEW n \in Nat, NEW f, f = [i \in 1..n |-> f[i]], NEW x
  PROVE  /\ Append(f, x) = [i \in 1..n + 1 |-> IF i = n + 1 THEN x ELSE f[i]]
         /\ Len(Append(f, x)) = n + 1
<1> DEFINE S == {f[i] : i \in 1..n} \cup {x}
<1>1. f \in [1..n -> S]
  OBVIOUS
<1>2. f \in Seq(S)
  BY <1>1
<1>3. Len(f) = n
  BY <1>1, <1>2
<1> DEFINE g == Append(f, x)
<1>4. /\ g \in Seq(S) /\ Len(g) = n + 1
      /\ \A i \in 1..n : g[i] = f[i]
      /\ g[n + 1] = x
  BY <1>2, <1>3, AppendProperties
<1>5. g = [i \in 1..n + 1 |-> g[i]]
  BY <1>4, LenProperties
<1> QED BY <1>4, <1>5

\* What extending a Vec with another makes, for any elements.
LEMMA ConcatIs ==
  ASSUME NEW n \in Nat, NEW f, f = [i \in 1..n |-> f[i]],
         NEW m \in Nat, NEW g, g = [i \in 1..m |-> g[i]]
  PROVE  /\ f \o g = [i \in 1..n + m |-> IF i <= n THEN f[i] ELSE g[i - n]]
         /\ Len(f \o g) = n + m
<1> DEFINE S == {f[i] : i \in 1..n} \cup {g[i] : i \in 1..m}
           h == f \o g
<1>1. f \in [1..n -> S] /\ g \in [1..m -> S]
  OBVIOUS
<1>2. f \in Seq(S) /\ Len(f) = n
  <2> HIDE DEF S
  <2> QED BY <1>1
<1>3. g \in Seq(S) /\ Len(g) = m
  <2> HIDE DEF S
  <2> QED BY <1>1
<1>4. /\ h \in Seq(S) /\ Len(h) = n + m
      /\ \A i \in 1..n + m : h[i] = IF i <= n THEN f[i] ELSE g[i - n]
  BY <1>2, <1>3, ConcatProperties
<1>5. h = [i \in 1..n + m |-> h[i]]
  BY <1>4, LenProperties
<1> QED BY <1>4, <1>5

\* The column types of ColumnType.
Types == {"Logical", "Integer", "Real", "Character", "Generic"}
\* The columns of a schema.
Cols == [name : Names, type : Types]
\* Paths to a field of a row.
Paths == Seq(Names) \ {<<>>}
\* A struct is above the fields in it, at any depth.
Above(p, q) == IsStrictPrefix(p, q)
\* The entries of a FieldMap.
Routes == [start : Int, count : Nat, sub : BOOLEAN]

\* The path to the struct that a field is in.
LEMMA FrontIs ==
  ASSUME NEW p \in Paths
  PROVE  /\ Len(p) \in Nat /\ Len(p) >= 1
         /\ Len(p) = 1 => Front(p) = <<>>
         /\ Len(p) > 1 => /\ Front(p) \in Paths /\ Len(Front(p)) = Len(p) - 1
                          /\ \A i \in 1..(Len(p) - 1) : Front(p)[i] = p[i]
<1> DEFINE n == Len(p)
<1>1. p \in Seq(Names) /\ n \in Nat /\ n >= 1 /\ \A i \in 1..n : p[i] \in Names
  BY EmptySeq, LenProperties, ElementOfSeq DEF Paths
<1>2. \A i \in 1..(n - 1) : p[i] \in Names
  BY <1>1
<1>3. /\ SubSeq(p, 1, n - 1) \in Seq(Names)
      /\ Len(SubSeq(p, 1, n - 1)) = IF 1 <= n - 1 THEN n - 1 ELSE 0
      /\ \A i \in 1..(n - 1) : SubSeq(p, 1, n - 1)[i] = p[i]
  <2>1. n - 1 \in Int /\ 1 \in Int
    BY <1>1
  <2> DEFINE q == SubSeq(p, 1, n - 1)
  <2>2. /\ q \in Seq(Names) /\ Len(q) = IF 1 <= n - 1 THEN n - 1 - 1 + 1 ELSE 0
        /\ \A i \in 1..(n - 1 - 1 + 1) : q[i] = p[1 + i - 1]
    BY <2>1, <1>2, SubSeqProperties
  <2> HIDE DEF q
  <2>3. n - 1 - 1 + 1 = n - 1
    BY <1>1
  <2>4. \A i \in 1..(n - 1) : 1 + i - 1 = i
    BY <1>1
  <2> QED BY <2>2, <2>3, <2>4 DEF q
<1>4. ASSUME n = 1 PROVE Front(p) = <<>>
  <2>1. n - 1 = 0 /\ 1 \in Int /\ n - 1 < 1
    BY <1>4
  <2> QED BY <2>1, SubSeqEmpty DEF Front
<1>5. ASSUME n > 1 PROVE Front(p) # <<>> /\ Front(p) \in Seq(Names) /\ Len(Front(p)) = n - 1
  <2>1. 1 <= n - 1 /\ n - 1 # 0
    BY <1>1, <1>5
  <2>2. Len(<<>>) = 0
    BY EmptySeq
  <2> QED BY <2>1, <2>2, <1>3 DEF Front
<1>6. \A i \in 1..(n - 1) : Front(p)[i] = p[i]
  BY <1>3 DEF Front
<1> QED BY <1>1, <1>4, <1>5, <1>6 DEF Paths

\* What it is for a path to be above another.
LEMMA AboveIs ==
  ASSUME NEW p \in Paths, NEW q \in Paths
  PROVE  IsStrictPrefix(p, q) <=> Len(p) < Len(q) /\ \A i \in 1..Len(p) : p[i] = q[i]
<1> DEFINE m == Len(p)
           n == Len(q)
<1>1. /\ p \in Seq(Names) /\ q \in Seq(Names) /\ m \in Nat /\ n \in Nat
      /\ \A i \in 1..m : p[i] \in Names
      /\ \A i \in 1..n : q[i] \in Names
  BY LenProperties, ElementOfSeq DEF Paths
<1>2. SubSeq(p, 1, m) = p
  BY <1>1, SubSeqFull
<1>3. ASSUME m <= n
      PROVE  /\ SubSeq(q, 1, m) \in Seq(Names) /\ Len(SubSeq(q, 1, m)) = m
             /\ \A i \in 1..m : SubSeq(q, 1, m)[i] = q[i]
  <2>1. \A i \in 1..m : q[i] \in Names
    BY <1>1, <1>3
  <2> DEFINE r == SubSeq(q, 1, m)
  <2>2. /\ r \in Seq(Names) /\ Len(r) = IF 1 <= m THEN m - 1 + 1 ELSE 0
        /\ \A i \in 1..(m - 1 + 1) : r[i] = q[1 + i - 1]
    BY <2>1, <1>1, SubSeqProperties
  <2> HIDE DEF r
  <2>3. m - 1 + 1 = m /\ (~(1 <= m) => m = 0)
    BY <1>1
  <2>4. \A i \in 1..m : 1 + i - 1 = i
    BY <1>1
  <2> QED BY <2>2, <2>3, <2>4 DEF r
<1>4. ASSUME m <= n
      PROVE  p = SubSeq(q, 1, m) <=> \A i \in 1..m : p[i] = q[i]
  BY <1>1, <1>3, <1>4, SeqEqual
<1>5. p = q <=> m = n /\ \A i \in 1..m : p[i] = q[i]
  BY <1>1, SeqEqual
<1>6. IsPrefix(p, q) <=> m <= n /\ p = SubSeq(q, 1, m)
  BY <1>2 DEF IsPrefix
<1>7. IsStrictPrefix(p, q) <=> IsPrefix(p, q) /\ p # q
  BY DEF IsStrictPrefix
<1>8. m \in Nat /\ n \in Nat
  BY <1>1
<1> HIDE DEF m, n
<1>9. IsStrictPrefix(p, q) <=> m < n /\ \A i \in 1..m : p[i] = q[i]
  BY ONLY <1>4, <1>5, <1>6, <1>7, <1>8
<1> QED BY <1>9 DEF m, n

\* Paths above one path are above each other, and above is transitive.
LEMMA AboveOrder ==
  ASSUME NEW p \in Paths, NEW q \in Paths, NEW r \in Paths
  PROVE  /\ ~Above(p, p)
         /\ Above(p, q) /\ Above(q, r) => Above(p, r)
         /\ Above(p, r) /\ Above(q, r) =>
              p = q \/ Above(p, q) \/ Above(q, p)
         /\ Above(p, q) => Len(q) > 1 /\ p[1] = q[1]
<1>1. /\ p \in Seq(Names) /\ q \in Seq(Names) /\ r \in Seq(Names)
      /\ Len(p) \in Nat /\ Len(q) \in Nat /\ Len(r) \in Nat
      /\ Len(p) >= 1
  BY LenProperties, FrontIs DEF Paths
<1>2. Len(p) = Len(q) /\ (\A i \in 1..Len(p) : p[i] = q[i]) => p = q
  BY <1>1, SeqEqual
<1>3. /\ Above(p, p) <=> Len(p) < Len(p) /\ \A i \in 1..Len(p) : p[i] = p[i]
      /\ Above(p, q) <=> Len(p) < Len(q) /\ \A i \in 1..Len(p) : p[i] = q[i]
      /\ Above(q, p) <=> Len(q) < Len(p) /\ \A i \in 1..Len(q) : q[i] = p[i]
      /\ Above(q, r) <=> Len(q) < Len(r) /\ \A i \in 1..Len(q) : q[i] = r[i]
      /\ Above(p, r) <=> Len(p) < Len(r) /\ \A i \in 1..Len(p) : p[i] = r[i]
  BY AboveIs DEF Above
<1> QED BY ONLY <1>1, <1>2, <1>3

\* A set that holds the parents of a path holds whatever is above it.
LEMMA Ancestors ==
  ASSUME NEW S, NEW G, G \subseteq S, S \subseteq Paths,
         \A p \in S : Len(p) > 1 => Front(p) \in G,
         NEW p \in S, NEW q \in Paths, Above(q, p)
  PROVE  q \in G
<1> DEFINE n == Len(p)
           m == Len(q)
           Cut(d) == \E r \in S : /\ Len(r) = n - d /\ \A i \in 1..(n - d) : r[i] = p[i]
                                  /\ d > 0 => r \in G
           T == {d \in 0..(n - m) : Cut(d)}
<1>1. n \in Nat /\ m \in Nat /\ m >= 1 /\ m < n /\ \A i \in 1..m : q[i] = p[i]
  BY FrontIs, AboveIs DEF Above
<1>20. n - m \in Nat /\ n - 0 = n
  BY <1>1
<1>2. 0 \in T
  <2>1. Len(p) = n - 0 /\ \A i \in 1..(n - 0) : p[i] = p[i]
    BY <1>1
  <2> QED BY <1>1, <2>1
<1>3. \A d \in 0..(n - m - 1) : d \in T => d + 1 \in T
  <2> SUFFICES ASSUME NEW d \in 0..(n - m - 1), d \in T PROVE d + 1 \in T
    OBVIOUS
  <2>1. PICK r \in S : Len(r) = n - d /\ \A i \in 1..(n - d) : r[i] = p[i]
    OBVIOUS
  <2>2. Len(r) > 1 /\ r \in Paths
    BY <2>1, <1>1
  <2>3. /\ Front(r) \in G /\ Front(r) \in S /\ Len(Front(r)) = n - d - 1
        /\ \A i \in 1..(n - d - 1) : Front(r)[i] = r[i]
    BY <2>1, <2>2, FrontIs
  <2>4. n - d - 1 = n - (d + 1) /\ n - d - 1 < n - d /\ n - d \in Nat
    BY <1>1
  <2>5. \A i \in 1..(n - (d + 1)) : Front(r)[i] = p[i]
    BY <2>1, <2>3, <2>4, <1>1
  <2>6. Cut(d + 1)
    BY <2>3, <2>4, <2>5
  <2>7. d + 1 \in 0..(n - m)
    BY <1>1
  <2> HIDE DEF Cut
  <2> QED BY <2>6, <2>7
<1>4. n - m \in T
  <2> HIDE DEF T
  <2>1. \A d \in 0..(n - m) : d \in T
    BY <1>20, <1>2, <1>3, Climb
  <2> QED BY <2>1, <1>20
<1>5. PICK r \in G : Len(r) = m /\ \A i \in 1..m : r[i] = p[i]
  BY <1>1, <1>4
<1>6. r = q
  <2>1. r \in Seq(Names) /\ q \in Seq(Names)
    BY <1>5 DEF Paths
  <2> QED BY <2>1, <1>1, <1>5, SeqEqual
<1> QED BY <1>5, <1>6

\* A column name is made of the keys on the path (parent_child), one after the other.
LEMMA FlattenSteps ==
  ASSUME NEW p \in Paths
  PROVE  \E f : /\ FlattenSeq(p) = f[Len(p)]
                /\ f[1] = p[1]
                /\ \A i \in 1..Len(p) : f[i] \in Names
                /\ \A i \in 1..(Len(p) - 1) : f[i + 1] = f[i] \o p[i + 1]
<1> DEFINE n == Len(p)
           Is(f, m) == f = [i \in 1..m |-> IF i = 1 THEN p[i] ELSE f[i - 1] \o p[i]]
           S == {m \in 0..n : \E f : Is(f, m)}
<1>1. n \in Nat /\ n >= 1 /\ \A i \in 1..n : p[i] \in Names
  BY FrontIs, ElementOfSeq DEF Paths
<1>2. 0 \in S
  <2> DEFINE f == [i \in 1..0 |-> p[i]]
  <2>1. \A i \in 1..0 : p[i] = IF i = 1 THEN p[i] ELSE f[i - 1] \o p[i]
    OBVIOUS
  <2>2. f = [i \in 1..0 |-> IF i = 1 THEN p[i] ELSE f[i - 1] \o p[i]]
    BY <2>1, Zenon
  <2> HIDE DEF f
  <2>3. \E g : Is(g, 0)
    BY <2>2
  <2>4. 0 \in 0..n
    BY <1>1
  <2> HIDE DEF n, Is
  <2> QED BY <2>3, <2>4
<1>3. \A m \in 0..(n - 1) : m \in S => m + 1 \in S
  <2> SUFFICES ASSUME NEW m \in 0..(n - 1), m \in S PROVE m + 1 \in S
    OBVIOUS
  <2>1. PICK f : Is(f, m)
    OBVIOUS
  <2> DEFINE e == [i \in 1..(m + 1) |-> IF i = m + 1 THEN IF i = 1 THEN p[i] ELSE f[m] \o p[i] ELSE f[i]]
  <2>2. \A i \in 1..(m + 1) : e[i] = IF i = 1 THEN p[i] ELSE e[i - 1] \o p[i]
    <3>1. \A i \in 1..m : e[i] = f[i]
      OBVIOUS
    <3> TAKE i \in 1..(m + 1)
    <3>2. CASE i = m + 1
      <4>1. e[i] = IF i = 1 THEN p[i] ELSE f[m] \o p[i]
        BY <3>2
      <4>2. i # 1 => e[i - 1] = f[m]
        BY <3>1, <3>2
      <4> HIDE DEF e
      <4> QED BY <4>1, <4>2
    <3>3. CASE i # m + 1
      <4>1. i \in 1..m /\ e[i] = f[i]
        BY <3>1, <3>3
      <4>2. i # 1 => e[i - 1] = f[i - 1]
        BY <3>1, <4>1
      <4>3. f[i] = IF i = 1 THEN p[i] ELSE f[i - 1] \o p[i]
        BY <2>1, <4>1
      <4> HIDE DEF e
      <4> QED BY <4>1, <4>2, <4>3
    <3> QED BY <3>2, <3>3
  <2>3. e = [i \in 1..(m + 1) |-> e[i]]
    OBVIOUS
  <2> HIDE DEF e
  <2>4. Is(e, m + 1)
    BY <2>2, <2>3
  <2>5. m + 1 \in 0..n
    BY <1>1
  <2> HIDE DEF n, Is
  <2> QED BY <2>4, <2>5
<1>4. n \in S
  <2> HIDE DEF S
  <2>1. \A i \in 0..n : i \in S
    BY <1>1, <1>2, <1>3, Climb
  <2> QED BY <2>1, <1>1
<1> DEFINE Of == CHOOSE f : Is(f, n)
<1>5. Is(Of, n)
  <2>1. \E f : Is(f, n)
    BY <1>4
  <2> HIDE DEF Is, n
  <2> QED BY <2>1
<1>6. FlattenSeq(p) = Of[n]
  BY <1>1 DEF FlattenSeq
<1> HIDE DEF Of
<1>7. \A i \in 1..n : Of[i] = IF i = 1 THEN p[i] ELSE Of[i - 1] \o p[i]
  BY <1>5
<1> DEFINE U == {i \in 0..(n - 1) : Of[i + 1] \in Names}
<1>8. 0 \in U
  BY <1>1, <1>7
<1>9. \A i \in 1..(n - 1) : Of[i + 1] = Of[i] \o p[i + 1]
  <2> SUFFICES ASSUME NEW i \in 1..(n - 1) PROVE Of[i + 1] = Of[i] \o p[i + 1]
    OBVIOUS
  <2>1. \A j \in 1..n : j # 1 => Of[j] = Of[j - 1] \o p[j]
    BY <1>7
  <2> DEFINE j == i + 1
  <2>2. j \in 1..n /\ j # 1 /\ j - 1 = i
    BY <1>1
  <2> HIDE DEF j
  <2>3. Of[j] = Of[i] \o p[j]
    BY <2>1, <2>2
  <2> QED BY <2>3 DEF j
<1>10. \A i \in 0..(n - 1 - 1) : i \in U => i + 1 \in U
  <2> SUFFICES ASSUME NEW i \in 0..(n - 1 - 1), i \in U PROVE i + 1 \in U
    OBVIOUS
  <2> DEFINE j == i + 1
             x == Of[j]
             y == p[j + 1]
  <2>1. j \in 1..(n - 1) /\ j \in 0..(n - 1)
    BY <1>1
  <2>2. x \in Names /\ y \in Names
    BY <1>1, <2>1
  <2>3. Of[j + 1] = x \o y
    <3> HIDE DEF j
    <3> QED BY <1>9, <2>1
  <2> HIDE DEF x, y, j
  <2>4. x \o y \in Names
    BY <2>2, ConcatProperties, ConcatEqualIffEmpty DEF Names
  <2> QED BY <2>1, <2>3, <2>4 DEF j
<1>11. \A i \in 0..(n - 1) : i \in U
  <2> HIDE DEF U
  <2>1. n - 1 \in Nat
    BY <1>1
  <2> QED BY <2>1, <1>8, <1>10, Climb
<1>12. \A i \in 1..n : Of[i] \in Names
  <2> TAKE i \in 1..n
  <2>1. i - 1 \in 0..(n - 1) /\ i - 1 + 1 = i
    BY <1>1
  <2>2. Of[i - 1 + 1] \in Names
    BY <2>1, <1>11
  <2> QED BY <2>1, <2>2
<1>13. Of[1] = p[1]
  BY <1>1, <1>7
<1> QED BY <1>6, <1>9, <1>12, <1>13

\* A column name is the key itself on top.
LEMMA FlattenIs ==
  ASSUME NEW p \in Paths
  PROVE  /\ FlattenSeq(p) \in Names
         /\ Len(p) = 1 => FlattenSeq(p) = p[1]
<1>1. Len(p) \in Nat /\ Len(p) >= 1
  BY FrontIs
<1>2. PICK f : /\ FlattenSeq(p) = f[Len(p)] /\ f[1] = p[1]
               /\ \A i \in 1..Len(p) : f[i] \in Names
  BY FlattenSteps
<1> QED BY <1>1, <1>2

\* The name of a field goes on from the name of the struct it is in.
LEMMA NameGoesOn ==
  ASSUME NEW p \in Paths, NEW q \in Paths, Above(p, q)
  PROVE  IsPrefix(FlattenSeq(p), FlattenSeq(q)) /\ FlattenSeq(p) # FlattenSeq(q)
<1> DEFINE m == Len(p)
           n == Len(q)
           a == FlattenSeq(p)
<1>1. m \in Nat /\ n \in Nat /\ m >= 1 /\ m < n /\ \A i \in 1..m : p[i] = q[i]
  BY FrontIs, AboveIs DEF Above
<1>2. PICK f : /\ a = f[m] /\ f[1] = p[1]
               /\ \A i \in 1..(m - 1) : f[i + 1] = f[i] \o p[i + 1]
  BY FlattenSteps
<1>3. PICK g : /\ FlattenSeq(q) = g[n] /\ g[1] = q[1]
               /\ \A i \in 1..n : g[i] \in Names
               /\ \A i \in 1..(n - 1) : g[i + 1] = g[i] \o q[i + 1]
  BY FlattenSteps
<1>4. a \in Names /\ \A i \in 1..n : q[i] \in Names
  BY FlattenIs, ElementOfSeq, LenProperties DEF Paths
<1> HIDE DEF a, m, n
<1>5. g[m] = a
  <2> DEFINE V == {i \in 0..(m - 1) : f[i + 1] = g[i + 1]}
  <2>1. 0 \in V /\ m - 1 \in Nat
    BY <1>1, <1>2, <1>3
  <2>2. \A i \in 0..(m - 1 - 1) : i \in V => i + 1 \in V
    <3> SUFFICES ASSUME NEW i \in 0..(m - 1 - 1), i \in V PROVE i + 1 \in V
      OBVIOUS
    <3> DEFINE j == i + 1
    <3>1. j \in 1..(m - 1) /\ j \in 1..(n - 1) /\ j + 1 \in 1..m /\ j \in 0..(m - 1)
      BY <1>1
    <3>2. f[j] = g[j]
      OBVIOUS
    <3> HIDE DEF j, V
    <3>3. f[j + 1] = g[j + 1]
      BY <3>1, <3>2, <1>1, <1>2, <1>3
    <3> QED BY <3>1, <3>3 DEF j, V
  <2> HIDE DEF V
  <2>3. m - 1 \in V
    <3>1. \A i \in 0..(m - 1) : i \in V
      BY <2>1, <2>2, Climb
    <3> QED BY <3>1, <2>1
  <2>4. m - 1 + 1 = m
    BY <1>1
  <2> QED BY <2>3, <2>4, <1>2 DEF V
<1> DEFINE W == {d \in 0..(n - m - 1) : \E x \in Names : g[m + 1 + d] = a \o x}
<1>6. 0 \in W
  <2>1. m \in 1..(n - 1) /\ m + 1 \in 1..n /\ m + 1 + 0 = m + 1 /\ 0 \in 0..(n - m - 1)
    BY <1>1
  <2>2. g[m + 1] = g[m] \o q[m + 1]
    BY <2>1, <1>3
  <2>3. q[m + 1] \in Names
    BY <2>1, <1>4
  <2>4. g[m + 1] = a \o q[m + 1]
    BY <2>2, <1>5
  <2>5. \E x \in Names : g[m + 1 + 0] = a \o x
    BY <2>1, <2>3, <2>4
  <2> QED BY <2>1, <2>5
<1>7. \A d \in 0..(n - m - 1 - 1) : d \in W => d + 1 \in W
  <2> SUFFICES ASSUME NEW d \in 0..(n - m - 1 - 1), d \in W PROVE d + 1 \in W
    OBVIOUS
  <2> DEFINE j == m + 1 + d
             y == q[j + 1]
  <2>1. j \in 1..(n - 1) /\ j + 1 \in 1..n /\ j + 1 = m + 1 + (d + 1) /\ d + 1 \in 0..(n - m - 1)
    BY <1>1
  <2>2. PICK x \in Names : g[j] = a \o x
    OBVIOUS
  <2>3. y \in Names
    BY <2>1, <1>4
  <2>4. g[j + 1] = g[j] \o y
    <3> HIDE DEF j
    <3> QED BY <2>1, <1>3
  <2> HIDE DEF y, j, W
  <2>50. a \in Seq(STRING) /\ x \in Seq(STRING) /\ y \in Seq(STRING)
    BY <2>2, <2>3, <1>4 DEF Names
  <2>51. (a \o x) \o y = a \o (x \o y)
    BY <2>50, ConcatAssociative
  <2>5. g[j + 1] = a \o (x \o y)
    BY <2>2, <2>4, <2>51
  <2>6. x \o y \in Names
    BY <2>2, <2>3, ConcatProperties, ConcatEqualIffEmpty DEF Names
  <2> QED BY <2>1, <2>5, <2>6 DEF W
<1>8. n - m - 1 \in W
  <2> HIDE DEF W
  <2>1. n - m - 1 \in Nat
    BY <1>1
  <2>2. \A d \in 0..(n - m - 1) : d \in W
    BY <2>1, <1>6, <1>7, Climb
  <2> QED BY <2>1, <2>2
<1>9. m + 1 + (n - m - 1) = n
  BY <1>1
<1>10. PICK x \in Names : g[n] = a \o x
  BY <1>8, <1>9
<1>11. a \o x # a
  BY <1>4, <1>10, ConcatEqualIffEmpty DEF Names
<1>12. IsPrefix(a, a \o x)
  <2>1. /\ a \in Seq(STRING) /\ x \in Seq(STRING)
        /\ Len(a) \in Nat /\ Len(x) \in Nat /\ Len(a) >= 1
    BY <1>4, <1>10, EmptySeq, LenProperties DEF Names
  <2>2. Len(a) <= Len(a \o x)
    BY <2>1, ConcatProperties
  <2>3. SubSeq(a \o x, 1, Len(a)) = SubSeq(a, 1, Len(a))
    BY <2>1, SubSeqOfConcat1
  <2> QED BY <2>2, <2>3 DEF IsPrefix
<1> QED BY <1>3, <1>10, <1>11, <1>12 DEF a

\* Recursive functions are what their definitions say.
LEMMA DiscoveryIs ==
  ASSUME NEW cs, Len(cs) \in Nat
  PROVE  /\ Discovery(cs)[0] = NoSchema
         /\ \A n \in 0..(Len(cs) - 1) :
              Discovery(cs)[n + 1] = Process(Discovery(cs)[n], cs[n + 1])
<1> DEFINE Step(x, k) == Process(x, cs[k])
           z == NoSchema
           Is(f, m) == f = [k \in 0..m |-> IF k = 0 THEN z ELSE Step(f[k - 1], k)]
           S == {m \in 0..Len(cs) : \E f : Is(f, m)}
<1> HIDE DEF Step, z
<1>1. 0 \in S
  <2> DEFINE f == [k \in 0..0 |-> z]
  <2>1. \A k \in 0..0 : z = IF k = 0 THEN z ELSE Step(f[k - 1], k)
    OBVIOUS
  <2>2. f = [k \in 0..0 |-> IF k = 0 THEN z ELSE Step(f[k - 1], k)]
    BY <2>1, Zenon
  <2> HIDE DEF f
  <2>3. \E g : Is(g, 0)
    BY <2>2
  <2> QED BY <2>3
<1>2. \A m \in 0..(Len(cs) - 1) : m \in S => m + 1 \in S
  <2> SUFFICES ASSUME NEW m \in 0..(Len(cs) - 1), m \in S PROVE m + 1 \in S
    OBVIOUS
  <2>1. PICK f : Is(f, m)
    OBVIOUS
  <2> DEFINE e == [k \in 0..(m + 1) |-> IF k = m + 1 THEN Step(f[m], k) ELSE f[k]]
  <2>2. \A k \in 0..(m + 1) : e[k] = IF k = 0 THEN z ELSE Step(e[k - 1], k)
    <3>1. \A k \in 0..m : e[k] = f[k]
      OBVIOUS
    <3> TAKE k \in 0..(m + 1)
    <3>2. CASE k = m + 1
      BY <3>2, <3>1
    <3>3. CASE k # m + 1
      BY <3>3, <3>1, <2>1
    <3> QED BY <3>2, <3>3
  <2>3. e = [k \in 0..(m + 1) |-> e[k]]
    OBVIOUS
  <2> HIDE DEF e
  <2>4. Is(e, m + 1)
    BY <2>2, <2>3
  <2> QED BY <2>4
<1>3. Len(cs) \in S
  <2> HIDE DEF S
  <2>1. \A m \in 0..Len(cs) : m \in S
    BY <1>1, <1>2, Climb
  <2> QED BY <2>1
<1>4. PICK f : Is(f, Len(cs))
  BY <1>3
<1>5. Is(Discovery(cs), Len(cs))
  BY <1>4 DEF Discovery, Step, z
<1> HIDE DEF S
<1> QED BY <1>5 DEF Step, z

\* SchemaAccumulator::feed goes through the keys of a row one after another.
LEMMA FeedingIs ==
  ASSUME NEW acc, NEW cs, Len(cs) \in Nat
  PROVE  /\ Feeding(acc, cs)[0] = acc
         /\ \A n \in 0..(Len(cs) - 1) :
              Feeding(acc, cs)[n + 1] =
                  FeedCall(Feeding(acc, cs)[n], Discover(cs), cs[n + 1])
<1> DEFINE Step(x, k) == FeedCall(x, Discover(cs), cs[k])
           z == acc
           Is(f, m) == f = [k \in 0..m |-> IF k = 0 THEN z ELSE Step(f[k - 1], k)]
           S == {m \in 0..Len(cs) : \E f : Is(f, m)}
<1> HIDE DEF Step, z
<1>1. 0 \in S
  <2> DEFINE f == [k \in 0..0 |-> z]
  <2>1. \A k \in 0..0 : z = IF k = 0 THEN z ELSE Step(f[k - 1], k)
    OBVIOUS
  <2>2. f = [k \in 0..0 |-> IF k = 0 THEN z ELSE Step(f[k - 1], k)]
    BY <2>1, Zenon
  <2> HIDE DEF f
  <2>3. \E g : Is(g, 0)
    BY <2>2
  <2> QED BY <2>3
<1>2. \A m \in 0..(Len(cs) - 1) : m \in S => m + 1 \in S
  <2> SUFFICES ASSUME NEW m \in 0..(Len(cs) - 1), m \in S PROVE m + 1 \in S
    OBVIOUS
  <2>1. PICK f : Is(f, m)
    OBVIOUS
  <2> DEFINE e == [k \in 0..(m + 1) |-> IF k = m + 1 THEN Step(f[m], k) ELSE f[k]]
  <2>2. \A k \in 0..(m + 1) : e[k] = IF k = 0 THEN z ELSE Step(e[k - 1], k)
    <3>1. \A k \in 0..m : e[k] = f[k]
      OBVIOUS
    <3> TAKE k \in 0..(m + 1)
    <3>2. CASE k = m + 1
      BY <3>2, <3>1
    <3>3. CASE k # m + 1
      BY <3>3, <3>1, <2>1
    <3> QED BY <3>2, <3>3
  <2>3. e = [k \in 0..(m + 1) |-> e[k]]
    OBVIOUS
  <2> HIDE DEF e
  <2>4. Is(e, m + 1)
    BY <2>2, <2>3
  <2> QED BY <2>4
<1>3. Len(cs) \in S
  <2> HIDE DEF S
  <2>1. \A m \in 0..Len(cs) : m \in S
    BY <1>1, <1>2, Climb
  <2> QED BY <2>1
<1>4. PICK f : Is(f, Len(cs))
  BY <1>3
<1>5. Is(Feeding(acc, cs), Len(cs))
  BY <1>4 DEF Feeding, Step, z
<1> HIDE DEF S
<1> QED BY <1>5 DEF Step, z

\* merge goes through the keys of the other accumulator one after another.
LEMMA MergingIs ==
  ASSUME NEW acc, NEW other, Len(other.order) \in Nat
  PROVE  /\ Merging(acc, other)[0] = acc
         /\ \A n \in 0..(Len(other.order) - 1) :
              Merging(acc, other)[n + 1] =
                Add(Merging(acc, other)[n], other.order[n + 1], other.of[other.order[n + 1]])
<1> DEFINE Step(x, k) == Add(x, other.order[k], other.of[other.order[k]])
           z == acc
           Is(f, m) == f = [k \in 0..m |-> IF k = 0 THEN z ELSE Step(f[k - 1], k)]
           S == {m \in 0..Len(other.order) : \E f : Is(f, m)}
<1> HIDE DEF Step, z
<1>1. 0 \in S
  <2> DEFINE f == [k \in 0..0 |-> z]
  <2>1. \A k \in 0..0 : z = IF k = 0 THEN z ELSE Step(f[k - 1], k)
    OBVIOUS
  <2>2. f = [k \in 0..0 |-> IF k = 0 THEN z ELSE Step(f[k - 1], k)]
    BY <2>1, Zenon
  <2> HIDE DEF f
  <2>3. \E g : Is(g, 0)
    BY <2>2
  <2> QED BY <2>3
<1>2. \A m \in 0..(Len(other.order) - 1) : m \in S => m + 1 \in S
  <2> SUFFICES ASSUME NEW m \in 0..(Len(other.order) - 1), m \in S PROVE m + 1 \in S
    OBVIOUS
  <2>1. PICK f : Is(f, m)
    OBVIOUS
  <2> DEFINE e == [k \in 0..(m + 1) |-> IF k = m + 1 THEN Step(f[m], k) ELSE f[k]]
  <2>2. \A k \in 0..(m + 1) : e[k] = IF k = 0 THEN z ELSE Step(e[k - 1], k)
    <3>1. \A k \in 0..m : e[k] = f[k]
      OBVIOUS
    <3> TAKE k \in 0..(m + 1)
    <3>2. CASE k = m + 1
      BY <3>2, <3>1
    <3>3. CASE k # m + 1
      BY <3>3, <3>1, <2>1
    <3> QED BY <3>2, <3>3
  <2>3. e = [k \in 0..(m + 1) |-> e[k]]
    OBVIOUS
  <2> HIDE DEF e
  <2>4. Is(e, m + 1)
    BY <2>2, <2>3
  <2> QED BY <2>4
<1>3. Len(other.order) \in S
  <2> HIDE DEF S
  <2>1. \A m \in 0..Len(other.order) : m \in S
    BY <1>1, <1>2, Climb
  <2> QED BY <2>1
<1>4. PICK f : Is(f, Len(other.order))
  BY <1>3
<1>5. Is(Merging(acc, other), Len(other.order))
  BY <1>4 DEF Merging, Step, z
<1> HIDE DEF S
<1> QED BY <1>5 DEF Step, z

\* finalize goes through the keys one after another.
LEMMA UnifyingIs ==
  ASSUME NEW acc, Len(acc.order) \in Nat
  PROVE  /\ Unifying(acc)[0] = NoSchema
         /\ \A n \in 0..(Len(acc.order) - 1) :
              Unifying(acc)[n + 1] =
                  Unify(Unifying(acc)[n], Resolve(acc.of[acc.order[n + 1]]))
<1> DEFINE Step(x, k) == Unify(x, Resolve(acc.of[acc.order[k]]))
           z == NoSchema
           Is(f, m) == f = [k \in 0..m |-> IF k = 0 THEN z ELSE Step(f[k - 1], k)]
           S == {m \in 0..Len(acc.order) : \E f : Is(f, m)}
<1> HIDE DEF Step, z
<1>1. 0 \in S
  <2> DEFINE f == [k \in 0..0 |-> z]
  <2>1. \A k \in 0..0 : z = IF k = 0 THEN z ELSE Step(f[k - 1], k)
    OBVIOUS
  <2>2. f = [k \in 0..0 |-> IF k = 0 THEN z ELSE Step(f[k - 1], k)]
    BY <2>1, Zenon
  <2> HIDE DEF f
  <2>3. \E g : Is(g, 0)
    BY <2>2
  <2> QED BY <2>3
<1>2. \A m \in 0..(Len(acc.order) - 1) : m \in S => m + 1 \in S
  <2> SUFFICES ASSUME NEW m \in 0..(Len(acc.order) - 1), m \in S PROVE m + 1 \in S
    OBVIOUS
  <2>1. PICK f : Is(f, m)
    OBVIOUS
  <2> DEFINE e == [k \in 0..(m + 1) |-> IF k = m + 1 THEN Step(f[m], k) ELSE f[k]]
  <2>2. \A k \in 0..(m + 1) : e[k] = IF k = 0 THEN z ELSE Step(e[k - 1], k)
    <3>1. \A k \in 0..m : e[k] = f[k]
      OBVIOUS
    <3> TAKE k \in 0..(m + 1)
    <3>2. CASE k = m + 1
      BY <3>2, <3>1
    <3>3. CASE k # m + 1
      BY <3>3, <3>1, <2>1
    <3> QED BY <3>2, <3>3
  <2>3. e = [k \in 0..(m + 1) |-> e[k]]
    OBVIOUS
  <2> HIDE DEF e
  <2>4. Is(e, m + 1)
    BY <2>2, <2>3
  <2> QED BY <2>4
<1>3. Len(acc.order) \in S
  <2> HIDE DEF S
  <2>1. \A m \in 0..Len(acc.order) : m \in S
    BY <1>1, <1>2, Climb
  <2> QED BY <2>1
<1>4. PICK f : Is(f, Len(acc.order))
  BY <1>3
<1>5. Is(Unifying(acc), Len(acc.order))
  BY <1>4 DEF Unifying, Step, z
<1> HIDE DEF S
<1> QED BY <1>5 DEF Step, z

\* A row is written call by call.
LEMMA FillingIs ==
  ASSUME NEW w0, NEW map, NEW cs, NEW strict, Len(cs) \in Nat
  PROVE  /\ Filling(w0, map, cs, strict)[0] = w0
         /\ \A n \in 0..(Len(cs) - 1) :
              Filling(w0, map, cs, strict)[n + 1] =
                  FillCall(Filling(w0, map, cs, strict)[n], map, cs[n + 1], strict)
<1> DEFINE Step(x, k) == FillCall(x, map, cs[k], strict)
           z == w0
           Is(f, m) == f = [k \in 0..m |-> IF k = 0 THEN z ELSE Step(f[k - 1], k)]
           S == {m \in 0..Len(cs) : \E f : Is(f, m)}
<1> HIDE DEF Step, z
<1>1. 0 \in S
  <2> DEFINE f == [k \in 0..0 |-> z]
  <2>1. \A k \in 0..0 : z = IF k = 0 THEN z ELSE Step(f[k - 1], k)
    OBVIOUS
  <2>2. f = [k \in 0..0 |-> IF k = 0 THEN z ELSE Step(f[k - 1], k)]
    BY <2>1, Zenon
  <2> HIDE DEF f
  <2>3. \E g : Is(g, 0)
    BY <2>2
  <2> QED BY <2>3
<1>2. \A m \in 0..(Len(cs) - 1) : m \in S => m + 1 \in S
  <2> SUFFICES ASSUME NEW m \in 0..(Len(cs) - 1), m \in S PROVE m + 1 \in S
    OBVIOUS
  <2>1. PICK f : Is(f, m)
    OBVIOUS
  <2> DEFINE e == [k \in 0..(m + 1) |-> IF k = m + 1 THEN Step(f[m], k) ELSE f[k]]
  <2>2. \A k \in 0..(m + 1) : e[k] = IF k = 0 THEN z ELSE Step(e[k - 1], k)
    <3>1. \A k \in 0..m : e[k] = f[k]
      OBVIOUS
    <3> TAKE k \in 0..(m + 1)
    <3>2. CASE k = m + 1
      BY <3>2, <3>1
    <3>3. CASE k # m + 1
      BY <3>3, <3>1, <2>1
    <3> QED BY <3>2, <3>3
  <2>3. e = [k \in 0..(m + 1) |-> e[k]]
    OBVIOUS
  <2> HIDE DEF e
  <2>4. Is(e, m + 1)
    BY <2>2, <2>3
  <2> QED BY <2>4
<1>3. Len(cs) \in S
  <2> HIDE DEF S
  <2>1. \A m \in 0..Len(cs) : m \in S
    BY <1>1, <1>2, Climb
  <2> QED BY <2>1
<1>4. PICK f : Is(f, Len(cs))
  BY <1>3
<1>5. Is(Filling(w0, map, cs, strict), Len(cs))
  BY <1>4 DEF Filling, Step, z
<1> HIDE DEF S
<1> QED BY <1>5 DEF Step, z

\* Rows are written one after another, until one fails.
LEMMA FillingRowsIs ==
  ASSUME NEW w0, NEW s, NEW rows, NEW strict, Len(rows) \in Nat
  PROVE  /\ FillingRows(w0, s, rows, strict)[0] = w0
         /\ \A n \in 0..(Len(rows) - 1) :
              FillingRows(w0, s, rows, strict)[n + 1] =
                IF FillingRows(w0, s, rows, strict)[n].ok
                  THEN FillRow(FillingRows(w0, s, rows, strict)[n], s, rows[n + 1], strict)
                  ELSE FillingRows(w0, s, rows, strict)[n]
<1> DEFINE Step(x, k) == IF x.ok THEN FillRow(x, s, rows[k], strict) ELSE x
           z == w0
           Is(f, m) == f = [k \in 0..m |-> IF k = 0 THEN z ELSE Step(f[k - 1], k)]
           S == {m \in 0..Len(rows) : \E f : Is(f, m)}
<1> HIDE DEF Step, z
<1>1. 0 \in S
  <2> DEFINE f == [k \in 0..0 |-> z]
  <2>1. \A k \in 0..0 : z = IF k = 0 THEN z ELSE Step(f[k - 1], k)
    OBVIOUS
  <2>2. f = [k \in 0..0 |-> IF k = 0 THEN z ELSE Step(f[k - 1], k)]
    BY <2>1, Zenon
  <2> HIDE DEF f
  <2>3. \E g : Is(g, 0)
    BY <2>2
  <2> QED BY <2>3
<1>2. \A m \in 0..(Len(rows) - 1) : m \in S => m + 1 \in S
  <2> SUFFICES ASSUME NEW m \in 0..(Len(rows) - 1), m \in S PROVE m + 1 \in S
    OBVIOUS
  <2>1. PICK f : Is(f, m)
    OBVIOUS
  <2> DEFINE e == [k \in 0..(m + 1) |-> IF k = m + 1 THEN Step(f[m], k) ELSE f[k]]
  <2>2. \A k \in 0..(m + 1) : e[k] = IF k = 0 THEN z ELSE Step(e[k - 1], k)
    <3>1. \A k \in 0..m : e[k] = f[k]
      OBVIOUS
    <3> TAKE k \in 0..(m + 1)
    <3>2. CASE k = m + 1
      BY <3>2, <3>1
    <3>3. CASE k # m + 1
      BY <3>3, <3>1, <2>1
    <3> QED BY <3>2, <3>3
  <2>3. e = [k \in 0..(m + 1) |-> e[k]]
    OBVIOUS
  <2> HIDE DEF e
  <2>4. Is(e, m + 1)
    BY <2>2, <2>3
  <2> QED BY <2>4
<1>3. Len(rows) \in S
  <2> HIDE DEF S
  <2>1. \A m \in 0..Len(rows) : m \in S
    BY <1>1, <1>2, Climb
  <2> QED BY <2>1
<1>4. PICK f : Is(f, Len(rows))
  BY <1>3
<1>5. Is(FillingRows(w0, s, rows, strict), Len(rows))
  BY <1>4 DEF FillingRows, Step, z
<1> HIDE DEF S
<1> QED BY <1>5 DEF Step, z

\* Rows are fed one after another.
LEMMA FeedingAllIs ==
  ASSUME NEW rows, Len(rows) \in Nat
  PROVE  /\ FeedingAll(rows)[0] = NoCandidates
         /\ \A n \in 0..(Len(rows) - 1) :
              FeedingAll(rows)[n + 1] = Feed(FeedingAll(rows)[n], rows[n + 1])
<1> DEFINE Step(x, k) == Feed(x, rows[k])
           z == NoCandidates
           Is(f, m) == f = [k \in 0..m |-> IF k = 0 THEN z ELSE Step(f[k - 1], k)]
           S == {m \in 0..Len(rows) : \E f : Is(f, m)}
<1> HIDE DEF Step, z
<1>1. 0 \in S
  <2> DEFINE f == [k \in 0..0 |-> z]
  <2>1. \A k \in 0..0 : z = IF k = 0 THEN z ELSE Step(f[k - 1], k)
    OBVIOUS
  <2>2. f = [k \in 0..0 |-> IF k = 0 THEN z ELSE Step(f[k - 1], k)]
    BY <2>1, Zenon
  <2> HIDE DEF f
  <2>3. \E g : Is(g, 0)
    BY <2>2
  <2> QED BY <2>3
<1>2. \A m \in 0..(Len(rows) - 1) : m \in S => m + 1 \in S
  <2> SUFFICES ASSUME NEW m \in 0..(Len(rows) - 1), m \in S PROVE m + 1 \in S
    OBVIOUS
  <2>1. PICK f : Is(f, m)
    OBVIOUS
  <2> DEFINE e == [k \in 0..(m + 1) |-> IF k = m + 1 THEN Step(f[m], k) ELSE f[k]]
  <2>2. \A k \in 0..(m + 1) : e[k] = IF k = 0 THEN z ELSE Step(e[k - 1], k)
    <3>1. \A k \in 0..m : e[k] = f[k]
      OBVIOUS
    <3> TAKE k \in 0..(m + 1)
    <3>2. CASE k = m + 1
      BY <3>2, <3>1
    <3>3. CASE k # m + 1
      BY <3>3, <3>1, <2>1
    <3> QED BY <3>2, <3>3
  <2>3. e = [k \in 0..(m + 1) |-> e[k]]
    OBVIOUS
  <2> HIDE DEF e
  <2>4. Is(e, m + 1)
    BY <2>2, <2>3
  <2> QED BY <2>4
<1>3. Len(rows) \in S
  <2> HIDE DEF S
  <2>1. \A m \in 0..Len(rows) : m \in S
    BY <1>1, <1>2, Climb
  <2> QED BY <2>1
<1>4. PICK f : Is(f, Len(rows))
  BY <1>3
<1>5. Is(FeedingAll(rows), Len(rows))
  BY <1>4 DEF FeedingAll, Step, z
<1> HIDE DEF S
<1> QED BY <1>5 DEF Step, z

\* par_fill_merge appends chunk after chunk.
LEMMA AppendingIs ==
  ASSUME NEW s, NEW chunks, NEW strict, Len(chunks) \in Nat
  PROVE  /\ Appending(s, chunks, strict)[0] = NewWriter(s)
         /\ \A n \in 0..(Len(chunks) - 1) :
              Appending(s, chunks, strict)[n + 1] =
                  Append1(Appending(s, chunks, strict)[n], FillRows(NewWriter(s), s, chunks[n + 1], strict))
<1> DEFINE Step(x, k) == Append1(x, FillRows(NewWriter(s), s, chunks[k], strict))
           z == NewWriter(s)
           Is(f, m) == f = [k \in 0..m |-> IF k = 0 THEN z ELSE Step(f[k - 1], k)]
           S == {m \in 0..Len(chunks) : \E f : Is(f, m)}
<1> HIDE DEF Step, z
<1>1. 0 \in S
  <2> DEFINE f == [k \in 0..0 |-> z]
  <2>1. \A k \in 0..0 : z = IF k = 0 THEN z ELSE Step(f[k - 1], k)
    OBVIOUS
  <2>2. f = [k \in 0..0 |-> IF k = 0 THEN z ELSE Step(f[k - 1], k)]
    BY <2>1, Zenon
  <2> HIDE DEF f
  <2>3. \E g : Is(g, 0)
    BY <2>2
  <2> QED BY <2>3
<1>2. \A m \in 0..(Len(chunks) - 1) : m \in S => m + 1 \in S
  <2> SUFFICES ASSUME NEW m \in 0..(Len(chunks) - 1), m \in S PROVE m + 1 \in S
    OBVIOUS
  <2>1. PICK f : Is(f, m)
    OBVIOUS
  <2> DEFINE e == [k \in 0..(m + 1) |-> IF k = m + 1 THEN Step(f[m], k) ELSE f[k]]
  <2>2. \A k \in 0..(m + 1) : e[k] = IF k = 0 THEN z ELSE Step(e[k - 1], k)
    <3>1. \A k \in 0..m : e[k] = f[k]
      OBVIOUS
    <3> TAKE k \in 0..(m + 1)
    <3>2. CASE k = m + 1
      BY <3>2, <3>1
    <3>3. CASE k # m + 1
      BY <3>3, <3>1, <2>1
    <3> QED BY <3>2, <3>3
  <2>3. e = [k \in 0..(m + 1) |-> e[k]]
    OBVIOUS
  <2> HIDE DEF e
  <2>4. Is(e, m + 1)
    BY <2>2, <2>3
  <2> QED BY <2>4
<1>3. Len(chunks) \in S
  <2> HIDE DEF S
  <2>1. \A m \in 0..Len(chunks) : m \in S
    BY <1>1, <1>2, Climb
  <2> QED BY <2>1
<1>4. PICK f : Is(f, Len(chunks))
  BY <1>3
<1>5. Is(Appending(s, chunks, strict), Len(chunks))
  BY <1>4 DEF Appending, Step, z
<1> HIDE DEF S
<1> QED BY <1>5 DEF Step, z

\* The growing conversion merges chunk after chunk.
LEMMA MergingAllIs ==
  ASSUME NEW chunks, Len(chunks) \in Nat
  PROVE  /\ MergingAll(chunks)[0] = NoCandidates
         /\ \A n \in 0..(Len(chunks) - 1) :
              MergingAll(chunks)[n + 1] =
                  Merge(MergingAll(chunks)[n], Fed(chunks[n + 1]))
<1> DEFINE Step(x, k) == Merge(x, Fed(chunks[k]))
           z == NoCandidates
           Is(f, m) == f = [k \in 0..m |-> IF k = 0 THEN z ELSE Step(f[k - 1], k)]
           S == {m \in 0..Len(chunks) : \E f : Is(f, m)}
<1> HIDE DEF Step, z
<1>1. 0 \in S
  <2> DEFINE f == [k \in 0..0 |-> z]
  <2>1. \A k \in 0..0 : z = IF k = 0 THEN z ELSE Step(f[k - 1], k)
    OBVIOUS
  <2>2. f = [k \in 0..0 |-> IF k = 0 THEN z ELSE Step(f[k - 1], k)]
    BY <2>1, Zenon
  <2> HIDE DEF f
  <2>3. \E g : Is(g, 0)
    BY <2>2
  <2> QED BY <2>3
<1>2. \A m \in 0..(Len(chunks) - 1) : m \in S => m + 1 \in S
  <2> SUFFICES ASSUME NEW m \in 0..(Len(chunks) - 1), m \in S PROVE m + 1 \in S
    OBVIOUS
  <2>1. PICK f : Is(f, m)
    OBVIOUS
  <2> DEFINE e == [k \in 0..(m + 1) |-> IF k = m + 1 THEN Step(f[m], k) ELSE f[k]]
  <2>2. \A k \in 0..(m + 1) : e[k] = IF k = 0 THEN z ELSE Step(e[k - 1], k)
    <3>1. \A k \in 0..m : e[k] = f[k]
      OBVIOUS
    <3> TAKE k \in 0..(m + 1)
    <3>2. CASE k = m + 1
      BY <3>2, <3>1
    <3>3. CASE k # m + 1
      BY <3>3, <3>1, <2>1
    <3> QED BY <3>2, <3>3
  <2>3. e = [k \in 0..(m + 1) |-> e[k]]
    OBVIOUS
  <2> HIDE DEF e
  <2>4. Is(e, m + 1)
    BY <2>2, <2>3
  <2> QED BY <2>4
<1>3. Len(chunks) \in S
  <2> HIDE DEF S
  <2>1. \A m \in 0..Len(chunks) : m \in S
    BY <1>1, <1>2, Climb
  <2> QED BY <2>1
<1>4. PICK f : Is(f, Len(chunks))
  BY <1>3
<1>5. Is(MergingAll(chunks), Len(chunks))
  BY <1>4 DEF MergingAll, Step, z
<1> HIDE DEF S
<1> QED BY <1>5 DEF Step, z

\* absorb_new_fields goes through the columns of the row one after another.
LEMMA AbsorbingIs ==
  ASSUME NEW cs, Len(cs) \in Nat
  PROVE  /\ Absorbing(cs)[0] = Builder
         /\ \A n \in 0..(Len(cs) - 1) :
              Absorbing(cs)[n + 1] = AbsorbColumn(Absorbing(cs)[n], cs[n + 1])
<1> DEFINE Step(x, k) == AbsorbColumn(x, cs[k])
           z == Builder
           Is(f, m) == f = [k \in 0..m |-> IF k = 0 THEN z ELSE Step(f[k - 1], k)]
           S == {m \in 0..Len(cs) : \E f : Is(f, m)}
<1> HIDE DEF Step, z
<1>1. 0 \in S
  <2> DEFINE f == [k \in 0..0 |-> z]
  <2>1. \A k \in 0..0 : z = IF k = 0 THEN z ELSE Step(f[k - 1], k)
    OBVIOUS
  <2>2. f = [k \in 0..0 |-> IF k = 0 THEN z ELSE Step(f[k - 1], k)]
    BY <2>1, Zenon
  <2> HIDE DEF f
  <2>3. \E g : Is(g, 0)
    BY <2>2
  <2> QED BY <2>3
<1>2. \A m \in 0..(Len(cs) - 1) : m \in S => m + 1 \in S
  <2> SUFFICES ASSUME NEW m \in 0..(Len(cs) - 1), m \in S PROVE m + 1 \in S
    OBVIOUS
  <2>1. PICK f : Is(f, m)
    OBVIOUS
  <2> DEFINE e == [k \in 0..(m + 1) |-> IF k = m + 1 THEN Step(f[m], k) ELSE f[k]]
  <2>2. \A k \in 0..(m + 1) : e[k] = IF k = 0 THEN z ELSE Step(e[k - 1], k)
    <3>1. \A k \in 0..m : e[k] = f[k]
      OBVIOUS
    <3> TAKE k \in 0..(m + 1)
    <3>2. CASE k = m + 1
      BY <3>2, <3>1
    <3>3. CASE k # m + 1
      BY <3>3, <3>1, <2>1
    <3> QED BY <3>2, <3>3
  <2>3. e = [k \in 0..(m + 1) |-> e[k]]
    OBVIOUS
  <2> HIDE DEF e
  <2>4. Is(e, m + 1)
    BY <2>2, <2>3
  <2> QED BY <2>4
<1>3. Len(cs) \in S
  <2> HIDE DEF S
  <2>1. \A m \in 0..Len(cs) : m \in S
    BY <1>1, <1>2, Climb
  <2> QED BY <2>1
<1>4. PICK f : Is(f, Len(cs))
  BY <1>3
<1>5. Is(Absorbing(cs), Len(cs))
  BY <1>4 DEF Absorbing, Step, z
<1> HIDE DEF S
<1> QED BY <1>5 DEF Step, z

-----------------------------------------------------------------------------
(* The calls of a row.                                                      *)

\* The fields among the first k calls.
Seen(cs, k) == {j \in Fields(cs) : j <= k}
\* The struct at p has ended within the first k calls.
Ended(cs, k, p) == \E e \in 1..k : Ends(cs[e]) /\ cs[e].at = p

\* The assumption on derived serializers, part by part.
LEMMA NestedAre ==
  ASSUME NEW cs, Nested(cs)
  PROVE  /\ Len(cs) \in Nat
         /\ \A k \in 1..Len(cs) : cs[k].at \in Paths
         /\ \A j, k \in Fields(cs) : cs[j].at = cs[k].at => j = k
         /\ \A j, k \in 1..Len(cs) : Ends(cs[j]) /\ Ends(cs[k]) /\ cs[j].at = cs[k].at => j = k
         /\ \A e \in 1..Len(cs) : Ends(cs[e]) => \E j \in Fields(cs) : j < e /\ cs[j].at = cs[e].at
         /\ \A k \in 1..Len(cs) : Len(cs[k].at) > 1 =>
              \E j \in Fields(cs) : cs[j].at = Front(cs[k].at) /\ Nests(cs[j].value)
  BY DEF Nested, Fields, Paths

\* What the nesting of calls says at a distance: what is above a field is a struct that
\* was called before it and ends after it, and calls between that are outside mean that
\* it has ended.
LEMMA NestedOrder ==
  ASSUME NEW cs, Nested(cs)
  PROVE  /\ \A j \in Fields(cs), k \in 1..Len(cs) :
              Above(cs[j].at, cs[k].at) => Nests(cs[j].value) /\ j < k
         /\ \A e, k \in 1..Len(cs) : Ends(cs[e]) /\ Above(cs[e].at, cs[k].at) => k < e
         /\ \A j \in Fields(cs), k \in 1..Len(cs) :
              Nests(cs[j].value) /\ j < k /\ ~Above(cs[j].at, cs[k].at) => Ended(cs, k, cs[j].at)
         /\ \A j \in Fields(cs) : Nests(cs[j].value) => Ended(cs, Len(cs), cs[j].at)
         /\ \A q \in Paths, k \in 1..Len(cs) :
              Above(q, cs[k].at) => \E j \in Fields(cs) : cs[j].at = q /\ Nests(cs[j].value)
<1> DEFINE n == Len(cs)
<1>1. \A q \in Paths, k \in 1..n :
        Above(q, cs[k].at) => \E j \in Fields(cs) : cs[j].at = q /\ Nests(cs[j].value)
  <2> SUFFICES ASSUME NEW q \in Paths, NEW k \in 1..n, Above(q, cs[k].at)
               PROVE  \E j \in Fields(cs) : cs[j].at = q /\ Nests(cs[j].value)
    OBVIOUS
  <2> DEFINE S == {cs[i].at : i \in 1..n}
             G == {cs[j].at : j \in {j \in Fields(cs) : Nests(cs[j].value)}}
  <2>1. G \subseteq S /\ S \subseteq Paths /\ cs[k].at \in S
    BY NestedAre DEF Fields
  <2>2. \A p \in S : Len(p) > 1 => Front(p) \in G
    BY NestedAre
  <2>3. q \in G
    <3> HIDE DEF S, G
    <3> QED BY <2>1, <2>2, Ancestors
  <2> QED BY <2>3
<1>2. \A j \in Fields(cs) : Nests(cs[j].value) =>
        \E e \in 1..n : /\ j < e /\ Ends(cs[e]) /\ cs[e].at = cs[j].at
                        /\ \A k \in 1..n : j < k /\ k < e <=> Above(cs[j].at, cs[k].at)
  BY DEF Nested, Nests, Above
<1>3. n \in Nat /\ Fields(cs) \subseteq 1..n
  BY NestedAre DEF Fields
<1>4. ASSUME NEW j \in Fields(cs), NEW k \in 1..n, Above(cs[j].at, cs[k].at)
      PROVE  Nests(cs[j].value) /\ j < k
  <2>1. cs[j].at \in Paths
    BY <1>3, NestedAre
  <2>2. PICK i \in Fields(cs) : cs[i].at = cs[j].at /\ Nests(cs[i].value)
    BY <1>1, <1>4, <2>1
  <2>3. i = j
    BY <2>2, NestedAre
  <2>4. PICK e \in 1..n : \A x \in 1..n : j < x /\ x < e <=> Above(cs[j].at, cs[x].at)
    BY <1>2, <2>2, <2>3
  <2> QED BY <2>2, <2>3, <2>4, <1>4
<1>5. ASSUME NEW e \in 1..n, NEW k \in 1..n, Ends(cs[e]), Above(cs[e].at, cs[k].at)
      PROVE  k < e
  <2>1. PICK j \in Fields(cs) : j < e /\ cs[j].at = cs[e].at
    BY <1>5, NestedAre
  <2>2. Nests(cs[j].value)
    BY <1>4, <1>5, <2>1
  <2>3. PICK f \in 1..n : /\ Ends(cs[f]) /\ cs[f].at = cs[j].at
                          /\ \A x \in 1..n : j < x /\ x < f <=> Above(cs[j].at, cs[x].at)
    BY <1>2, <2>2
  <2>4. f = e
    BY <1>5, <2>1, <2>3, NestedAre
  <2> QED BY <1>5, <2>1, <2>3, <2>4
<1>6. ASSUME NEW j \in Fields(cs), NEW k \in 1..n,
             Nests(cs[j].value), j < k, ~Above(cs[j].at, cs[k].at)
      PROVE  Ended(cs, k, cs[j].at)
  <2>1. PICK e \in 1..n : /\ j < e /\ Ends(cs[e]) /\ cs[e].at = cs[j].at
                          /\ \A x \in 1..n : j < x /\ x < e <=> Above(cs[j].at, cs[x].at)
    BY <1>2, <1>6
  <2>2. e \in 1..k
    BY <1>3, <1>6, <2>1
  <2> QED BY <2>1, <2>2 DEF Ended
<1>7. \A j \in Fields(cs) : Nests(cs[j].value) => Ended(cs, n, cs[j].at)
  BY <1>2 DEF Ended
<1> QED BY <1>1, <1>4, <1>5, <1>6, <1>7

-----------------------------------------------------------------------------
(* Schemas that are right: columns from at on, and the map to them.         *)

\* The paths that end in a column.
LeavesOf(map) == {p \in DOMAIN map : ~map[p].sub}

\* Columns and routes have their types, and a route with columns stays in the schema.
InRange(cols, map, at) ==
  /\ cols \in Seq(Cols) /\ at \in Int
  /\ DOMAIN map \subseteq Paths
  /\ \A p \in DOMAIN map :
       /\ map[p] \in Routes
       /\ map[p].count > 0 => at <= map[p].start /\ map[p].start + map[p].count <= at + Len(cols)
\* What is above a path is in the map, as a struct.
ParentsIn(map) == \A p \in DOMAIN map : Len(p) > 1 => Front(p) \in DOMAIN map /\ map[Front(p)].sub
\* Leaves and columns correspond one to one, by name.
LeavesFit(cols, map, at) ==
  /\ \A p \in LeavesOf(map) : map[p].count = 1 /\ cols[map[p].start - at + 1].name = FlattenSeq(p)
  /\ \A i \in 1..Len(cols) : \E p \in LeavesOf(map) : map[p].start = at + i - 1
  /\ \A p, q \in LeavesOf(map) : map[p].start = map[q].start => p = q
\* A struct covers the columns of its fields at any depth and no others.
Spans(map) ==
  \A p \in DOMAIN map \ LeavesOf(map), q \in LeavesOf(map) : map[q].start \in Span(map[p]) <=> Above(p, q)

\* A schema, or the part of one whose columns start at at.
Sound(cols, map, at) == InRange(cols, map, at) /\ ParentsIn(map) /\ LeavesFit(cols, map, at) /\ Spans(map)
\* A whole schema.
Shaped(s) == Sound(s.cols, s.map, 1)

\* A schema of the right shape routes each path to its column, as Routed demands.
LEMMA ShapedIsRouted ==
  ASSUME NEW s, Shaped(s)
  PROVE  Routed(s)
<1> DEFINE n == Len(s.cols)
<1>1. n \in Nat /\ DOMAIN s.cols = 1..n
  BY LenProperties DEF Shaped, Sound, InRange
<1>2. ASSUME NEW i \in DOMAIN s.cols
      PROVE  \E p \in Leaves(s) : /\ \A q \in Leaves(s) : s.map[q].start = i <=> q = p
                                  /\ s.cols[i].name = FlattenSeq(p)
  <2>1. i \in 1..n /\ i \in Nat /\ 1 + i - 1 = i
    BY <1>1, <1>2
  <2>2. PICK p \in LeavesOf(s.map) : s.map[p].start = i
    BY <2>1 DEF Shaped, Sound, LeavesFit
  <2>3. i - 1 + 1 = i
    BY <2>1
  <2>4. s.cols[i].name = FlattenSeq(p)
    BY <2>2, <2>3 DEF Shaped, Sound, LeavesFit
  <2> QED BY <2>2, <2>4 DEF Shaped, Sound, LeavesFit, Leaves, LeavesOf
<1> QED BY <1>2 DEF Routed, Shaped, Sound, Spans, Above, Leaves, LeavesOf

\* The empty schema a builder starts with has the right shape.
LEMMA NoSchemaShaped == Shaped(NoSchema)
<1>1. NoSchema.cols = <<>> /\ NoSchema.map = <<>>
  BY DEF NoSchema, NoMap
<1>2. <<>> \in Seq(Cols) /\ Len(<<>>) = 0
  BY EmptySeq
<1>3. DOMAIN <<>> = {}
  BY <1>2, LenProperties
<1> QED BY <1>1, <1>2, <1>3 DEF Shaped, Sound, InRange, ParentsIn, LeavesFit, LeavesOf, Spans

\* The fields of a FieldMap entry.
LEMMA RouteIs ==
  ASSUME NEW start \in Int, NEW count \in Nat
  PROVE  /\ Route(start, count, TRUE) \in Routes
         /\ Route(start, count, TRUE).start = start
         /\ Route(start, count, TRUE).count = count
         /\ Route(start, count, TRUE).sub
         /\ Route(start, count, FALSE) \in Routes
         /\ Route(start, count, FALSE).start = start
         /\ Route(start, count, FALSE).count = count
         /\ ~Route(start, count, FALSE).sub
  BY DEF Route, Routes

\* A new column comes last and leaves the others where they are.
LEMMA ColumnAppended ==
  ASSUME NEW cols \in Seq(Cols), NEW c \in Cols
  PROVE  /\ Append(cols, c) \in Seq(Cols)
         /\ Len(cols) \in Nat /\ Len(Append(cols, c)) = Len(cols) + 1
         /\ \A i \in 1..Len(cols) : Append(cols, c)[i] = cols[i]
         /\ Append(cols, c)[Len(cols) + 1] = c
  BY AppendProperties, LenProperties

\* A struct enters the map, or its columns are counted.
LEMMA EnterSub ==
  ASSUME NEW cols, NEW map, NEW at, NEW p \in Paths, NEW r \in Routes,
         InRange(cols, map, at), LeavesFit(cols, map, at),
         p \notin LeavesOf(map), r.sub, at <= r.start, r.start + r.count <= at + Len(cols)
  PROVE  LET m == Entered(p, r, map)
         IN  /\ InRange(cols, m, at) /\ LeavesFit(cols, m, at) /\ LeavesOf(m) = LeavesOf(map)
<1> DEFINE m == Entered(p, r, map)
<1>1. /\ DOMAIN m = DOMAIN map \cup {p} /\ m[p] = r
      /\ \A q \in DOMAIN map : q # p => m[q] = map[q]
  BY DEF Entered, Joined
<1> HIDE DEF m
<1>2. LeavesOf(m) = LeavesOf(map)
  BY <1>1 DEF LeavesOf
<1>3. InRange(cols, m, at)
  BY <1>1 DEF InRange
<1>4. \A q \in LeavesOf(map) : m[q] = map[q]
  BY <1>1 DEF LeavesOf
<1>5. LeavesFit(cols, m, at)
  BY <1>2, <1>4 DEF LeavesFit
<1> QED BY <1>1, <1>2, <1>3, <1>5 DEF m

\* A column at the end.
LEMMA EnterLeaf ==
  ASSUME NEW cols, NEW map, NEW at, NEW p \in Paths, NEW c \in Cols, NEW r \in Routes,
         InRange(cols, map, at), LeavesFit(cols, map, at),
         p \notin DOMAIN map, c.name = FlattenSeq(p),
         r.start = at + Len(cols), r.count = 1, ~r.sub
  PROVE  LET m == Entered(p, r, map)
         IN  /\ InRange(Append(cols, c), m, at) /\ LeavesFit(Append(cols, c), m, at)
             /\ LeavesOf(m) = LeavesOf(map) \cup {p}
<1> DEFINE n == Len(cols)
           m == Entered(p, r, map)
           new == Append(cols, c)
<1>1. /\ new \in Seq(Cols) /\ n \in Nat /\ Len(new) = n + 1 /\ at \in Int
      /\ \A i \in 1..n : new[i] = cols[i]
      /\ new[n + 1] = c
  BY ColumnAppended DEF InRange
<1>2. r \in Routes /\ r.start = at + n /\ r.count = 1 /\ ~r.sub
  OBVIOUS
<1>3. /\ DOMAIN m = DOMAIN map \cup {p} /\ m[p] = r
      /\ \A q \in DOMAIN map : m[q] = map[q]
  BY DEF Entered, Joined
<1> HIDE DEF m, new
<1>4. LeavesOf(m) = LeavesOf(map) \cup {p}
  BY <1>2, <1>3 DEF LeavesOf
<1>5. InRange(new, m, at)
  <2>1. at + n + 1 <= at + (n + 1) /\ at <= at + n
    BY <1>1
  <2>2. \A q \in DOMAIN map : map[q] \in Routes
    BY DEF InRange
  <2>3. \A q \in DOMAIN map :
          map[q].count > 0 => at <= map[q].start /\ map[q].start + map[q].count <= at + (n + 1)
    <3> SUFFICES ASSUME NEW q \in DOMAIN map, map[q].count > 0
                 PROVE  at <= map[q].start /\ map[q].start + map[q].count <= at + (n + 1)
      OBVIOUS
    <3>1. map[q].start \in Int /\ map[q].count \in Nat
      BY <2>2 DEF Routes
    <3>2. at <= map[q].start /\ map[q].start + map[q].count <= at + n
      BY DEF InRange
    <3>3. \A a, x \in Int, b, l \in Nat : x + b <= a + l => x + b <= a + (l + 1)
      OBVIOUS
    <3> HIDE DEF n
    <3> QED BY <3>1, <3>2, <3>3, <1>1
  <2> QED BY <1>1, <1>2, <1>3, <2>1, <2>2, <2>3 DEF InRange
<1>6. \A q \in LeavesOf(map) : /\ map[q].start \in Int /\ at <= map[q].start
                               /\ map[q].start < at + n /\ map[q].count = 1
                               /\ map[q].start - at + 1 \in 1..n /\ q # p
                               /\ cols[map[q].start - at + 1].name = FlattenSeq(q)
  <2> SUFFICES ASSUME NEW q \in LeavesOf(map)
               PROVE  /\ map[q].start \in Int /\ at <= map[q].start
                      /\ map[q].start < at + n /\ map[q].count = 1
                      /\ map[q].start - at + 1 \in 1..n /\ q # p
                      /\ cols[map[q].start - at + 1].name = FlattenSeq(q)
    OBVIOUS
  <2>1. /\ map[q].start \in Int /\ map[q].count = 1 /\ q # p
        /\ map[q].count > 0 => at <= map[q].start /\ map[q].start + map[q].count <= at + n
        /\ cols[map[q].start - at + 1].name = FlattenSeq(q)
    BY DEF InRange, LeavesFit, LeavesOf, Routes
  <2> QED BY <2>1, <1>1
<1>7. LeavesFit(new, m, at)
  <2>1. \A q \in LeavesOf(m) : m[q].count = 1 /\ new[m[q].start - at + 1].name = FlattenSeq(q)
    <3> TAKE q \in LeavesOf(m)
    <3>1. CASE q = p
      <4>1. at + n - at + 1 = n + 1
        BY <1>1
      <4> QED BY <3>1, <4>1, <1>1, <1>2, <1>3
    <3>2. CASE q \in LeavesOf(map)
      <4>1. m[q] = map[q]
        BY <3>2, <1>3 DEF LeavesOf
      <4> QED BY <3>2, <4>1, <1>1, <1>6
    <3> QED BY <3>1, <3>2, <1>4
  <2>2. \A i \in 1..Len(new) : \E q \in LeavesOf(m) : m[q].start = at + i - 1
    <3> TAKE i \in 1..Len(new)
    <3>1. CASE i = n + 1
      <4>1. at + i - 1 = at + n
        BY <3>1, <1>1
      <4> QED BY <4>1, <1>2, <1>3, <1>4
    <3>2. CASE i # n + 1
      <4>1. i \in 1..n
        BY <3>2, <1>1
      <4>2. PICK q \in LeavesOf(map) : map[q].start = at + i - 1
        BY <4>1 DEF LeavesFit
      <4> QED BY <4>2, <1>3, <1>4 DEF LeavesOf
    <3> QED BY <3>1, <3>2
  <2>3. \A q, u \in LeavesOf(m) : m[q].start = m[u].start => q = u
    <3>1. \A q \in LeavesOf(map) : m[q] = map[q]
      BY <1>3 DEF LeavesOf
    <3>2. \A q, u \in LeavesOf(map) : map[q].start = map[u].start => q = u
      BY DEF LeavesFit
    <3>3. \A q \in LeavesOf(map) : m[q].start # m[p].start
      BY <3>1, <1>1, <1>2, <1>3, <1>6
    <3> QED BY <3>1, <3>2, <3>3, <1>4
  <2> QED BY <2>1, <2>2, <2>3 DEF LeavesFit
<1> QED BY <1>2, <1>3, <1>4, <1>5, <1>7 DEF m, new

-----------------------------------------------------------------------------
(* Discovery.                                                               *)

\* Routes stay within the columns.
Within(cols, map) ==
  \A p \in DOMAIN map : 1 <= map[p].start /\ map[p].start + map[p].count <= 1 + Len(cols)

\* After k calls: structs that have ended have the columns of their fields, the others
\* have all columns since they started.
DInv(cs, k, d) ==
  /\ InRange(d.cols, d.map, 1) /\ LeavesFit(d.cols, d.map, 1) /\ Within(d.cols, d.map)
  /\ DOMAIN d.map = {cs[j].at : j \in Seen(cs, k)}
  /\ \A j \in Seen(cs, k) : d.map[cs[j].at].sub <=> Nests(cs[j].value)
  /\ \A p \in DOMAIN d.map \ LeavesOf(d.map), q \in LeavesOf(d.map) :
       IF Ended(cs, k, p) THEN d.map[q].start \in Span(d.map[p]) <=> Above(p, q)
                          ELSE d.map[p].start <= d.map[q].start <=> Above(p, q)

\* TypeProbe gives a column type for any value.
LEMMA ProbeIs == \A v : Probe(v) \in Types
  BY DEF Probe, Types

\* The column that discovery makes of a field.
LEMMA ColumnIs ==
  ASSUME NEW p \in Paths, NEW v
  PROVE  /\ Column(FlattenSeq(p), Probe(v)) \in Cols
         /\ Column(FlattenSeq(p), Probe(v)).name = FlattenSeq(p)
  BY ProbeIs, FlattenIs DEF Column, Cols

\* One more call: a field is seen, or a struct has ended.
LEMMA SeenNext ==
  ASSUME NEW cs, Nested(cs), NEW k \in 0..(Len(cs) - 1)
  PROVE  /\ k + 1 \in 1..Len(cs)
         /\ ~Ends(cs[k + 1]) => Seen(cs, k + 1) = Seen(cs, k) \cup {k + 1} /\ k + 1 \in Fields(cs)
         /\ Ends(cs[k + 1]) => Seen(cs, k + 1) = Seen(cs, k)
         /\ \A p : Ended(cs, k + 1, p) <=> Ended(cs, k, p) \/ (Ends(cs[k + 1]) /\ cs[k + 1].at = p)
<1>1. Len(cs) \in Nat /\ k \in Nat /\ k + 1 \in 1..Len(cs)
  BY NestedAre
<1>2. \A j \in Nat : j <= k + 1 <=> j <= k \/ j = k + 1
  BY <1>1
<1>3. 1..(k + 1) = 1..k \cup {k + 1}
  BY <1>1
<1>4. \A j \in Fields(cs) : j \in Nat /\ j \in 1..Len(cs) /\ ~Ends(cs[j])
  BY <1>1 DEF Fields
<1>5. ~Ends(cs[k + 1]) => k + 1 \in Fields(cs)
  BY <1>1 DEF Fields
<1> QED BY <1>1, <1>2, <1>3, <1>4, <1>5 DEF Seen, Ended

\* process_field on a struct with fields.
LEMMA DiscoverySub ==
  ASSUME NEW cs, Nested(cs), NEW k \in 0..(Len(cs) - 1), NEW d, DInv(cs, k, d),
         ~Ends(cs[k + 1]), Nests(cs[k + 1].value)
  PROVE  DInv(cs, k + 1, Process(d, cs[k + 1]))
<1> DEFINE c == cs[k + 1]
           n == Len(d.cols)
           r == Route(n + 1, 0, TRUE)
           m == Entered(c.at, r, d.map)
<1>1. /\ k + 1 \in 1..Len(cs) /\ k + 1 \in Fields(cs) /\ Seen(cs, k + 1) = Seen(cs, k) \cup {k + 1}
      /\ \A p : Ended(cs, k + 1, p) <=> Ended(cs, k, p)
  BY SeenNext
<1>2. Process(d, c) = [cols |-> d.cols, map |-> m]
  BY DEF Process
<1>3. n \in Nat /\ k \in Nat
  <2>1. d.cols \in Seq(Cols)
    BY DEF DInv, InRange
  <2> QED BY <2>1, LenProperties
<1>4. r \in Routes /\ r.start = n + 1 /\ r.count = 0 /\ r.sub
  <2>1. n + 1 \in Int /\ 0 \in Nat
    BY <1>3
  <2> QED BY <2>1, RouteIs
<1>5. \A j \in Seen(cs, k) : j \in Fields(cs) /\ j # k + 1 /\ j < k + 1
  BY <1>3 DEF Seen, Fields
<1>6. c.at \notin DOMAIN d.map /\ c.at \in Paths
  BY <1>1, <1>5, NestedAre DEF DInv
<1>7. /\ InRange(d.cols, m, 1) /\ LeavesFit(d.cols, m, 1) /\ LeavesOf(m) = LeavesOf(d.map)
      /\ DOMAIN m = DOMAIN d.map \cup {c.at} /\ m[c.at] = r
      /\ \A q \in DOMAIN d.map : m[q] = d.map[q]
  <2> HIDE DEF r, c
  <2>1. c.at \notin LeavesOf(d.map)
    BY <1>6 DEF LeavesOf
  <2>2. 1 <= r.start /\ r.start + r.count <= 1 + n
    BY <1>3, <1>4
  <2>3. InRange(d.cols, m, 1) /\ LeavesFit(d.cols, m, 1) /\ LeavesOf(m) = LeavesOf(d.map)
    BY <1>4, <1>6, <2>1, <2>2, EnterSub DEF DInv
  <2>4. /\ DOMAIN m = DOMAIN d.map \cup {c.at} /\ m[c.at] = r
        /\ \A q \in DOMAIN d.map : q # c.at => m[q] = d.map[q]
    BY DEF Entered, Joined
  <2> QED BY <1>6, <2>3, <2>4
<1>70. Within(d.cols, m)
  <2> HIDE DEF m
  <2> HIDE DEF r
  <2>1. 1 <= r.start /\ r.start + r.count <= 1 + n
    <3> HIDE DEF n
    <3> QED BY <1>3, <1>4
  <2> QED BY <2>1, <1>7 DEF DInv, Within
<1>8. DOMAIN m = {cs[j].at : j \in Seen(cs, k + 1)}
  BY <1>1, <1>7 DEF DInv
<1>9. \A j \in Seen(cs, k + 1) : m[cs[j].at].sub <=> Nests(cs[j].value)
  <2> TAKE j \in Seen(cs, k + 1)
  <2>1. CASE j = k + 1
    BY <2>1, <1>4, <1>7
  <2>2. CASE j \in Seen(cs, k)
    BY <2>2, <1>7 DEF DInv
  <2> QED BY <1>1, <2>1, <2>2
<1>10. \A p \in DOMAIN m \ LeavesOf(m), q \in LeavesOf(m) :
         IF Ended(cs, k + 1, p) THEN m[q].start \in Span(m[p]) <=> Above(p, q)
                                ELSE m[p].start <= m[q].start <=> Above(p, q)
  <2> TAKE p \in DOMAIN m \ LeavesOf(m), q \in LeavesOf(m)
  <2>1. q \in LeavesOf(d.map) /\ m[q] = d.map[q] /\ q \in DOMAIN d.map
    BY <1>7 DEF LeavesOf
  <2>2. CASE p \in DOMAIN d.map
    BY <2>1, <2>2, <1>1, <1>7 DEF DInv, LeavesOf
  <2>3. CASE p = c.at
    <3>1. PICK j \in Seen(cs, k) : q = cs[j].at
      BY <2>1 DEF DInv
    <3>2. j \in 1..Len(cs)
      BY <1>5 DEF Fields
    <3>3. ~Above(c.at, q)
      BY <1>1, <1>5, <3>1, <3>2, NestedOrder
    <3>4. d.map[q].start \in Int /\ d.map[q].count = 1 /\ d.map[q].start + d.map[q].count <= 1 + n
      BY <2>1 DEF DInv, InRange, Within, LeavesFit, Routes
    <3>5. ~(m[p].start <= m[q].start)
      <4>1. m[p] = r /\ m[q] = d.map[q]
        BY <2>1, <2>3, <1>7
      <4>2. m[p].start = n + 1
        BY <4>1, <1>4
      <4> HIDE DEF m, r
      <4> QED BY <4>1, <4>2, <3>4, <1>3
    <3>6. ~Ended(cs, k + 1, p)
      <4> SUFFICES ASSUME NEW e \in 1..k, Ends(cs[e]), cs[e].at = p PROVE FALSE
        BY <1>1 DEF Ended
      <4>1. e \in 1..Len(cs)
        BY <1>1, <1>3
      <4>2. PICK i \in Fields(cs) : i < e /\ cs[i].at = c.at
        BY <2>3, <4>1, NestedAre
      <4>3. i = k + 1
        BY <4>2, <1>1, NestedAre
      <4> QED BY <4>2, <4>3, <1>3
    <3> QED BY <2>3, <3>3, <3>5, <3>6
  <2> QED BY <2>2, <2>3, <1>7
<1> HIDE DEF m, c
<1>11. Process(d, c).cols = d.cols /\ Process(d, c).map = m
  BY <1>2
<1> QED BY <1>7, <1>70, <1>8, <1>9, <1>10, <1>11 DEF DInv, c

\* process_field on anything else: one column.
LEMMA DiscoveryLeaf ==
  ASSUME NEW cs, Nested(cs), NEW k \in 0..(Len(cs) - 1), NEW d, DInv(cs, k, d),
         ~Ends(cs[k + 1]), ~Nests(cs[k + 1].value)
  PROVE  DInv(cs, k + 1, Process(d, cs[k + 1]))
<1> DEFINE c == cs[k + 1]
           n == Len(d.cols)
           r == Route(1 + n, 1, FALSE)
           m == Entered(c.at, r, d.map)
           col == Column(FlattenSeq(c.at), Probe(c.value))
           new == Append(d.cols, col)
<1>1. /\ k + 1 \in 1..Len(cs) /\ k + 1 \in Fields(cs) /\ Seen(cs, k + 1) = Seen(cs, k) \cup {k + 1}
      /\ \A p : Ended(cs, k + 1, p) <=> Ended(cs, k, p)
  BY SeenNext
<1>3. n \in Nat /\ k \in Nat /\ n + 1 = 1 + n
  <2>1. d.cols \in Seq(Cols)
    BY DEF DInv, InRange
  <2>2. n \in Nat
    BY <2>1, LenProperties
  <2> QED BY <2>2
<1>2. Process(d, c) = [cols |-> new, map |-> m]
  <2>1. Process(d, c) = [cols |-> new, map |-> Entered(c.at, Route(n + 1, 1, FALSE), d.map)]
    BY DEF Process
  <2> QED BY <2>1, <1>3
<1>4. r \in Routes /\ r.start = n + 1 /\ r.count = 1 /\ ~r.sub
  <2>1. 1 + n \in Int /\ 1 \in Nat
    BY <1>3
  <2>2. r \in Routes /\ r.start = 1 + n /\ r.count = 1 /\ ~r.sub
    BY <2>1, RouteIs
  <2> QED BY <2>2, <1>3
<1>5. \A j \in Seen(cs, k) : j \in Fields(cs) /\ j # k + 1 /\ j < k + 1
  BY <1>3 DEF Seen, Fields
<1>6. c.at \notin DOMAIN d.map /\ c.at \in Paths
  BY <1>1, <1>5, NestedAre DEF DInv
<1>7. InRange(new, m, 1) /\ LeavesFit(new, m, 1) /\ LeavesOf(m) = LeavesOf(d.map) \cup {c.at}
  <2>1. col \in Cols /\ col.name = FlattenSeq(c.at)
    BY <1>6, ColumnIs
  <2>2. InRange(d.cols, d.map, 1) /\ LeavesFit(d.cols, d.map, 1)
    BY DEF DInv
  <2>3. r.start = 1 + n
    BY <1>3, <1>4
  <2> HIDE DEF c, col, r
  <2> QED BY <1>4, <1>6, <2>1, <2>2, <2>3, EnterLeaf
<1>70. /\ DOMAIN m = DOMAIN d.map \cup {c.at} /\ m[c.at] = r
       /\ \A q \in DOMAIN d.map : m[q] = d.map[q]
  BY <1>6 DEF Entered, Joined
<1>71. Within(new, m)
  <2>1. Len(new) = n + 1
    <3>1. d.cols \in Seq(Cols) /\ col \in Cols
      BY <1>6, ColumnIs DEF DInv, InRange
    <3> HIDE DEF col
    <3> QED BY <3>1, ColumnAppended
  <2>2. 1 <= r.start /\ r.start + r.count <= 1 + (n + 1)
    <3> HIDE DEF n, r
    <3> QED BY <1>3, <1>4
  <2>3. \A q \in DOMAIN d.map : /\ d.map[q].start \in Int /\ d.map[q].count \in Nat
                               /\ 1 <= d.map[q].start /\ d.map[q].start + d.map[q].count <= 1 + n
    BY DEF DInv, Within, InRange, Routes
  <2>4. \A q \in DOMAIN d.map : d.map[q].start + d.map[q].count <= 1 + (n + 1)
    <3> HIDE DEF n
    <3> QED BY <2>3, <1>3
  <2> HIDE DEF m, new, r
  <2> QED BY <1>70, <2>1, <2>2, <2>3, <2>4 DEF Within
<1>8. DOMAIN m = {cs[j].at : j \in Seen(cs, k + 1)}
  <2>1. DOMAIN d.map = {cs[j].at : j \in Seen(cs, k)}
    BY DEF DInv
  <2>2. DOMAIN m = DOMAIN d.map \cup {c.at}
    BY <1>70
  <2> HIDE DEF m
  <2> QED BY <2>1, <2>2, <1>1
<1>9. \A j \in Seen(cs, k + 1) : m[cs[j].at].sub <=> Nests(cs[j].value)
  <2> TAKE j \in Seen(cs, k + 1)
  <2>1. CASE j = k + 1
    BY <2>1, <1>4, <1>70
  <2>2. CASE j \in Seen(cs, k)
    BY <2>2, <1>70 DEF DInv
  <2> QED BY <1>1, <2>1, <2>2
<1>10. \A p \in DOMAIN m \ LeavesOf(m), q \in LeavesOf(m) :
         IF Ended(cs, k + 1, p) THEN m[q].start \in Span(m[p]) <=> Above(p, q)
                                ELSE m[p].start <= m[q].start <=> Above(p, q)
  <2> TAKE p \in DOMAIN m \ LeavesOf(m), q \in LeavesOf(m)
  <2>1. p \in DOMAIN d.map \ LeavesOf(d.map) /\ m[p] = d.map[p]
    BY <1>7, <1>70
  <2>2. CASE q \in LeavesOf(d.map)
    <3>1. m[q] = d.map[q]
      BY <2>2, <1>70 DEF LeavesOf
    <3> QED BY <2>1, <2>2, <3>1, <1>1 DEF DInv
  <2>3. CASE q = c.at
    <3>1. PICK j \in Seen(cs, k) : p = cs[j].at
      BY <2>1 DEF DInv
    <3>2. Nests(cs[j].value) /\ j \in Fields(cs) /\ j < k + 1
      BY <2>1, <3>1, <1>5 DEF DInv, LeavesOf
    <3>3. m[q].start = n + 1
      BY <2>3, <1>4, <1>70
    <3>4. /\ d.map[p].start \in Nat /\ d.map[p].count \in Nat
          /\ d.map[p].start + d.map[p].count <= 1 + n
      <4>1. d.map[p].start \in Int /\ d.map[p].count \in Nat /\ 1 <= d.map[p].start
        BY <2>1 DEF DInv, InRange, Within, Routes
      <4>2. d.map[p].start + d.map[p].count <= 1 + n
        BY <2>1 DEF DInv, Within
      <4> QED BY <4>1, <4>2
    <3>5. CASE Ended(cs, k + 1, p)
      <4>1. PICK e \in 1..k : Ends(cs[e]) /\ cs[e].at = p
        BY <3>5, <1>1 DEF Ended
      <4>2. e \in 1..Len(cs) /\ ~(k + 1 < e)
        BY <1>1, <1>3
      <4>3. ~Above(p, q)
        BY <4>1, <4>2, <2>3, <1>1, NestedOrder
      <4>4. \A a, b, l \in Nat : a + b <= 1 + l => l + 1 \notin a..(a + b - 1)
        OBVIOUS
      <4>6. n + 1 \notin Span(d.map[p])
        BY <4>4, <3>4, <1>3 DEF Span
      <4> HIDE DEF m
      <4>5. ~(m[q].start \in Span(m[p]))
        BY <2>1, <3>3, <4>6
      <4> QED BY <3>5, <4>3, <4>5
    <3>6. CASE ~Ended(cs, k + 1, p)
      <4>1. Above(p, q)
        BY <3>1, <3>2, <3>6, <2>3, <1>1, NestedOrder
      <4>2. d.map[p].start <= n + 1
        BY <3>4, <1>3
      <4> QED BY <2>1, <3>3, <3>6, <4>1, <4>2
    <3> QED BY <3>5, <3>6
  <2> QED BY <2>2, <2>3, <1>7
<1> HIDE DEF m, c, new
<1>11. Process(d, c).cols = new /\ Process(d, c).map = m
  BY <1>2
<1> QED BY <1>7, <1>71, <1>8, <1>9, <1>10, <1>11 DEF DInv, c

\* The end of a struct sets the count of its route.
LEMMA ProcessEnd ==
  ASSUME NEW d, NEW c, Ends(c), d.map[c.at].sub, NEW at, at = Len(d.cols) + 1,
         NEW r, r = Route(d.map[c.at].start, at - d.map[c.at].start, TRUE)
  PROVE  Process(d, c) = [cols |-> d.cols, map |-> Entered(c.at, r, d.map)]
  BY DEF Process

\* process_field when a struct has ended: its columns are those found since it started.
LEMMA DiscoveryEnd ==
  ASSUME NEW cs, Nested(cs), NEW k \in 0..(Len(cs) - 1), NEW d, DInv(cs, k, d), Ends(cs[k + 1])
  PROVE  DInv(cs, k + 1, Process(d, cs[k + 1]))
<1> DEFINE c == cs[k + 1]
           n == Len(d.cols)
           start == d.map[c.at].start
           r == Route(start, (n + 1) - start, TRUE)
           m == Entered(c.at, r, d.map)
<1>1. /\ k + 1 \in 1..Len(cs) /\ Seen(cs, k + 1) = Seen(cs, k)
      /\ \A p : Ended(cs, k + 1, p) <=> Ended(cs, k, p) \/ c.at = p
  BY SeenNext
<1>2. n \in Nat /\ k \in Nat
  <2>1. d.cols \in Seq(Cols)
    BY DEF DInv, InRange
  <2> QED BY <2>1, LenProperties
<1>3. c.at \in DOMAIN d.map
  <2>1. PICK j \in Fields(cs) : j < k + 1 /\ cs[j].at = c.at
    BY <1>1, NestedAre
  <2>2. j \in Seen(cs, k)
    BY <2>1, <1>2 DEF Seen, Fields
  <2> QED BY <2>1, <2>2 DEF DInv
<1>4. CASE ~d.map[c.at].sub
  <2>1. Process(d, c) = d
    BY <1>4 DEF Process
  <2>2. \A p \in DOMAIN d.map \ LeavesOf(d.map) : Ended(cs, k + 1, p) <=> Ended(cs, k, p)
    BY <1>1, <1>3, <1>4 DEF LeavesOf
  <2> HIDE DEF c
  <2>3. DInv(cs, k + 1, d)
    BY <1>1, <2>2 DEF DInv
  <2> QED BY <2>1, <2>3 DEF c
<1>5. CASE d.map[c.at].sub
  <2>2. start \in Nat /\ 1 <= start /\ start <= n + 1
    <3>1. d.map[c.at] \in Routes /\ 1 <= start /\ start + d.map[c.at].count <= 1 + n
      BY <1>3 DEF DInv, InRange, Within
    <3>2. start \in Int /\ d.map[c.at].count \in Nat
      BY <3>1 DEF Routes
    <3>3. \A a \in Int, b, l \in Nat : a + b <= 1 + l => a <= l + 1
      OBVIOUS
    <3> HIDE DEF start, n
    <3> QED BY <3>1, <3>2, <3>3, <1>2
  <2>3. r \in Routes /\ r.start = start /\ r.count = (n + 1) - start /\ r.sub
    <3> HIDE DEF start, n
    <3>1. (n + 1) - start \in Nat
      BY <2>2, <1>2
    <3>2. start \in Int
      BY <2>2
    <3> QED BY <3>1, <3>2, RouteIs
  <2>4. InRange(d.cols, m, 1) /\ LeavesFit(d.cols, m, 1) /\ LeavesOf(m) = LeavesOf(d.map)
    <3>1. c.at \notin LeavesOf(d.map) /\ c.at \in Paths
      BY <1>3, <1>5 DEF LeavesOf, DInv, InRange
    <3>2. 1 <= r.start /\ r.start + r.count <= 1 + n
      <4> HIDE DEF start, n, r
      <4>1. start + ((n + 1) - start) <= 1 + n
        BY <1>2, <2>2
      <4> QED BY <4>1, <2>2, <2>3
    <3> HIDE DEF r, c
    <3> QED BY <3>1, <3>2, <2>3, EnterSub DEF DInv
  <2>5. /\ DOMAIN m = DOMAIN d.map /\ m[c.at] = r
        /\ \A q \in DOMAIN d.map : q # c.at => m[q] = d.map[q]
    BY <1>3 DEF Entered, Joined
  <2>50. Within(d.cols, m)
    <3>1. 1 <= r.start /\ r.start + r.count <= 1 + n
      <4> HIDE DEF start, n, r
      <4>1. start + ((n + 1) - start) <= 1 + n
        BY <1>2, <2>2
      <4> QED BY <4>1, <2>2, <2>3
    <3> HIDE DEF m, r
    <3> QED BY <3>1, <2>5 DEF Within, DInv
  <2>6. DOMAIN m = {cs[j].at : j \in Seen(cs, k + 1)}
    BY <1>1, <2>5 DEF DInv
  <2>7. \A j \in Seen(cs, k + 1) : m[cs[j].at].sub <=> Nests(cs[j].value)
    <3> TAKE j \in Seen(cs, k + 1)
    <3>1. cs[j].at \in DOMAIN d.map /\ (d.map[cs[j].at].sub <=> Nests(cs[j].value))
      BY <1>1 DEF DInv
    <3>2. CASE cs[j].at = c.at
      BY <3>1, <3>2, <2>3, <2>5, <1>5
    <3>3. CASE cs[j].at # c.at
      BY <3>1, <3>3, <2>5
    <3> QED BY <3>2, <3>3
  <2>8. \A p \in DOMAIN m \ LeavesOf(m), q \in LeavesOf(m) :
           IF Ended(cs, k + 1, p) THEN m[q].start \in Span(m[p]) <=> Above(p, q)
                                  ELSE m[p].start <= m[q].start <=> Above(p, q)
    <3> TAKE p \in DOMAIN m \ LeavesOf(m), q \in LeavesOf(m)
    <3>1. p \in DOMAIN d.map \ LeavesOf(d.map) /\ q \in LeavesOf(d.map) /\ q \in DOMAIN d.map /\ q # c.at
      BY <2>4, <2>5, <1>5 DEF LeavesOf
    <3>2. m[q] = d.map[q]
      BY <3>1, <2>5
    <3>3. CASE p # c.at
      <4>1. m[p] = d.map[p] /\ (Ended(cs, k + 1, p) <=> Ended(cs, k, p))
        BY <3>1, <3>3, <2>5, <1>1
      <4> HIDE DEF m
      <4> QED BY <3>1, <3>2, <4>1 DEF DInv
    <3>4. CASE p = c.at
      <4>1. Ended(cs, k + 1, p)
        BY <3>4, <1>1
      <4>2. d.map[q].start \in Nat /\ d.map[q].start <= n
        <5>1. /\ d.map[q].start \in Int /\ d.map[q].count = 1 /\ 1 <= d.map[q].start
              /\ d.map[q].start + d.map[q].count <= 1 + n
          BY <3>1 DEF DInv, InRange, Within, Routes, LeavesFit
        <5> QED BY <5>1, <1>2
      <4>3. m[q].start \in Span(m[p]) <=> start <= d.map[q].start
        <5>1. m[p].start = start /\ m[p].count = (n + 1) - start
          BY <3>4, <2>3, <2>5
        <5>2. start + ((n + 1) - start) - 1 = n
          BY <2>2, <1>2
        <5> HIDE DEF m, start
        <5> QED BY <5>1, <5>2, <4>2, <3>2, <2>2, <1>2 DEF Span
      <4>4. CASE ~Ended(cs, k, p)
        BY <3>1, <3>4, <4>1, <4>3, <4>4 DEF DInv
      <4>5. ~Ended(cs, k, p)
        <5> SUFFICES ASSUME NEW e \in 1..k, Ends(cs[e]), cs[e].at = c.at PROVE FALSE
          BY <3>4 DEF Ended
        <5>1. e \in 1..Len(cs) /\ e # k + 1
          BY <1>1, <1>2
        <5> QED BY <5>1, <1>1, NestedAre
      <4> QED BY <4>4, <4>5
    <3> QED BY <3>3, <3>4
  <2>1. Process(d, c) = [cols |-> d.cols, map |-> m]
    <3>1. Ends(c) /\ d.map[c.at].sub
      BY <1>5
    <3> HIDE DEF c
    <3>2. r = Route(d.map[c.at].start, (n + 1) - d.map[c.at].start, TRUE)
      OBVIOUS
    <3>3. n + 1 = Len(d.cols) + 1
      OBVIOUS
    <3> HIDE DEF n, r
    <3> QED BY <3>1, <3>2, <3>3, ProcessEnd
  <2> HIDE DEF m, c
  <2>9. Process(d, c).cols = d.cols /\ Process(d, c).map = m
    BY <2>1
  <2> QED BY <2>4, <2>50, <2>6, <2>7, <2>8, <2>9 DEF DInv, c
<1> QED BY <1>4, <1>5

\* A row's own schema: the keys on top are those of its fields.
LEMMA DiscoverShaped ==
  ASSUME NEW cs, Nested(cs)
  PROVE  /\ Shaped(Discover(cs))
         /\ DOMAIN Discover(cs).map = {cs[j].at : j \in Fields(cs)}
<1> DEFINE T == {k \in 0..Len(cs) : DInv(cs, k, Discovery(cs)[k])}
<1>1. Len(cs) \in Nat
  BY NestedAre
<1>2. /\ Discovery(cs)[0] = NoSchema
      /\ \A k \in 0..(Len(cs) - 1) : Discovery(cs)[k + 1] = Process(Discovery(cs)[k], cs[k + 1])
  BY <1>1, DiscoveryIs
<1>3. 0 \in T
  <2>1. Seen(cs, 0) = {}
    BY DEF Seen, Fields
  <2>2. DOMAIN NoSchema.map = {}
    BY EmptySeq, LenProperties DEF NoSchema, NoMap
  <2>3. DInv(cs, 0, NoSchema)
    BY <2>1, <2>2, NoSchemaShaped DEF DInv, Shaped, Sound, LeavesOf, Within
  <2> QED BY <2>3, <1>1, <1>2
<1>4. \A k \in 0..(Len(cs) - 1) : k \in T => k + 1 \in T
  <2> SUFFICES ASSUME NEW k \in 0..(Len(cs) - 1), k \in T PROVE k + 1 \in T
    OBVIOUS
  <2>1. DInv(cs, k + 1, Discovery(cs)[k + 1])
    BY <1>2, DiscoverySub, DiscoveryLeaf, DiscoveryEnd
  <2> QED BY <2>1, <1>1
<1>5. Len(cs) \in T
  <2> HIDE DEF T
  <2>1. \A k \in 0..Len(cs) : k \in T
    BY <1>1, <1>3, <1>4, Climb
  <2> QED BY <2>1, <1>1
<1> DEFINE d == Discover(cs)
<1>6. DInv(cs, Len(cs), d)
  BY <1>5 DEF Discover
<1> HIDE DEF d
<1>7. Seen(cs, Len(cs)) = Fields(cs)
  BY <1>1 DEF Seen, Fields
<1>8. Spans(d.map)
  <2> SUFFICES ASSUME NEW p \in DOMAIN d.map \ LeavesOf(d.map), NEW q \in LeavesOf(d.map)
               PROVE  d.map[q].start \in Span(d.map[p]) <=> Above(p, q)
    BY DEF Spans
  <2>1. PICK j \in Fields(cs) : p = cs[j].at /\ Nests(cs[j].value)
    BY <1>6, <1>7 DEF DInv, LeavesOf
  <2>2. Ended(cs, Len(cs), p)
    BY <2>1, NestedOrder
  <2> QED BY <2>2, <1>6 DEF DInv
<1>9. ParentsIn(d.map)
  <2> SUFFICES ASSUME NEW p \in DOMAIN d.map, Len(p) > 1
               PROVE  Front(p) \in DOMAIN d.map /\ d.map[Front(p)].sub
    BY DEF ParentsIn
  <2>1. PICK j \in Fields(cs) : p = cs[j].at
    BY <1>6, <1>7 DEF DInv
  <2>2. PICK i \in Fields(cs) : cs[i].at = Front(p) /\ Nests(cs[i].value)
    <3>1. j \in 1..Len(cs)
      BY DEF Fields
    <3> QED BY <2>1, <3>1, NestedAre
  <2> QED BY <2>2, <1>6, <1>7 DEF DInv
<1> QED BY <1>6, <1>7, <1>8, <1>9 DEF DInv, Shaped, Sound, d

-----------------------------------------------------------------------------
(* Candidates and accumulators.                                             *)

\* A sequence, whatever its elements.
Listed(f) == Len(f) \in Nat /\ f = [i \in 1..Len(f) |-> f[i]]

\* A sequence of one.
LEMMA OneIs ==
  ASSUME NEW x
  PROVE  Listed(<<x>>) /\ Len(<<x>>) = 1 /\ <<x>>[1] = x /\ <<x>> = [i \in 1..1 |-> x]
<1>1. <<x>> \in Seq({x}) /\ Len(<<x>>) = 1 /\ <<x>>[1] = x
  OBVIOUS
<1>2. <<x>> = [i \in 1..1 |-> <<x>>[i]]
  BY <1>1, LenProperties
<1>3. <<x>> = [i \in 1..1 |-> x]
  BY <1>1, <1>2
<1> QED BY <1>1, <1>2, <1>3 DEF Listed

\* A path of one key, and paths below it.
LEMMA PathOfOne ==
  ASSUME NEW p \in Paths
  PROVE  /\ p[1] \in Names
         /\ Len(p) = 1 <=> p = <<p[1]>>
         /\ Len(p) > 1 <=> Above(<<p[1]>>, p)
<1>1. p \in Seq(Names) /\ Len(p) \in Nat /\ Len(p) >= 1 /\ p[1] \in Names
  BY FrontIs, ElementOfSeq DEF Paths
<1> DEFINE q == <<p[1]>>
<1>2. q \in Seq(Names) /\ Len(q) = 1 /\ q[1] = p[1] /\ q # <<>>
  BY <1>1
<1> HIDE DEF q
<1>3. p = q <=> Len(p) = 1
  BY <1>1, <1>2, SeqEqual
<1>4. q \in Paths
  BY <1>2 DEF Paths
<1>5. Above(q, p) <=> Len(q) < Len(p) /\ \A i \in 1..Len(q) : q[i] = p[i]
  BY <1>4, AboveIs DEF Above
<1> QED BY <1>1, <1>2, <1>3, <1>5 DEF q

\* A key as a path.
LEMMA OnePath ==
  ASSUME NEW k \in Names
  PROVE  <<k>> \in Paths /\ Len(<<k>>) = 1 /\ <<k>>[1] = k
<1>1. <<k>> \in Seq(Names) /\ Len(<<k>>) = 1 /\ <<k>>[1] = k
  OBVIOUS
<1>2. <<k>> # <<>>
  OBVIOUS
<1> QED BY <1>1, <1>2 DEF Paths

\* A candidate of the key k: its columns, in the places of the row it comes from.
CandOK(k, c) ==
  /\ Sound(c.cols, c.map, c.start)
  /\ <<k>> \in DOMAIN c.map
  /\ \A p \in DOMAIN c.map : p[1] = k
\* The candidates of a key.
CandsOK(k, cs) == Listed(cs) /\ Len(cs) > 0 /\ \A i \in 1..Len(cs) : CandOK(k, cs[i])
\* An accumulator: each key once in the order, with candidates.
AccOK(acc) ==
  /\ acc.order \in Seq(Names)
  /\ DOMAIN acc.of = {acc.order[i] : i \in 1..Len(acc.order)}
  /\ \A i, j \in 1..Len(acc.order) : acc.order[i] = acc.order[j] => i = j
  /\ \A k \in DOMAIN acc.of : CandsOK(k, acc.of[k])

\* The columns of a key of a row, on their own.
LEMMA CandidateOK ==
  ASSUME NEW d, Shaped(d), NEW k \in Names, <<k>> \in DOMAIN d.map
  PROVE  CandOK(k, Candidate(d, k))
<1> DEFINE D == DOMAIN d.map
           r == d.map[<<k>>]
           at == r.start
           n == r.count
           M == {q \in D : q[1] = k}
           m == [p \in M |-> d.map[p]]
           cols == SubSeq(d.cols, at, (at + n) - 1)
           len == Len(d.cols)
<1>1. /\ InRange(d.cols, d.map, 1) /\ ParentsIn(d.map) /\ LeavesFit(d.cols, d.map, 1) /\ Spans(d.map)
      /\ d.cols \in Seq(Cols) /\ len \in Nat /\ D \subseteq Paths
  BY LenProperties DEF Shaped, Sound, InRange
<1>2. /\ Candidate(d, k).cols = cols /\ Candidate(d, k).map = m /\ Candidate(d, k).start = at
  <2>1. at + n - 1 = (at + n) - 1
    <3>1. at \in Int /\ n \in Nat
      BY <1>1 DEF InRange, Routes
    <3> QED BY <3>1
  <2> QED BY <2>1 DEF Candidate
<1>3. \A p \in D : /\ d.map[p].start \in Int /\ d.map[p].count \in Nat
                   /\ d.map[p].count > 0 => /\ 1 <= d.map[p].start
                                            /\ d.map[p].start + d.map[p].count <= 1 + len
  BY <1>1 DEF InRange, Routes
<1>4. <<k>> \in M
  BY OnePath
<1>5. \A p \in M : p # <<k>> => Above(<<k>>, p) /\ r.sub
  <2> SUFFICES ASSUME NEW p \in M, p # <<k>> PROVE Above(<<k>>, p) /\ r.sub
    OBVIOUS
  <2>1. p \in Paths /\ p[1] = k
    BY <1>1
  <2>2. Above(<<k>>, p) /\ Len(p) > 1
    BY <2>1, PathOfOne, FrontIs
  <2> DEFINE G == {q \in D : d.map[q].sub}
  <2>3. G \subseteq D /\ \A q \in D : Len(q) > 1 => Front(q) \in G
    BY <1>1 DEF ParentsIn
  <2>4. <<k>> \in G
    <3> HIDE DEF G
    <3>1. <<k>> \in Paths /\ p \in D
      BY OnePath
    <3> QED BY <2>2, <2>3, <3>1, <1>1, Ancestors
  <2> QED BY <2>2, <2>4
<1>6. \A p \in M : ~d.map[p].sub => d.map[p].start \in Span(r)
  <2> SUFFICES ASSUME NEW p \in M, ~d.map[p].sub PROVE d.map[p].start \in Span(r)
    OBVIOUS
  <2>1. CASE p = <<k>>
    <3>1. n = 1 /\ at \in Int
      BY <2>1, <1>1, <1>3 DEF LeavesFit, LeavesOf
    <3> QED BY <3>1, <2>1 DEF Span
  <2>2. CASE p # <<k>>
    BY <2>2, <1>1, <1>5 DEF Spans, LeavesOf
  <2> QED BY <2>1, <2>2
<1>7. \A i \in Span(r) : \E p \in M : ~d.map[p].sub /\ d.map[p].start = i
  <2> SUFFICES ASSUME NEW i \in Span(r) PROVE \E p \in M : ~d.map[p].sub /\ d.map[p].start = i
    OBVIOUS
  <2>1. at \in Int /\ n \in Nat /\ i \in Int /\ at <= i /\ i < at + n
    BY <1>3 DEF Span
  <2>2. n > 0 /\ i \in 1..len /\ 1 + i - 1 = i
    <3>1. n > 0
      <4> HIDE DEF at, n
      <4> QED BY <2>1
    <3>2. 1 <= at /\ at + n <= 1 + len
      BY <3>1, <1>3
    <3> HIDE DEF at, n, len
    <3> QED BY <2>1, <3>1, <3>2, <1>1
  <2>3. PICK p \in LeavesOf(d.map) : d.map[p].start = i
    BY <2>2, <1>1 DEF LeavesFit
  <2>4. p \in M
    <3>1. p \in D /\ p \in Paths /\ ~d.map[p].sub
      BY <1>1 DEF LeavesOf
    <3>2. CASE r.sub
      <4>1. Above(<<k>>, p)
        BY <2>3, <3>2, <1>1 DEF Spans, LeavesOf
      <4> QED BY <3>1, <4>1, OnePath, AboveOrder
    <3>3. CASE ~r.sub
      <4>1. n = 1 /\ <<k>> \in LeavesOf(d.map)
        BY <3>3, <1>1 DEF LeavesFit, LeavesOf
      <4>2. i = at
        <5> HIDE DEF at, n
        <5> QED BY <4>1, <2>1
      <4>3. p = <<k>>
        BY <4>1, <4>2, <2>3, <1>1 DEF LeavesFit
      <4> QED BY <4>3, <1>4
    <3> QED BY <3>2, <3>3
  <2> QED BY <2>3, <2>4 DEF LeavesOf
<1>8. \A p \in M : d.map[p].count > 0 => at <= d.map[p].start /\ d.map[p].start + d.map[p].count <= at + n
  <2> SUFFICES ASSUME NEW p \in M, d.map[p].count > 0
               PROVE  at <= d.map[p].start /\ d.map[p].start + d.map[p].count <= at + n
    OBVIOUS
  <2> DEFINE a == d.map[p].start
             b == d.map[p].count
  <2>1. a \in Int /\ b \in Nat /\ b > 0 /\ 1 <= a /\ a + b <= 1 + len /\ at \in Int /\ n \in Nat /\ p \in Paths
    BY <1>1, <1>3
  <2>2. a \in Span(r) /\ (a + b) - 1 \in Span(r)
    <3>1. CASE ~d.map[p].sub
      <4>1. b = 1
        BY <3>1, <1>1 DEF LeavesFit, LeavesOf
      <4>2. a \in Span(r)
        BY <3>1, <1>6
      <4>3. (a + b) - 1 = a
        <5> HIDE DEF a, b
        <5> QED BY <4>1, <2>1
      <4> QED BY <4>2, <4>3
    <3>2. CASE d.map[p].sub
      <4>1. \A i \in 1..len : i \in Span(d.map[p]) => i \in Span(r)
        <5> SUFFICES ASSUME NEW i \in 1..len, i \in Span(d.map[p]) PROVE i \in Span(r)
          OBVIOUS
        <5>1. 1 + i - 1 = i
          BY <1>1
        <5>2. PICK q \in LeavesOf(d.map) : d.map[q].start = i
          BY <5>1, <1>1 DEF LeavesFit
        <5>3. Above(p, q) /\ q \in D /\ q \in Paths /\ ~d.map[q].sub
          BY <5>2, <3>2, <1>1 DEF Spans, LeavesOf
        <5>4. q \in M
          BY <5>3, <2>1, AboveOrder
        <5> QED BY <5>2, <5>3, <5>4, <1>6
      <4>2. a \in Span(d.map[p]) /\ (a + b) - 1 \in Span(d.map[p])
        <5>1. \A x \in Int, y \in Nat : y > 0 => x \in x..(x + y - 1) /\ (x + y) - 1 \in x..(x + y - 1)
          OBVIOUS
        <5>2. a \in a..(a + b - 1) /\ (a + b) - 1 \in a..(a + b - 1)
          <6> HIDE DEF a, b
          <6> QED BY <5>1, <2>1
        <5> QED BY <5>2 DEF Span
      <4>3. a \in 1..len /\ (a + b) - 1 \in 1..len
        <5> HIDE DEF a, b, len
        <5> QED BY <2>1, <1>1
      <4> HIDE DEF a, b
      <4> QED BY <4>1, <4>2, <4>3
    <3> QED BY <3>1, <3>2
  <2>3. at <= a /\ (a + b) - 1 <= (at + n) - 1
    BY <2>1, <2>2 DEF Span
  <2>4. at <= a /\ a + b <= at + n
    <3> HIDE DEF a, b, at, n
    <3> QED BY <2>1, <2>3
  <2> QED BY <2>4
<1>9. /\ cols \in Seq(Cols) /\ Len(cols) = n
      /\ \A i \in 1..n : cols[i] = d.cols[(at + i) - 1]
  <2>1. at \in Int /\ n \in Nat
    BY <1>3
  <2>2. n > 0 => 1 <= at /\ at + n <= 1 + len
    BY <1>3
  <2> DEFINE hi == (at + n) - 1
  <2>3. hi \in Int
    BY <2>1
  <2>4. \A i \in at..hi : d.cols[i] \in Cols
    <3> SUFFICES ASSUME NEW i \in at..hi PROVE d.cols[i] \in Cols
      OBVIOUS
    <3>1. i \in 1..len
      <4> HIDE DEF at, n, len
      <4> QED BY <2>1, <2>2, <1>1
    <3> QED BY <3>1, <1>1, ElementOfSeq
  <2>5. /\ SubSeq(d.cols, at, hi) \in Seq(Cols)
        /\ Len(SubSeq(d.cols, at, hi)) = IF at <= hi THEN hi - at + 1 ELSE 0
        /\ \A i \in 1..(hi - at + 1) : SubSeq(d.cols, at, hi)[i] = d.cols[at + i - 1]
    <3> HIDE DEF at, hi
    <3> QED BY <2>1, <2>3, <2>4, SubSeqProperties
  <2>6. hi - at + 1 = n /\ (~(at <= hi) => n = 0)
    <3> HIDE DEF at, n
    <3> QED BY <2>1
  <2>7. \A i \in 1..n : at + i - 1 = (at + i) - 1
    <3> HIDE DEF at, n
    <3> QED BY <2>1
  <2> HIDE DEF at, n, hi
  <2> QED BY <2>5, <2>6, <2>7 DEF hi
<1>10. DOMAIN m = M /\ \A p \in M : m[p] = d.map[p]
  OBVIOUS
<1> HIDE DEF m, cols
<1>11. InRange(cols, m, at)
  <2>1. at \in Int /\ M \subseteq Paths /\ \A p \in M : d.map[p] \in Routes
    BY <1>1, <1>3 DEF InRange
  <2> HIDE DEF at, M
  <2> QED BY <2>1, <1>8, <1>9, <1>10 DEF InRange
<1>12. ParentsIn(m)
  <2> SUFFICES ASSUME NEW p \in M, Len(p) > 1 PROVE Front(p) \in M /\ m[Front(p)].sub
    BY <1>10 DEF ParentsIn
  <2>1. p \in D /\ p \in Paths /\ Front(p) \in D /\ d.map[Front(p)].sub
    BY <1>1 DEF ParentsIn
  <2>2. 1 \in 1..(Len(p) - 1)
    BY <2>1, FrontIs
  <2>3. Front(p)[1] = p[1]
    BY <2>1, <2>2, FrontIs
  <2> QED BY <2>1, <2>3, <1>10
<1>13. LeavesOf(m) = {p \in M : ~d.map[p].sub}
  BY <1>10 DEF LeavesOf
<1>14. LeavesFit(cols, m, at)
  <2>1. \A p \in LeavesOf(m) : m[p].count = 1 /\ cols[m[p].start - at + 1].name = FlattenSeq(p)
    <3> SUFFICES ASSUME NEW p \in LeavesOf(m)
                 PROVE  m[p].count = 1 /\ cols[m[p].start - at + 1].name = FlattenSeq(p)
      OBVIOUS
    <3>1. p \in M /\ p \in LeavesOf(d.map) /\ m[p] = d.map[p]
      BY <1>10, <1>13 DEF LeavesOf
    <3> DEFINE a == d.map[p].start
    <3>2. d.map[p].count = 1 /\ d.cols[a - 1 + 1].name = FlattenSeq(p) /\ a \in Int
      BY <3>1, <1>1, <1>3 DEF LeavesFit
    <3>3. a \in Span(r) /\ at \in Int /\ n \in Nat
      BY <3>1, <1>3, <1>6 DEF LeavesOf
    <3>4. at <= a /\ a <= (at + n) - 1
      BY <3>3 DEF Span
    <3> HIDE DEF a, at, n
    <3>5. a - at + 1 \in 1..n /\ (at + (a - at + 1)) - 1 = a - 1 + 1
      BY <3>2, <3>3, <3>4
    <3>6. cols[a - at + 1].name = FlattenSeq(p)
      BY <3>2, <3>5, <1>9
    <3> QED BY <3>1, <3>2, <3>6 DEF a
  <2>2. \A i \in 1..Len(cols) : \E p \in LeavesOf(m) : m[p].start = at + i - 1
    <3> SUFFICES ASSUME NEW i \in 1..n PROVE \E p \in LeavesOf(m) : m[p].start = at + i - 1
      BY <1>9
    <3>1. at \in Int /\ n \in Nat
      BY <1>3
    <3>2. at + i - 1 \in Span(r)
      <4> SUFFICES at + i - 1 \in at..(at + n - 1)
        BY DEF Span
      <4> HIDE DEF at, n
      <4> QED BY <3>1
    <3> QED BY <3>2, <1>7, <1>10, <1>13
  <2>3. \A p, q \in LeavesOf(m) : m[p].start = m[q].start => p = q
    BY <1>1, <1>10, <1>13 DEF LeavesFit, LeavesOf
  <2> QED BY <2>1, <2>2, <2>3 DEF LeavesFit
<1>15. Spans(m)
  BY <1>1, <1>10, <1>13 DEF Spans, LeavesOf
<1>16. Sound(cols, m, at) /\ <<k>> \in DOMAIN m /\ \A p \in DOMAIN m : p[1] = k
  BY <1>4, <1>10, <1>11, <1>12, <1>14, <1>15 DEF Sound
<1> QED BY <1>2, <1>16 DEF CandOK

\* Two sequences joined, whatever their elements.
LEMMA ListedConcat ==
  ASSUME NEW f, Listed(f), NEW g, Listed(g)
  PROVE  /\ Listed(f \o g) /\ Len(f \o g) = Len(f) + Len(g)
         /\ f \o g = [i \in 1..(Len(f) + Len(g)) |-> IF i <= Len(f) THEN f[i] ELSE g[i - Len(f)]]
<1> DEFINE n == Len(f)
           m == Len(g)
           h == f \o g
<1>1. n \in Nat /\ m \in Nat /\ f = [i \in 1..n |-> f[i]] /\ g = [i \in 1..m |-> g[i]]
  BY DEF Listed
<1>2. h = [i \in 1..n + m |-> IF i <= n THEN f[i] ELSE g[i - n]] /\ Len(h) = n + m
  <2> HIDE DEF n, m
  <2> QED BY <1>1, ConcatIs
<1>3. h = [i \in 1..Len(h) |-> h[i]]
  BY <1>2
<1>5. n + m \in Nat
  <2> HIDE DEF n, m
  <2> QED BY <1>1
<1> QED BY <1>2, <1>3, <1>5 DEF Listed

\* An element of two sequences joined is one of either.
LEMMA ConcatElement ==
  ASSUME NEW f, Listed(f), NEW g, Listed(g), NEW i \in 1..Len(f \o g)
  PROVE  \/ \E j \in 1..Len(f) : (f \o g)[i] = f[j]
         \/ \E j \in 1..Len(g) : (f \o g)[i] = g[j]
<1> DEFINE n == Len(f)
           m == Len(g)
           x == (f \o g)[i]
<1>1. n \in Nat /\ m \in Nat /\ i \in 1..(n + m)
  BY ListedConcat DEF Listed
<1>2. x = IF i <= n THEN f[i] ELSE g[i - n]
  BY <1>1, ListedConcat
<1>3. (i <= n => i \in 1..n) /\ (~(i <= n) => i - n \in 1..m)
  <2> HIDE DEF n, m
  <2> QED BY <1>1
<1> HIDE DEF x
<1>4. (\E j \in 1..n : x = f[j]) \/ (\E j \in 1..m : x = g[j])
  BY <1>2, <1>3
<1> QED BY <1>4 DEF x

\* Candidates of a key from two sources.
LEMMA CandsConcat ==
  ASSUME NEW k, NEW f, CandsOK(k, f), NEW g, CandsOK(k, g)
  PROVE  CandsOK(k, f \o g)
<1>1. Listed(f) /\ Listed(g) /\ Len(f) \in Nat /\ Len(g) \in Nat /\ Len(f) > 0 /\ Len(g) > 0
  BY DEF CandsOK, Listed
<1>2. Listed(f \o g) /\ Len(f \o g) = Len(f) + Len(g)
  BY <1>1, ListedConcat
<1>3. Len(f \o g) > 0
  BY <1>1, <1>2
<1>4. \A i \in 1..Len(f \o g) : CandOK(k, (f \o g)[i])
  <2> SUFFICES ASSUME NEW i \in 1..Len(f \o g) PROVE CandOK(k, (f \o g)[i])
    OBVIOUS
  <2> DEFINE x == (f \o g)[i]
  <2>1. (\E j \in 1..Len(f) : x = f[j]) \/ (\E j \in 1..Len(g) : x = g[j])
    BY <1>1, ConcatElement
  <2> HIDE DEF x
  <2>2. CandOK(k, x)
    BY <2>1 DEF CandsOK
  <2> QED BY <2>2 DEF x
<1> QED BY <1>2, <1>3, <1>4 DEF CandsOK

\* insert on a map adds or replaces one entry.
LEMMA EnteredIs ==
  ASSUME NEW p, NEW e, NEW m
  PROVE  /\ DOMAIN Entered(p, e, m) = DOMAIN m \cup {p} /\ Entered(p, e, m)[p] = e
         /\ \A q \in DOMAIN m : q # p => Entered(p, e, m)[q] = m[q]
  BY DEF Entered, Joined

\* Adding candidates keeps the accumulator right.
LEMMA AddOK ==
  ASSUME NEW acc, AccOK(acc), NEW k \in Names, NEW cs, CandsOK(k, cs)
  PROVE  /\ AccOK(Add(acc, k, cs))
         /\ DOMAIN Add(acc, k, cs).of = DOMAIN acc.of \cup {k}
<1> DEFINE new == Add(acc, k, cs)
<1>1. CASE k \in DOMAIN acc.of
  <2> DEFINE all == acc.of[k] \o cs
             m == Entered(k, all, acc.of)
  <2>1. new.order = acc.order /\ new.of = m
    BY <1>1 DEF Add
  <2>2. CandsOK(k, all)
    BY <1>1, CandsConcat DEF AccOK
  <2> HIDE DEF all
  <2>3. DOMAIN m = DOMAIN acc.of /\ m[k] = all /\ \A q \in DOMAIN acc.of : q # k => m[q] = acc.of[q]
    BY <1>1 DEF Entered, Joined
  <2> HIDE DEF m, new
  <2>4. AccOK(new)
    BY <2>1, <2>2, <2>3 DEF AccOK
  <2> QED BY <2>1, <2>3, <2>4, <1>1 DEF new
<1>2. CASE k \notin DOMAIN acc.of
  <2> DEFINE m == Entered(k, cs, acc.of)
             o == Append(acc.order, k)
             n == Len(acc.order)
  <2>1. new.order = o /\ new.of = m
    BY <1>2 DEF Add
  <2>2. DOMAIN m = DOMAIN acc.of \cup {k} /\ m[k] = cs /\ \A q \in DOMAIN acc.of : q # k => m[q] = acc.of[q]
    BY DEF Entered, Joined
  <2>3. /\ o \in Seq(Names) /\ Len(o) = n + 1 /\ n \in Nat
        /\ \A i \in 1..n : o[i] = acc.order[i]
        /\ o[n + 1] = k
    BY AppendProperties, LenProperties DEF AccOK
  <2>4. 1..(n + 1) = 1..n \cup {n + 1}
    <3> HIDE DEF n
    <3> QED BY <2>3
  <2> HIDE DEF o, m, new
  <2>5. DOMAIN m = {o[i] : i \in 1..Len(o)}
    <3>1. DOMAIN acc.of = {acc.order[i] : i \in 1..n}
      BY DEF AccOK
    <3> HIDE DEF n
    <3> QED BY <3>1, <2>2, <2>3, <2>4
  <2>6. \A i, j \in 1..Len(o) : o[i] = o[j] => i = j
    <3>1. \A i, j \in 1..n : acc.order[i] = acc.order[j] => i = j
      BY DEF AccOK
    <3>2. \A i \in 1..n : acc.order[i] # k
      BY <1>2 DEF AccOK
    <3> HIDE DEF n
    <3> QED BY <3>1, <3>2, <2>3, <2>4
  <2>7. \A q \in DOMAIN m : CandsOK(q, m[q])
    BY <2>2 DEF AccOK
  <2> QED BY <2>1, <2>2, <2>3, <2>5, <2>6, <2>7 DEF AccOK, new
<1> QED BY <1>1, <1>2

\* A new accumulator is right.
LEMMA NoCandidatesOK == AccOK(NoCandidates) /\ DOMAIN NoCandidates.of = {}
<1>1. NoCandidates.order = <<>> /\ NoCandidates.of = <<>>
  BY DEF NoCandidates, NoMap
<1>2. <<>> \in Seq(Names) /\ Len(<<>>) = 0 /\ DOMAIN <<>> = {}
  BY EmptySeq, LenProperties
<1> QED BY <1>1, <1>2 DEF AccOK

\* The keys on top of a row.
Keys(cs) == {cs[j].at[1] : j \in {i \in Fields(cs) : Len(cs[i].at) = 1}}

\* What feed adds for a key of a row is a candidate of this key.
LEMMA FeedCallIs ==
  ASSUME NEW cs, Nested(cs), NEW c, c \in {cs[j] : j \in 1..Len(cs)}, ~(Ends(c) \/ Len(c.at) > 1)
  PROVE  /\ c.at[1] \in Names
         /\ CandsOK(c.at[1], <<Candidate(Discover(cs), c.at[1])>>)
<1> DEFINE d == Discover(cs)
           k == c.at[1]
           x == Candidate(d, k)
<1>1. c.at \in Paths
  BY NestedAre
<1>2. k \in Names /\ c.at = <<k>>
  <2>1. Len(c.at) \in Nat /\ Len(c.at) >= 1 /\ ~(Len(c.at) > 1)
    BY <1>1, FrontIs
  <2>2. Len(c.at) = 1
    <3> DEFINE l == Len(c.at)
    <3>1. l \in Nat /\ l >= 1 /\ ~(l > 1)
      BY <2>1
    <3> HIDE DEF l
    <3>2. l = 1
      BY <3>1
    <3> QED BY <3>2 DEF l
  <2> QED BY <1>1, <2>2, PathOfOne
<1>3. <<k>> \in DOMAIN d.map
  <2>1. PICK j \in 1..Len(cs) : c = cs[j]
    OBVIOUS
  <2>2. j \in Fields(cs)
    BY <2>1 DEF Fields
  <2> QED BY <1>2, <2>1, <2>2, DiscoverShaped
<1>4. CandOK(k, x)
  <2>1. Shaped(d)
    BY DiscoverShaped
  <2> HIDE DEF d, k
  <2> QED BY <2>1, <1>2, <1>3, CandidateOK
<1>5. CandsOK(k, <<x>>)
  <2> HIDE DEF x, k
  <2> QED BY <1>4, OneIs DEF CandsOK
<1> QED BY <1>2, <1>5

\* feed keeps the accumulator right, and it knows the key from then on.
LEMMA FeedCallOK ==
  ASSUME NEW cs, Nested(cs), NEW acc, AccOK(acc), NEW c, c \in {cs[j] : j \in 1..Len(cs)}
  PROVE  /\ AccOK(FeedCall(acc, Discover(cs), c))
         /\ Ends(c) \/ Len(c.at) > 1 => FeedCall(acc, Discover(cs), c) = acc
         /\ ~(Ends(c) \/ Len(c.at) > 1) =>
              DOMAIN FeedCall(acc, Discover(cs), c).of = DOMAIN acc.of \cup {c.at[1]}
<1> DEFINE d == Discover(cs)
<1>1. CASE Ends(c) \/ Len(c.at) > 1
  BY <1>1 DEF FeedCall
<1>2. CASE ~(Ends(c) \/ Len(c.at) > 1)
  <2> DEFINE k == c.at[1]
             x == Candidate(d, k)
  <2>1. k \in Names /\ CandsOK(k, <<x>>)
    BY <1>2, FeedCallIs
  <2>2. FeedCall(acc, d, c) = Add(acc, k, <<x>>)
    BY <1>2 DEF FeedCall
  <2> HIDE DEF x, k, d
  <2>3. AccOK(Add(acc, k, <<x>>)) /\ DOMAIN Add(acc, k, <<x>>).of = DOMAIN acc.of \cup {k}
    BY <2>1, AddOK
  <2> QED BY <2>2, <2>3, <1>2 DEF k, d
<1> QED BY <1>1, <1>2

\* After all calls of a row the accumulator knows its keys.
LEMMA FeedingOK ==
  ASSUME NEW cs, Nested(cs), NEW acc, AccOK(acc)
  PROVE  /\ AccOK(Feeding(acc, cs)[Len(cs)])
         /\ DOMAIN Feeding(acc, cs)[Len(cs)].of = DOMAIN acc.of \cup Keys(cs)
<1> DEFINE n == Len(cs)
           F(k) == Feeding(acc, cs)[k]
           K(k) == {cs[j].at[1] : j \in {i \in 1..k : ~Ends(cs[i]) /\ Len(cs[i].at) = 1}}
           T == {k \in 0..n : AccOK(F(k)) /\ DOMAIN F(k).of = DOMAIN acc.of \cup K(k)}
<1>1. n \in Nat
  BY NestedAre
<1>2. F(0) = acc /\ \A k \in 0..(n - 1) : F(k + 1) = FeedCall(F(k), Discover(cs), cs[k + 1])
  BY <1>1, FeedingIs
<1>3. 0 \in T
  <2>1. K(0) = {}
    OBVIOUS
  <2> HIDE DEF F, K
  <2> QED BY <1>1, <1>2, <2>1
<1>4. \A k \in 0..(n - 1) : k \in T => k + 1 \in T
  <2> SUFFICES ASSUME NEW k \in 0..(n - 1), k \in T PROVE k + 1 \in T
    OBVIOUS
  <2> DEFINE c == cs[k + 1]
             N == DOMAIN F(k + 1).of
  <2>1. k + 1 \in 1..n /\ k + 1 \in 0..n /\ 1..(k + 1) = 1..k \cup {k + 1}
    BY <1>1
  <2>2. c \in {cs[j] : j \in 1..n}
    BY <2>1
  <2>3. AccOK(F(k)) /\ DOMAIN F(k).of = DOMAIN acc.of \cup K(k)
    OBVIOUS
  <2>4. F(k + 1) = FeedCall(F(k), Discover(cs), c)
    BY <1>2
  <2> DEFINE A == F(k)
             B == F(k + 1)
  <2> HIDE DEF F
  <2>5. /\ AccOK(B)
        /\ DOMAIN B.of = IF Ends(c) \/ Len(c.at) > 1 THEN DOMAIN A.of ELSE DOMAIN A.of \cup {c.at[1]}
    <3>1. AccOK(A)
      BY <2>3
    <3>2. B = FeedCall(A, Discover(cs), c)
      BY <2>4
    <3> HIDE DEF A, B, c
    <3>3. AccOK(FeedCall(A, Discover(cs), c))
      BY <3>1, <2>2, FeedCallOK
    <3>4. CASE Ends(c) \/ Len(c.at) > 1
      BY <3>1, <3>2, <3>3, <3>4, <2>2, FeedCallOK
    <3>5. CASE ~(Ends(c) \/ Len(c.at) > 1)
      BY <3>1, <3>2, <3>3, <3>5, <2>2, FeedCallOK
    <3> QED BY <3>4, <3>5
  <2>6. Len(c.at) = 1 <=> ~(Len(c.at) > 1)
    <3>1. c.at \in Paths
      BY <2>1, NestedAre
    <3>2. Len(c.at) \in Nat /\ Len(c.at) >= 1
      BY <3>1, FrontIs
    <3> DEFINE l == Len(c.at)
    <3>3. l \in Nat /\ l >= 1
      BY <3>2
    <3> HIDE DEF l
    <3>4. l = 1 <=> ~(l > 1)
      BY <3>3
    <3> QED BY <3>4 DEF l
  <2>7. K(k + 1) = IF Ends(c) \/ Len(c.at) > 1 THEN K(k) ELSE K(k) \cup {c.at[1]}
    <3>1. CASE Ends(c) \/ Len(c.at) > 1
      <4>1. ~(~Ends(c) /\ Len(c.at) = 1)
        BY <3>1, <2>6
      <4> QED BY <3>1, <4>1, <2>1
    <3>2. CASE ~(Ends(c) \/ Len(c.at) > 1)
      <4>1. ~Ends(c) /\ Len(c.at) = 1
        BY <3>2, <2>6
      <4> QED BY <3>2, <4>1, <2>1
    <3> QED BY <3>1, <3>2
  <2>8. DOMAIN F(k + 1).of = DOMAIN acc.of \cup K(k + 1)
    <3> HIDE DEF K, c
    <3> QED BY <2>3, <2>5, <2>7
  <2> HIDE DEF K
  <2> QED BY <2>1, <2>5, <2>8
<1>5. n \in T
  <2> HIDE DEF T
  <2>1. \A k \in 0..n : k \in T
    BY <1>1, <1>3, <1>4, Climb
  <2> QED BY <1>1, <2>1
<1>6. K(n) = Keys(cs)
  BY DEF Keys, Fields
<1> QED BY <1>5, <1>6

\* What the serializers may assume of a row, and of rows.
RowFine(row) == row.kind = "struct" => Nested(Calls(row))
\* Rows whose serializers are derived.
RowsFine(rows) == Len(rows) \in Nat /\ \A j \in 1..Len(rows) : RowFine(rows[j])
\* The keys on top of a row that is a struct.
KeysOf(row) == IF row.kind = "struct" THEN Keys(Calls(row)) ELSE {}

\* Feeding a row keeps the accumulator right and adds the keys of the row.
LEMMA FeedOK ==
  ASSUME NEW row, RowFine(row), NEW acc, AccOK(acc)
  PROVE  AccOK(Feed(acc, row)) /\ DOMAIN Feed(acc, row).of = DOMAIN acc.of \cup KeysOf(row)
  BY FeedingOK DEF Feed, RowFine, KeysOf

\* Feeding all rows does, and no key of any row is missing.
LEMMA FedOK ==
  ASSUME NEW rows, RowsFine(rows)
  PROVE  /\ AccOK(Fed(rows))
         /\ \A j \in 1..Len(rows) : KeysOf(rows[j]) \subseteq DOMAIN Fed(rows).of
<1> DEFINE n == Len(rows)
           F(j) == FeedingAll(rows)[j]
           T == {j \in 0..n : AccOK(F(j)) /\ \A i \in 1..j : KeysOf(rows[i]) \subseteq DOMAIN F(j).of}
<1>1. n \in Nat
  BY DEF RowsFine
<1>2. F(0) = NoCandidates /\ \A j \in 0..(n - 1) : F(j + 1) = Feed(F(j), rows[j + 1])
  BY <1>1, FeedingAllIs
<1> HIDE DEF F
<1>3. 0 \in T
  BY <1>1, <1>2, NoCandidatesOK
<1>4. \A j \in 0..(n - 1) : j \in T => j + 1 \in T
  <2> SUFFICES ASSUME NEW j \in 0..(n - 1), j \in T PROVE j + 1 \in T
    OBVIOUS
  <2>1. j + 1 \in 1..n /\ j + 1 \in 0..n /\ 1..(j + 1) = 1..j \cup {j + 1}
    BY <1>1
  <2>2. AccOK(F(j)) /\ \A i \in 1..j : KeysOf(rows[i]) \subseteq DOMAIN F(j).of
    OBVIOUS
  <2>3. RowFine(rows[j + 1])
    BY <2>1 DEF RowsFine
  <2> DEFINE A == F(j)
             B == F(j + 1)
  <2>4. AccOK(A) /\ B = Feed(A, rows[j + 1])
    BY <1>2, <2>2
  <2> HIDE DEF A, B
  <2>5. AccOK(B) /\ DOMAIN B.of = DOMAIN A.of \cup KeysOf(rows[j + 1])
    BY <2>3, <2>4, FeedOK
  <2> QED BY <2>1, <2>2, <2>5 DEF A, B
<1>5. n \in T
  <2> HIDE DEF T
  <2>1. \A j \in 0..n : j \in T
    BY <1>1, <1>3, <1>4, Climb
  <2> QED BY <1>1, <2>1
<1> QED BY <1>5 DEF Fed, F

-----------------------------------------------------------------------------
(* Uniting candidates.                                                      *)

\* resolve_candidates takes one of the candidates as it is.
LEMMA ResolveIs ==
  ASSUME NEW cs, Listed(cs), Len(cs) > 0
  PROVE  \E i \in 1..Len(cs) : Resolve(cs) = cs[i]
<1> DEFINE First(S) == cs[CHOOSE i \in S : \A j \in S : i <= j]
           shapes == {i \in DOMAIN cs : cs[i].sub}
           typed  == {i \in DOMAIN cs : cs[i].cols[1].type # "Generic"}
<1>1. DOMAIN cs = 1..Len(cs) /\ Len(cs) \in Nat
  <2> DEFINE n == Len(cs)
  <2>1. cs = [i \in 1..n |-> cs[i]] /\ n \in Nat
    BY DEF Listed
  <2> HIDE DEF n
  <2>2. DOMAIN cs = 1..n
    BY <2>1
  <2> QED BY <2>1, <2>2 DEF n
<1>2. ASSUME NEW S, S \subseteq 1..Len(cs), S # {}
      PROVE  \E i \in 1..Len(cs) : First(S) = cs[i]
  <2>1. S \subseteq Nat
    BY <1>1, <1>2
  <2>2. \E x \in S : \A y \in S : x <= y
    BY <2>1, <1>2, Least
  <2> DEFINE x == CHOOSE i \in S : \A j \in S : i <= j
  <2>3. x \in S
    BY <2>2
  <2>4. First(S) = cs[x]
    OBVIOUS
  <2> HIDE DEF x, First
  <2> QED BY <2>3, <2>4, <1>2
<1>3. Resolve(cs) = IF shapes # {} THEN First(shapes) ELSE IF typed # {} THEN First(typed) ELSE cs[1]
  BY DEF Resolve
<1>4. shapes \subseteq 1..Len(cs) /\ typed \subseteq 1..Len(cs) /\ 1 \in 1..Len(cs)
  BY <1>1
<1> HIDE DEF shapes, typed, First
<1>5. CASE shapes # {}
  BY <1>2, <1>3, <1>4, <1>5
<1>6. CASE shapes = {} /\ typed # {}
  BY <1>2, <1>3, <1>4, <1>6
<1>7. CASE shapes = {} /\ typed = {}
  BY <1>3, <1>4, <1>7
<1> QED BY <1>5, <1>6, <1>7

\* The key on top of any path in the map is in the map.
LEMMA TopIn ==
  ASSUME NEW map, DOMAIN map \subseteq Paths, ParentsIn(map), NEW p \in DOMAIN map
  PROVE  <<p[1]>> \in DOMAIN map
<1>1. p \in Paths
  OBVIOUS
<1>2. CASE Len(p) = 1
  BY <1>1, <1>2, PathOfOne
<1>3. CASE Len(p) > 1
  <2> DEFINE D == DOMAIN map
             q == <<p[1]>>
  <2>1. Above(q, p) /\ q \in Paths
    BY <1>1, <1>3, PathOfOne, OnePath
  <2>2. \A u \in D : Len(u) > 1 => Front(u) \in D
    BY DEF ParentsIn
  <2> HIDE DEF D, q
  <2>3. q \in D
    <3>1. p \in D /\ D \subseteq Paths /\ D \subseteq D
      BY DEF D
    <3> QED BY <2>1, <2>2, <3>1, Ancestors
  <2> QED BY <2>3 DEF D, q
<1>4. Len(p) = 1 \/ Len(p) > 1
  <2> DEFINE l == Len(p)
  <2>1. l \in Nat /\ l >= 1
    BY <1>1, FrontIs
  <2> HIDE DEF l
  <2>2. l = 1 \/ l > 1
    BY <2>1
  <2> QED BY <2>2 DEF l
<1> QED BY <1>2, <1>3, <1>4

\* remap_field_map moves columns and routes alike, those of structs in structs included.
LEMMA RemapSound ==
  ASSUME NEW cols, NEW map, NEW old, Sound(cols, map, old), NEW new \in Int
  PROVE  Sound(cols, Remap(map, old, new), new) /\ DOMAIN Remap(map, old, new) = DOMAIN map
<1> DEFINE m == Remap(map, old, new)
           n == Len(cols)
<1>1. InRange(cols, map, old) /\ ParentsIn(map) /\ LeavesFit(cols, map, old) /\ Spans(map)
  BY DEF Sound
<1>2. cols \in Seq(Cols) /\ n \in Nat /\ old \in Int /\ DOMAIN map \subseteq Paths
  BY <1>1, LenProperties DEF InRange
<1>3. ASSUME NEW p \in DOMAIN map
      PROVE  /\ map[p].start \in Int /\ map[p].count \in Nat
             /\ m[p] \in Routes /\ m[p].start = (map[p].start - old) + new
             /\ m[p].count = map[p].count /\ (m[p].sub <=> map[p].sub)
  <2> DEFINE r == map[p]
             start == (r.start - old) + new
  <2>1. r \in Routes
    BY <1>1 DEF InRange
  <2>2. r.start \in Int /\ r.count \in Nat /\ r.sub \in BOOLEAN
    BY <2>1 DEF Routes
  <2>3. start \in Int
    <3> HIDE DEF r
    <3> QED BY <2>2, <1>2
  <2>4. m[p] = Route(start, r.count, r.sub)
    BY DEF Remap
  <2> HIDE DEF m, r, start
  <2> QED BY <2>2, <2>3, <2>4 DEF Route, Routes, r, start
<1>4. DOMAIN m = DOMAIN map
  BY DEF Remap
<1> HIDE DEF m
<1>5. LeavesOf(m) = LeavesOf(map)
  BY <1>3, <1>4 DEF LeavesOf
<1>6. ASSUME NEW p \in DOMAIN m, m[p].count > 0
      PROVE  new <= m[p].start /\ m[p].start + m[p].count <= new + n
  <2> DEFINE a == map[p].start
             b == map[p].count
  <2>1. p \in DOMAIN map
    BY <1>4
  <2>2. a \in Int /\ b \in Nat /\ m[p].start = (a - old) + new /\ m[p].count = b
    BY <2>1, <1>3
  <2>3. b > 0
    BY <1>6, <2>2
  <2>4. old <= a /\ a + b <= old + n
    BY <2>1, <2>3, <1>1 DEF InRange
  <2> HIDE DEF a, b, n
  <2>5. new <= (a - old) + new /\ ((a - old) + new) + b <= new + n
    BY <2>2, <2>4, <1>2
  <2> QED BY <2>2, <2>5
<1>7. InRange(cols, m, new)
  <2>1. \A p \in DOMAIN m : m[p] \in Routes
    BY <1>3, <1>4
  <2> QED BY <2>1, <1>2, <1>4, <1>6 DEF InRange
<1>8. ParentsIn(m)
  <2> SUFFICES ASSUME NEW p \in DOMAIN m, Len(p) > 1 PROVE Front(p) \in DOMAIN m /\ m[Front(p)].sub
    BY DEF ParentsIn
  <2>1. Front(p) \in DOMAIN map /\ map[Front(p)].sub
    BY <1>1, <1>4 DEF ParentsIn
  <2> QED BY <2>1, <1>3, <1>4
<1>9. LeavesFit(cols, m, new)
  <2>1. ASSUME NEW p \in LeavesOf(m)
        PROVE  m[p].count = 1 /\ cols[m[p].start - new + 1].name = FlattenSeq(p)
    <3> DEFINE a == map[p].start
    <3>1. p \in DOMAIN map /\ p \in LeavesOf(map)
      BY <1>5 DEF LeavesOf
    <3>2. map[p].count = 1 /\ cols[a - old + 1].name = FlattenSeq(p)
      BY <3>1, <1>1 DEF LeavesFit
    <3>3. a \in Int /\ m[p].start = (a - old) + new /\ m[p].count = map[p].count
      BY <3>1, <1>3
    <3> HIDE DEF a
    <3>4. ((a - old) + new) - new + 1 = a - old + 1
      BY <3>3, <1>2
    <3> QED BY <3>2, <3>3, <3>4
  <2>2. ASSUME NEW i \in 1..Len(cols) PROVE \E p \in LeavesOf(m) : m[p].start = new + i - 1
    <3>1. PICK p \in LeavesOf(map) : map[p].start = old + i - 1
      BY <1>1 DEF LeavesFit
    <3>2. p \in DOMAIN map
      BY DEF LeavesOf
    <3>3. m[p].start = (map[p].start - old) + new
      BY <3>2, <1>3
    <3>4. ((old + i - 1) - old) + new = new + i - 1
      BY <1>2
    <3> QED BY <3>1, <3>3, <3>4, <1>5
  <2>3. ASSUME NEW p \in LeavesOf(m), NEW q \in LeavesOf(m), m[p].start = m[q].start PROVE p = q
    <3> DEFINE a == map[p].start
               b == map[q].start
    <3>1. p \in LeavesOf(map) /\ q \in LeavesOf(map) /\ p \in DOMAIN map /\ q \in DOMAIN map
      BY <1>5 DEF LeavesOf
    <3>2. a \in Int /\ b \in Int /\ (a - old) + new = (b - old) + new
      BY <3>1, <2>3, <1>3
    <3>3. a = b
      <4> HIDE DEF a, b
      <4> QED BY <3>2, <1>2
    <3> QED BY <3>1, <3>3, <1>1 DEF LeavesFit
  <2> QED BY <2>1, <2>2, <2>3 DEF LeavesFit
<1>10. Spans(m)
  <2> SUFFICES ASSUME NEW p \in DOMAIN m \ LeavesOf(m), NEW q \in LeavesOf(m)
               PROVE  m[q].start \in Span(m[p]) <=> Above(p, q)
    BY DEF Spans
  <2> DEFINE a == map[p].start
             b == map[p].count
             x == map[q].start
  <2>1. p \in DOMAIN map \ LeavesOf(map) /\ q \in LeavesOf(map) /\ q \in DOMAIN map
    BY <1>4, <1>5 DEF LeavesOf
  <2>2. x \in a..(a + b - 1) <=> Above(p, q)
    BY <2>1, <1>1 DEF Spans, Span
  <2>3. /\ a \in Int /\ b \in Nat /\ x \in Int /\ m[p].start = (a - old) + new /\ m[p].count = b
        /\ m[q].start = (x - old) + new
    BY <2>1, <1>3
  <2> HIDE DEF a, b, x
  <2>4. x \in a..(a + b - 1) <=> (x - old) + new \in ((a - old) + new)..(((a - old) + new) + b - 1)
    BY <2>3, <1>2
  <2> QED BY <2>2, <2>3, <2>4 DEF Span
<1> QED BY <1>4, <1>7, <1>8, <1>9, <1>10 DEF Sound, m

\* Two schemas of different keys one after the other, each right in its place.
LEMMA JoinSound ==
  ASSUME NEW c1, NEW m1, Sound(c1, m1, 1),
         NEW c2, NEW m2, NEW at, at = Len(c1) + 1, Sound(c2, m2, at),
         \A p \in DOMAIN m1, q \in DOMAIN m2 : p[1] # q[1]
  PROVE  Sound(c1 \o c2, Joined(m2, m1), 1) /\ DOMAIN Joined(m2, m1) = DOMAIN m2 \cup DOMAIN m1
<1> DEFINE m == Joined(m2, m1)
           c == c1 \o c2
           k == Len(c1)
           l == Len(c2)
<1>1. /\ InRange(c1, m1, 1) /\ ParentsIn(m1) /\ LeavesFit(c1, m1, 1) /\ Spans(m1)
      /\ InRange(c2, m2, at) /\ ParentsIn(m2) /\ LeavesFit(c2, m2, at) /\ Spans(m2)
  BY DEF Sound
<1>2. /\ c1 \in Seq(Cols) /\ c2 \in Seq(Cols) /\ k \in Nat /\ l \in Nat /\ at = k + 1
      /\ DOMAIN m1 \subseteq Paths /\ DOMAIN m2 \subseteq Paths
  BY <1>1, LenProperties DEF InRange
<1>3. /\ c \in Seq(Cols) /\ Len(c) = k + l
      /\ \A i \in 1..(k + l) : c[i] = IF i <= k THEN c1[i] ELSE c2[i - k]
  BY <1>2, ConcatProperties
<1>4. /\ DOMAIN m = DOMAIN m2 \cup DOMAIN m1
      /\ \A p \in DOMAIN m2 : m[p] = m2[p] /\ p \notin DOMAIN m1
      /\ \A p \in DOMAIN m1 : m[p] = m1[p] /\ p \notin DOMAIN m2
  BY DEF Joined
<1> HIDE DEF m, c
<1>5. /\ LeavesOf(m) = LeavesOf(m1) \cup LeavesOf(m2)
      /\ LeavesOf(m1) \subseteq DOMAIN m1 /\ LeavesOf(m2) \subseteq DOMAIN m2
  BY <1>4 DEF LeavesOf
<1>6. \A p \in DOMAIN m1 : /\ m1[p].start \in Int /\ m1[p].count \in Nat
                           /\ m1[p].count > 0 => 1 <= m1[p].start /\ m1[p].start + m1[p].count <= 1 + k
  BY <1>1 DEF InRange, Routes
<1>7. \A p \in DOMAIN m2 : /\ m2[p].start \in Int /\ m2[p].count \in Nat
                           /\ m2[p].count > 0 => at <= m2[p].start /\ m2[p].start + m2[p].count <= at + l
  BY <1>1 DEF InRange, Routes
<1>8. ASSUME NEW p \in LeavesOf(m1) PROVE m1[p].start \in 1..k /\ m1[p].count = 1
  <2>1. m1[p].count = 1
    BY <1>1 DEF LeavesFit
  <2>2. m1[p].start \in Int /\ 1 <= m1[p].start /\ m1[p].start + 1 <= 1 + k
    <3>1. p \in DOMAIN m1 /\ m1[p].count > 0
      BY <2>1, <1>5
    <3> QED BY <2>1, <3>1, <1>6
  <2> HIDE DEF k
  <2> QED BY <2>1, <2>2, <1>2
<1>9. ASSUME NEW p \in LeavesOf(m2) PROVE m2[p].start \in at..(k + l) /\ m2[p].count = 1
  <2>1. m2[p].count = 1
    BY <1>1 DEF LeavesFit
  <2>2. m2[p].start \in Int /\ at <= m2[p].start /\ m2[p].start + 1 <= at + l
    <3>1. p \in DOMAIN m2 /\ m2[p].count > 0
      BY <2>1, <1>5
    <3> QED BY <2>1, <3>1, <1>7
  <2> HIDE DEF k, l
  <2> QED BY <2>1, <2>2, <1>2
<1>10. InRange(c, m, 1)
  <2>1. \A p \in DOMAIN m : m[p] \in Routes
    BY <1>1, <1>4 DEF InRange
  <2>2. ASSUME NEW p \in DOMAIN m, m[p].count > 0
        PROVE  1 <= m[p].start /\ m[p].start + m[p].count <= 1 + Len(c)
    <3>1. CASE p \in DOMAIN m1
      <4> DEFINE a == m1[p].start
                 b == m1[p].count
      <4>1. m[p].start = a /\ m[p].count = b /\ b > 0
        BY <2>2, <3>1, <1>4
      <4>2. a \in Int /\ b \in Nat /\ 1 <= a /\ a + b <= 1 + k
        BY <3>1, <4>1, <1>6
      <4> HIDE DEF a, b, k, l
      <4>3. a + b <= 1 + (k + l)
        BY <4>2, <1>2
      <4> QED BY <4>1, <4>2, <4>3, <1>3
    <3>2. CASE p \in DOMAIN m2
      <4> DEFINE a == m2[p].start
                 b == m2[p].count
      <4>1. m[p].start = a /\ m[p].count = b /\ b > 0
        BY <2>2, <3>2, <1>4
      <4>2. a \in Int /\ b \in Nat /\ at <= a /\ a + b <= at + l
        BY <3>2, <4>1, <1>7
      <4> HIDE DEF a, b, k, l
      <4>3. 1 <= a /\ a + b <= 1 + (k + l)
        BY <4>2, <1>2
      <4> QED BY <4>1, <4>3, <1>3
    <3> QED BY <3>1, <3>2, <1>4
  <2>3. DOMAIN m \subseteq Paths /\ 1 \in Int
    BY <1>2, <1>4
  <2> QED BY <2>1, <2>2, <2>3, <1>3 DEF InRange
<1>11. ParentsIn(m)
  <2> SUFFICES ASSUME NEW p \in DOMAIN m, Len(p) > 1 PROVE Front(p) \in DOMAIN m /\ m[Front(p)].sub
    BY DEF ParentsIn
  <2>1. CASE p \in DOMAIN m1
    BY <2>1, <1>1, <1>4 DEF ParentsIn
  <2>2. CASE p \in DOMAIN m2
    BY <2>2, <1>1, <1>4 DEF ParentsIn
  <2> QED BY <2>1, <2>2, <1>4
<1>12. LeavesFit(c, m, 1)
  <2>1. ASSUME NEW p \in LeavesOf(m)
        PROVE  m[p].count = 1 /\ c[m[p].start - 1 + 1].name = FlattenSeq(p)
    <3>1. CASE p \in LeavesOf(m1)
      <4> DEFINE a == m1[p].start
      <4>1. a \in 1..k /\ m1[p].count = 1 /\ m[p] = m1[p]
        BY <3>1, <1>4, <1>5, <1>8
      <4>2. c1[a - 1 + 1].name = FlattenSeq(p)
        BY <3>1, <1>1 DEF LeavesFit
      <4>3. m[p].start = a /\ m[p].count = 1
        BY <4>1
      <4> HIDE DEF a, k, l
      <4>4. a - 1 + 1 = a /\ a \in 1..(k + l) /\ a <= k
        BY <4>1, <1>2
      <4>5. c[a] = c1[a]
        BY <4>4, <1>3
      <4> QED BY <4>2, <4>3, <4>4, <4>5
    <3>2. CASE p \in LeavesOf(m2)
      <4> DEFINE a == m2[p].start
      <4>1. a \in at..(k + l) /\ m2[p].count = 1 /\ m[p] = m2[p]
        BY <3>2, <1>4, <1>5, <1>9
      <4>2. c2[a - at + 1].name = FlattenSeq(p)
        BY <3>2, <1>1 DEF LeavesFit
      <4>3. m[p].start = a /\ m[p].count = 1
        BY <4>1
      <4> HIDE DEF a, k, l
      <4>4. a - 1 + 1 = a /\ a \in 1..(k + l) /\ ~(a <= k) /\ a - at + 1 = a - k
        BY <4>1, <1>2
      <4>5. c[a] = c2[a - k]
        BY <4>4, <1>3
      <4> QED BY <4>2, <4>3, <4>4, <4>5
    <3> QED BY <3>1, <3>2, <1>5
  <2>2. ASSUME NEW i \in 1..Len(c) PROVE \E p \in LeavesOf(m) : m[p].start = 1 + i - 1
    <3>1. CASE i <= k
      <4>1. i \in 1..k
        <5> HIDE DEF k
        <5> QED BY <3>1, <1>2
      <4>2. PICK p \in LeavesOf(m1) : m1[p].start = 1 + i - 1
        BY <4>1, <1>1 DEF LeavesFit
      <4> QED BY <4>2, <1>4, <1>5
    <3>2. CASE ~(i <= k)
      <4>1. i - k \in 1..l /\ at + (i - k) - 1 = 1 + i - 1
        <5>1. i \in 1..(k + l) /\ k \in Nat /\ l \in Nat /\ ~(i <= k) /\ at = k + 1
          BY <3>2, <1>2, <1>3
        <5> HIDE DEF k, l
        <5> QED BY <5>1
      <4>2. PICK p \in LeavesOf(m2) : m2[p].start = at + (i - k) - 1
        BY <4>1, <1>1 DEF LeavesFit
      <4>3. m[p] = m2[p] /\ p \in LeavesOf(m)
        BY <1>4, <1>5
      <4> QED BY <4>1, <4>2, <4>3
    <3> QED BY <3>1, <3>2
  <2>3. ASSUME NEW p \in LeavesOf(m), NEW q \in LeavesOf(m), m[p].start = m[q].start PROVE p = q
    <3>0. \A x \in 1..k, y \in at..(k + l) : x # y
      <4> HIDE DEF k, l
      <4> QED BY <1>2
    <3>1. CASE p \in LeavesOf(m1) /\ q \in LeavesOf(m1)
      BY <3>1, <2>3, <1>1, <1>4, <1>5 DEF LeavesFit
    <3>2. CASE p \in LeavesOf(m2) /\ q \in LeavesOf(m2)
      BY <3>2, <2>3, <1>1, <1>4, <1>5 DEF LeavesFit
    <3>3. CASE p \in LeavesOf(m1) /\ q \in LeavesOf(m2)
      <4>1. m[p].start \in 1..k /\ m[q].start \in at..(k + l)
        BY <3>3, <1>4, <1>5, <1>8, <1>9
      <4> QED BY <4>1, <3>0, <2>3
    <3>4. CASE p \in LeavesOf(m2) /\ q \in LeavesOf(m1)
      <4>1. m[q].start \in 1..k /\ m[p].start \in at..(k + l)
        BY <3>4, <1>4, <1>5, <1>8, <1>9
      <4> QED BY <4>1, <3>0, <2>3
    <3> QED BY <3>1, <3>2, <3>3, <3>4, <1>5
  <2> QED BY <2>1, <2>2, <2>3 DEF LeavesFit
<1>13. Spans(m)
  <2> SUFFICES ASSUME NEW p \in DOMAIN m \ LeavesOf(m), NEW q \in LeavesOf(m)
               PROVE  m[q].start \in Span(m[p]) <=> Above(p, q)
    BY DEF Spans
  <2>1. ASSUME NEW a \in Int, NEW b \in Nat, NEW x, x \in a..(a + b - 1)
        PROVE  b > 0 /\ a <= x /\ x < a + b /\ x \in Int
    BY <2>1
  <2>2. CASE p \in DOMAIN m1 /\ q \in LeavesOf(m1)
    BY <2>2, <1>1, <1>4, <1>5 DEF Spans
  <2>3. CASE p \in DOMAIN m2 /\ q \in LeavesOf(m2)
    BY <2>3, <1>1, <1>4, <1>5 DEF Spans
  <2>4. CASE p \in DOMAIN m1 /\ q \in LeavesOf(m2)
    <3> DEFINE a == m1[p].start
               b == m1[p].count
               x == m2[q].start
    <3>1. a \in Int /\ b \in Nat /\ (b > 0 => a + b <= 1 + k) /\ x \in at..(k + l)
      BY <2>4, <1>6, <1>9
    <3>2. m[p] = m1[p] /\ m[q] = m2[q]
      BY <2>4, <1>4, <1>5
    <3>3. ~Above(p, q)
      BY <2>4, <1>2, <1>5, AboveOrder
    <3>4. x \notin a..(a + b - 1)
      <4> HIDE DEF a, b, x, k, l
      <4> QED BY <3>1, <2>1, <1>2
    <3> QED BY <3>2, <3>3, <3>4 DEF Span
  <2>5. CASE p \in DOMAIN m2 /\ q \in LeavesOf(m1)
    <3> DEFINE a == m2[p].start
               b == m2[p].count
               x == m1[q].start
    <3>1. a \in Int /\ b \in Nat /\ (b > 0 => at <= a) /\ x \in 1..k
      BY <2>5, <1>7, <1>8
    <3>2. m[p] = m2[p] /\ m[q] = m1[q]
      BY <2>5, <1>4, <1>5
    <3>3. ~Above(p, q)
      BY <2>5, <1>2, <1>5, AboveOrder
    <3>4. x \notin a..(a + b - 1)
      <4> HIDE DEF a, b, x, k, l
      <4> QED BY <3>1, <2>1, <1>2
    <3> QED BY <3>2, <3>3, <3>4 DEF Span
  <2> QED BY <2>2, <2>3, <2>4, <2>5, <1>4, <1>5
<1> QED BY <1>4, <1>10, <1>11, <1>12, <1>13 DEF Sound, m, c

\* unify: the columns of a candidate come last, under a key that is new.
LEMMA UnifyOK ==
  ASSUME NEW s, Shaped(s), NEW k \in Names, NEW c, CandOK(k, c), <<k>> \notin DOMAIN s.map
  PROVE  /\ Shaped(Unify(s, c))
         /\ \A x \in Names : <<x>> \in DOMAIN Unify(s, c).map <=> <<x>> \in DOMAIN s.map \/ x = k
<1> DEFINE at == Len(s.cols) + 1
           m2 == Remap(c.map, c.start, at)
           m == Joined(m2, s.map)
           cols == s.cols \o c.cols
<1>1. Sound(s.cols, s.map, 1) /\ Sound(c.cols, c.map, c.start)
  BY DEF Shaped, CandOK
<1>2. at \in Int
  <2>1. s.cols \in Seq(Cols)
    BY <1>1 DEF Sound, InRange
  <2> QED BY <2>1, LenProperties
<1>3. Unify(s, c).cols = cols /\ Unify(s, c).map = m
  BY DEF Unify
<1>4. \A p \in DOMAIN s.map : p[1] # k
  <2> SUFFICES ASSUME NEW p \in DOMAIN s.map, p[1] = k PROVE FALSE
    OBVIOUS
  <2>1. <<p[1]>> \in DOMAIN s.map
    BY <1>1, TopIn DEF Sound, InRange
  <2> QED BY <2>1
<1>5. Sound(c.cols, m2, at) /\ DOMAIN m2 = DOMAIN c.map
  <2> HIDE DEF at
  <2> QED BY <1>1, <1>2, RemapSound
<1>6. \A p \in DOMAIN s.map, q \in DOMAIN m2 : p[1] # q[1]
  BY <1>4, <1>5 DEF CandOK
<1>7. Sound(cols, m, 1) /\ DOMAIN m = DOMAIN m2 \cup DOMAIN s.map
  <2> HIDE DEF m2
  <2>1. at = Len(s.cols) + 1
    OBVIOUS
  <2> HIDE DEF at
  <2> QED BY <2>1, <1>1, <1>5, <1>6, JoinSound
<1>8. ASSUME NEW x \in Names
      PROVE  <<x>> \in DOMAIN c.map <=> x = k
  <2>1. <<x>>[1] = x
    OBVIOUS
  <2> QED BY <2>1 DEF CandOK
<1> HIDE DEF m, cols, m2, at
<1> QED BY <1>3, <1>5, <1>7, <1>8 DEF Shaped

\* The schema of an accumulator has the keys that were seen, and the columns of one
\* candidate for each.
LEMMA FinalizeShaped ==
  ASSUME NEW acc, AccOK(acc)
  PROVE  /\ Shaped(Finalize(acc))
         /\ \A x \in Names : <<x>> \in DOMAIN Finalize(acc).map <=> x \in DOMAIN acc.of
<1> DEFINE n == Len(acc.order)
           F(i) == Unifying(acc)[i]
           T == {i \in 0..n : /\ Shaped(F(i))
                              /\ \A x \in Names : <<x>> \in DOMAIN F(i).map <=> \E j \in 1..i : acc.order[j] = x}
<1>1. /\ n \in Nat /\ \A i \in 1..n : acc.order[i] \in Names
      /\ DOMAIN acc.of = {acc.order[i] : i \in 1..n}
      /\ \A i, j \in 1..n : acc.order[i] = acc.order[j] => i = j
  BY LenProperties, ElementOfSeq DEF AccOK
<1>2. F(0) = NoSchema /\ \A i \in 0..(n - 1) : F(i + 1) = Unify(F(i), Resolve(acc.of[acc.order[i + 1]]))
  BY <1>1, UnifyingIs
<1> HIDE DEF F
<1>3. 0 \in T
  <2>1. NoSchema.map = <<>> /\ DOMAIN <<>> = {}
    BY EmptySeq, LenProperties DEF NoSchema, NoMap
  <2> QED BY <2>1, <1>1, <1>2, NoSchemaShaped
<1>4. \A i \in 0..(n - 1) : i \in T => i + 1 \in T
  <2> SUFFICES ASSUME NEW i \in 0..(n - 1), i \in T PROVE i + 1 \in T
    OBVIOUS
  <2> DEFINE k == acc.order[i + 1]
             cs == acc.of[k]
             c == Resolve(cs)
             A == F(i)
             B == F(i + 1)
  <2>1. i + 1 \in 1..n /\ i + 1 \in 0..n /\ 1..(i + 1) = 1..i \cup {i + 1}
    BY <1>1
  <2>2. /\ Shaped(A)
        /\ \A x \in Names : <<x>> \in DOMAIN A.map <=> \E j \in 1..i : acc.order[j] = x
    OBVIOUS
  <2>3. k \in Names /\ k \in DOMAIN acc.of /\ CandsOK(k, cs)
    BY <2>1, <1>1 DEF AccOK
  <2>4. B = Unify(A, c)
    BY <1>2
  <2>5. CandOK(k, c)
    <3> HIDE DEF k, cs
    <3>1. \E j \in 1..Len(cs) : Resolve(cs) = cs[j]
      BY <2>3, ResolveIs DEF CandsOK
    <3> QED BY <3>1, <2>3 DEF CandsOK
  <2>6. <<k>> \notin DOMAIN A.map
    <3>1. \A j \in 1..i : j \in 1..n /\ j # i + 1
      BY <1>1
    <3>2. \A j \in 1..i : acc.order[j] # k
      BY <3>1, <2>1, <1>1
    <3> HIDE DEF k, A
    <3> QED BY <3>2, <2>2, <2>3
  <2>7. /\ Shaped(B)
        /\ \A x \in Names : <<x>> \in DOMAIN B.map <=> <<x>> \in DOMAIN A.map \/ x = k
    <3> HIDE DEF A, B, k, c
    <3> QED BY <2>2, <2>3, <2>4, <2>5, <2>6, UnifyOK
  <2>8. \A x \in Names : <<x>> \in DOMAIN B.map <=> \E j \in 1..(i + 1) : acc.order[j] = x
    BY <2>1, <2>2, <2>7
  <2> QED BY <2>1, <2>7, <2>8
<1>5. n \in T
  <2> HIDE DEF T
  <2>1. \A i \in 0..n : i \in T
    BY <1>1, <1>3, <1>4, Climb
  <2> QED BY <1>1, <2>1
<1>6. Shaped(F(n)) /\ \A x \in Names : <<x>> \in DOMAIN F(n).map <=> x \in DOMAIN acc.of
  <2>1. Shaped(F(n)) /\ \A x \in Names : <<x>> \in DOMAIN F(n).map <=> \E j \in 1..n : acc.order[j] = x
    BY <1>5
  <2> HIDE DEF T
  <2> QED BY <2>1, <1>1
<1> QED BY <1>6 DEF Finalize, F

\* Whatever the rows, the schema that is discovered has the right shape.
LEMMA SchemaOfShaped ==
  ASSUME NEW rows, RowsFine(rows)
  PROVE  Shaped(SchemaOf(rows))
  BY FedOK, FinalizeShaped DEF SchemaOf

-----------------------------------------------------------------------------
(* Writing a row.                                                           *)

\* The field of a path is the value of its one call.
LEMMA AtIs ==
  ASSUME NEW row, Nested(Calls(row)), NEW p
  PROVE  /\ \A j \in Fields(Calls(row)) : Calls(row)[j].at = p => At(row, p) = Calls(row)[j].value
         /\ (\A j \in Fields(Calls(row)) : Calls(row)[j].at # p) => At(row, p) = NA
<1> DEFINE cs == Calls(row)
           is == {k \in Fields(cs) : cs[k].at = p}
<1>1. At(row, p) = IF is = {} THEN NA ELSE cs[CHOOSE k \in is : TRUE].value
  BY DEF At
<1>2. ASSUME NEW j \in Fields(cs), cs[j].at = p
      PROVE  At(row, p) = cs[j].value
  <2>1. j \in is
    BY <1>2
  <2> DEFINE x == CHOOSE k \in is : TRUE
  <2>2. x \in is
    BY <2>1
  <2>3. x = j
    <3> HIDE DEF x
    <3> QED BY <2>2, <1>2, NestedAre
  <2> QED BY <1>1, <2>1, <2>3
<1>3. ASSUME \A j \in Fields(cs) : cs[j].at # p
      PROVE  At(row, p) = NA
  <2>1. is = {}
    BY <1>3
  <2> QED BY <1>1, <2>1
<1> QED BY <1>2, <1>3

\* An absent value is NA in a column of any type.
LEMMA CellOfNA == \A t : CellOf(t, NA) = NA
  BY DEF CellOf, NA

\* A call that the filler takes: a known field or one it may ignore, with a value its
\* column or sub-filler accepts.
CallOK(s, c, strict) ==
  Open(s.map, Front(c.at)) =>
    /\ c.at \notin DOMAIN s.map => ~strict
    /\ c.at \in DOMAIN s.map /\ ~Ends(c) =>
         IF s.map[c.at].sub THEN c.value.kind \in {"struct", "none"}
                            ELSE Takes(s.cols[s.map[c.at].start].type, c.value)

\* A call that puts a cell in the column of p, if it has none.
Touches(map, c, p) ==
  /\ c.at \in DOMAIN map
  /\ \/ ~Ends(c) /\ c.at = p
     \/ Above(c.at, p) /\ (Ends(c) \/ c.value.kind = "none")
\* One of the first k calls puts a cell in the column of p.
Touched(cs, map, k, p) == \E j \in 1..k : Touches(map, cs[j], p)

\* One more call.
LEMMA TouchedNext ==
  ASSUME NEW cs, NEW map, NEW k \in Nat, NEW p
  PROVE  /\ Touched(cs, map, k + 1, p) <=> Touched(cs, map, k, p) \/ Touches(map, cs[k + 1], p)
         /\ ~Touched(cs, map, 0, p)
<1>1. 1..(k + 1) = 1..k \cup {k + 1} /\ 1..0 = {}
  OBVIOUS
<1> QED BY <1>1 DEF Touched

\* Who touches a column first, and what there is to be found.
LEMMA FirstTouch ==
  ASSUME NEW row, Nested(Calls(row)), NEW map, DOMAIN map \subseteq Paths,
         NEW p \in DOMAIN map, NEW k \in Nat, k + 1 \in 1..Len(Calls(row)),
         Touches(map, Calls(row)[k + 1], p)
  PROVE  /\ ~Ends(Calls(row)[k + 1]) => ~Touched(Calls(row), map, k, p)
         /\ ~Ends(Calls(row)[k + 1]) /\ Calls(row)[k + 1].at = p => At(row, p) = Calls(row)[k + 1].value
         /\ Above(Calls(row)[k + 1].at, p) /\ ~Touched(Calls(row), map, k, p) => At(row, p) = NA
<1> DEFINE cs == Calls(row)
           c == cs[k + 1]
           n == Len(cs)
<1>0. n \in Nat /\ \A i \in 1..n : cs[i].at \in Paths
  BY NestedAre
<1>1. /\ c.at \in DOMAIN map /\ c.at \in Paths
      /\ (~Ends(c) /\ c.at = p) \/ (Above(c.at, p) /\ (Ends(c) \/ c.value.kind = "none"))
  BY DEF Touches
<1>2. ASSUME ~Ends(c), Touched(cs, map, k, p)
      PROVE  FALSE
  <2>1. PICK i \in 1..k : Touches(map, cs[i], p)
    BY <1>2 DEF Touched
  <2> DEFINE a == cs[i]
  <2>2. i \in 1..n /\ i < k + 1 /\ k + 1 \in Fields(cs)
    BY <1>0, <1>2 DEF Fields
  <2>3. a.at \in Paths /\ p \in Paths
    BY <1>0, <2>2
  <2>4. ~Ends(a) => i \in Fields(cs)
    BY <2>2 DEF Fields
  <2>5. a.at # c.at
    <3> SUFFICES ASSUME a.at = c.at PROVE FALSE
      OBVIOUS
    <3>1. CASE ~Ends(a)
      BY <3>1, <2>2, <2>4, NestedAre
    <3>2. CASE Ends(a)
      <4>1. PICK j \in Fields(cs) : j < i /\ cs[j].at = a.at
        BY <3>2, <2>2, NestedAre
      <4>2. j = k + 1
        BY <4>1, <2>2, NestedAre
      <4> QED BY <4>1, <4>2, <2>2
    <3> QED BY <3>1, <3>2
  <2>6. ~(c.at = p /\ Above(a.at, p))
    <3> SUFFICES ASSUME c.at = p, Above(a.at, p) PROVE FALSE
      OBVIOUS
    <3>1. CASE Ends(a)
      <4>1. k + 1 < i
        BY <3>1, <2>2, NestedOrder
      <4> QED BY <4>1, <2>2
    <3>2. CASE ~Ends(a)
      <4>1. a.value.kind = "none"
        <5>1. ~Above(p, p) /\ a.at # p
          BY <2>3, <2>5, AboveOrder
        <5> QED BY <3>2, <5>1, <2>1 DEF Touches
      <4>2. Nests(a.value)
        BY <3>2, <2>2, <2>4, NestedOrder
      <4> QED BY <4>1, <4>2 DEF Nests
    <3> QED BY <3>1, <3>2
  <2>7. ~(Above(c.at, p) /\ c.value.kind = "none" /\ (a.at = p \/ Above(c.at, a.at)))
    <3> SUFFICES ASSUME Above(c.at, p), c.value.kind = "none", a.at = p \/ Above(c.at, a.at) PROVE FALSE
      OBVIOUS
    <3>1. Nests(c.value)
      BY <2>2, NestedOrder
    <3> QED BY <3>1 DEF Nests
  <2>8. ~(Above(c.at, p) /\ Above(a.at, p) /\ Above(a.at, c.at))
    <3> SUFFICES ASSUME Above(c.at, p), Above(a.at, p), Above(a.at, c.at) PROVE FALSE
      OBVIOUS
    <3>1. CASE Ends(a)
      <4>1. k + 1 < i
        BY <3>1, <2>2, NestedOrder
      <4> QED BY <4>1, <2>2
    <3>2. CASE ~Ends(a)
      <4>1. a.value.kind = "none"
        <5>1. a.at # p
          BY <2>3, AboveOrder
        <5> QED BY <3>2, <5>1, <2>1 DEF Touches
      <4>2. Nests(a.value)
        BY <3>2, <2>2, <2>4, NestedOrder
      <4> QED BY <4>1, <4>2 DEF Nests
    <3> QED BY <3>1, <3>2
  <2>9. Above(c.at, p) /\ Above(a.at, p) => a.at = c.at \/ Above(a.at, c.at) \/ Above(c.at, a.at)
    BY <1>1, <2>3, AboveOrder
  <2>10. a.at = p \/ Above(a.at, p)
    BY <2>1 DEF Touches
  <2> QED BY <1>1, <1>2, <2>5, <2>6, <2>7, <2>8, <2>9, <2>10
<1>3. ASSUME ~Ends(c), c.at = p PROVE At(row, p) = c.value
  <2>1. k + 1 \in Fields(cs)
    BY <1>3 DEF Fields
  <2> HIDE DEF cs
  <2> QED BY <1>3, <2>1, AtIs DEF cs
<1>4. ASSUME Above(c.at, p), ~Touched(cs, map, k, p) PROVE At(row, p) = NA
  <2>1. \A j \in Fields(cs) : cs[j].at # p
    <3> SUFFICES ASSUME NEW j \in Fields(cs), cs[j].at = p PROVE FALSE
      OBVIOUS
    <3>1. j \in 1..n /\ ~Ends(cs[j])
      BY DEF Fields
    <3>2. CASE Ends(c)
      <4>1. j < k + 1
        BY <1>4, <3>1, <3>2, NestedOrder
      <4>2. j \in 1..k
        BY <3>1, <4>1, <1>0
      <4> QED BY <3>1, <4>2, <1>4 DEF Touched, Touches
    <3>3. CASE ~Ends(c)
      <4>1. k + 1 \in Fields(cs)
        BY <3>3 DEF Fields
      <4>2. Nests(c.value)
        BY <1>4, <3>1, <4>1, NestedOrder
      <4>3. c.at # p
        BY <1>1, <1>4, AboveOrder
      <4> QED BY <3>3, <4>2, <4>3, <1>1 DEF Nests
    <3> QED BY <3>2, <3>3
  <2> QED BY <2>1, AtIs
<1> QED BY <1>2, <1>3, <1>4

\* A column that no call touches is that of an absent field.
LEMMA Untouched ==
  ASSUME NEW row, Nested(Calls(row)), NEW map, NEW p \in DOMAIN map,
         ~Touched(Calls(row), map, Len(Calls(row)), p)
  PROVE  At(row, p) = NA
<1>1. \A j \in Fields(Calls(row)) : Calls(row)[j].at # p
  BY DEF Fields, Touched, Touches
<1> QED BY <1>1, AtIs

\* Buffers that are those of the schema, and a writer at the start of a row.
Fits(w, s) ==
  /\ w.columns = [i \in DOMAIN s.cols |-> [type |-> s.cols[i].type, cells |-> w.columns[i].cells]]
  /\ w.filled = [i \in DOMAIN s.cols |-> w.filled[i]]
\* A writer between rows.
Ready(w, s) == Fits(w, s) /\ w.ok /\ \A i \in DOMAIN s.cols : ~w.filled[i]

\* Buffers that fit have the types of the schema.
LEMMA FitsIs ==
  ASSUME NEW w, NEW s, Fits(w, s)
  PROVE  /\ DOMAIN w.columns = DOMAIN s.cols /\ DOMAIN w.filled = DOMAIN s.cols
         /\ \A i \in DOMAIN s.cols : /\ w.columns[i].type = s.cols[i].type
                                     /\ w.columns[i] = [type |-> s.cols[i].type, cells |-> w.columns[i].cells]
<1> DEFINE D == DOMAIN s.cols
           f == w.columns
<1>1. f = [i \in D |-> [type |-> s.cols[i].type, cells |-> f[i].cells]] /\ DOMAIN w.filled = D
  BY DEF Fits
<1> HIDE DEF D, f
<1>2. DOMAIN f = D
  BY <1>1
<1>3. \A i \in D : f[i] = [type |-> s.cols[i].type, cells |-> f[i].cells]
  BY <1>1
<1>4. ASSUME NEW i \in D PROVE f[i].type = s.cols[i].type
  <2> DEFINE x == f[i].cells
             y == f[i]
  <2>1. y = [type |-> s.cols[i].type, cells |-> x]
    BY <1>3
  <2> HIDE DEF x, y
  <2>2. y.type = s.cols[i].type
    BY <2>1
  <2> QED BY <2>2 DEF y
<1> QED BY <1>1, <1>2, <1>3, <1>4 DEF D, f

\* One more cell in some columns: push_value, push_na and padding.
LEMMA PushIs ==
  ASSUME NEW w, NEW s, Fits(w, s), NEW is, NEW x
  PROVE  /\ Fits(PushCell(w, is, x), s)
         /\ PushCell(w, is, x).ok = w.ok
         /\ \A i \in DOMAIN s.cols :
              /\ i \in is => PushCell(w, is, x).columns[i] = Grown(w.columns[i], x)
              /\ i \notin is => PushCell(w, is, x).columns[i] = w.columns[i]
              /\ PushCell(w, is, x).filled[i] <=> w.filled[i] \/ i \in is
<1> DEFINE v == PushCell(w, is, x)
           D == DOMAIN s.cols
<1>1. /\ DOMAIN w.columns = D /\ DOMAIN w.filled = D
      /\ \A i \in D : /\ w.columns[i].type = s.cols[i].type
                      /\ w.columns[i] = [type |-> s.cols[i].type, cells |-> w.columns[i].cells]
  BY FitsIs
<1>2. /\ v.columns = [i \in D |-> IF i \in is THEN Grown(w.columns[i], x) ELSE w.columns[i]]
      /\ v.filled = [i \in D |-> w.filled[i] \/ i \in is]
      /\ v.ok = w.ok
  BY <1>1 DEF PushCell
<1> HIDE DEF v, D
<1>3. \A i \in D : /\ i \in is => v.columns[i] = Grown(w.columns[i], x)
                   /\ i \notin is => v.columns[i] = w.columns[i]
                   /\ v.filled[i] <=> w.filled[i] \/ i \in is
  BY <1>2
<1>4. \A i \in D : v.columns[i] = [type |-> s.cols[i].type, cells |-> v.columns[i].cells]
  <2> TAKE i \in D
  <2>1. CASE i \in is
    <3>1. v.columns[i] = [type |-> s.cols[i].type, cells |-> Append(w.columns[i].cells, x)]
      BY <2>1, <1>1, <1>3 DEF Grown
    <3> QED BY <3>1
  <2>2. CASE i \notin is
    BY <2>2, <1>1, <1>3
  <2> QED BY <2>1, <2>2
<1>5. v.columns = [i \in D |-> [type |-> s.cols[i].type, cells |-> v.columns[i].cells]]
  <2>1. v.columns = [i \in D |-> v.columns[i]]
    BY <1>2
  <2> DEFINE f == v.columns
  <2> HIDE DEF f
  <2>2. f = [i \in D |-> f[i]] /\ \A i \in D : f[i] = [type |-> s.cols[i].type, cells |-> f[i].cells]
    BY <2>1, <1>4 DEF f
  <2>3. f = [i \in D |-> [type |-> s.cols[i].type, cells |-> f[i].cells]]
    BY <2>2
  <2> QED BY <2>3 DEF f
<1>6. DOMAIN v.filled = D
  BY <1>2
<1> QED BY <1>2, <1>3, <1>5, <1>6 DEF Fits, v, D

\* An error leaves the buffers as they are.
LEMMA FailsIs ==
  ASSUME NEW w, NEW s, Fits(w, s)
  PROVE  Fits(Fails(w), s) /\ ~Fails(w).ok
  BY DEF Fails, Fits

\* The writer after k calls of a row: it has failed if one of them is not taken; if
\* not, the columns touched so far have one cell more, the right one.
FInv(w0, s, row, strict, k, w) ==
  /\ Fits(w, s)
  /\ w.ok <=> \A j \in 1..k : CallOK(s, Calls(row)[j], strict)
  /\ w.ok => \A p \in LeavesOf(s.map) :
       /\ Touched(Calls(row), s.map, k, p) =>
            w.columns[s.map[p].start] =
              Grown(w0.columns[s.map[p].start], CellOf(s.cols[s.map[p].start].type, At(row, p)))
       /\ ~Touched(Calls(row), s.map, k, p) => w.columns[s.map[p].start] = w0.columns[s.map[p].start]
       /\ w.filled[s.map[p].start] <=> Touched(Calls(row), s.map, k, p)

\* The columns of the leaves.
LEMMA LeavesIn ==
  ASSUME NEW s, Shaped(s)
  PROVE  /\ DOMAIN s.cols = 1..Len(s.cols) /\ Len(s.cols) \in Nat
         /\ DOMAIN s.map \subseteq Paths
         /\ \A p \in LeavesOf(s.map) :
              /\ p \in DOMAIN s.map /\ p \in Paths /\ ~s.map[p].sub
              /\ s.map[p].start \in DOMAIN s.cols
              /\ s.cols[s.map[p].start].type \in Types
         /\ \A i \in DOMAIN s.cols : \E p \in LeavesOf(s.map) : s.map[p].start = i
         /\ \A p, q \in LeavesOf(s.map) : s.map[p].start = s.map[q].start => p = q
         /\ \A p \in DOMAIN s.map : s.map[p].sub => \A q \in LeavesOf(s.map) :
              s.map[q].start \in Span(s.map[p]) <=> Above(p, q)
<1> DEFINE n == Len(s.cols)
<1>1. InRange(s.cols, s.map, 1) /\ LeavesFit(s.cols, s.map, 1) /\ Spans(s.map)
  BY DEF Shaped, Sound
<1>2. s.cols \in Seq(Cols) /\ DOMAIN s.cols = 1..n /\ n \in Nat /\ DOMAIN s.map \subseteq Paths
  BY <1>1, LenProperties DEF InRange
<1>3. ASSUME NEW p \in LeavesOf(s.map)
      PROVE  /\ p \in DOMAIN s.map /\ p \in Paths /\ ~s.map[p].sub
             /\ s.map[p].start \in DOMAIN s.cols
             /\ s.cols[s.map[p].start].type \in Types
  <2> DEFINE a == s.map[p].start
  <2>1. p \in DOMAIN s.map /\ p \in Paths /\ ~s.map[p].sub /\ s.map[p] \in Routes /\ s.map[p].count = 1
    BY <1>1, <1>2 DEF LeavesOf, InRange, LeavesFit
  <2>2. a \in Int /\ 1 <= a /\ a + 1 <= 1 + n
    <3>1. s.map[p].count > 0
      BY <2>1
    <3> QED BY <2>1, <3>1, <1>1 DEF InRange, Routes
  <2>3. a \in 1..n
    <3> HIDE DEF a, n
    <3> QED BY <2>2, <1>2
  <2>4. s.cols[a] \in Cols
    BY <2>3, <1>2, ElementOfSeq
  <2>5. s.cols[a].type \in Types
    BY <2>4 DEF Cols
  <2> QED BY <2>1, <2>3, <2>5, <1>2
<1>4. ASSUME NEW i \in DOMAIN s.cols
      PROVE  \E p \in LeavesOf(s.map) : s.map[p].start = i
  <2>1. i \in 1..n /\ 1 + i - 1 = i
    BY <1>2
  <2> QED BY <2>1, <1>1 DEF LeavesFit
<1>5. \A p, q \in LeavesOf(s.map) : s.map[p].start = s.map[q].start => p = q
  BY <1>1 DEF LeavesFit
<1>6. \A p \in DOMAIN s.map : s.map[p].sub => \A q \in LeavesOf(s.map) :
        s.map[q].start \in Span(s.map[p]) <=> Above(p, q)
  BY <1>1 DEF Spans, LeavesOf
<1> QED BY <1>2, <1>3, <1>4, <1>5, <1>6

\* A call that writes to the columns is.
LEMMA Advance ==
  ASSUME NEW s, Shaped(s), NEW row, NEW strict, NEW w0, NEW k \in Nat, NEW w, FInv(w0, s, row, strict, k, w),
         w.ok, CallOK(s, Calls(row)[k + 1], strict), NEW is, NEW x,
         \A p \in LeavesOf(s.map) :
           /\ s.map[p].start \in is <=>
                Touches(s.map, Calls(row)[k + 1], p) /\ ~Touched(Calls(row), s.map, k, p)
           /\ s.map[p].start \in is => x = CellOf(s.cols[s.map[p].start].type, At(row, p))
  PROVE  FInv(w0, s, row, strict, k + 1, PushCell(w, is, x))
<1> DEFINE v == PushCell(w, is, x)
           cs == Calls(row)
           was(p) == Touched(cs, s.map, k, p)
           now(p) == Touched(cs, s.map, k + 1, p)
<1>1. /\ Fits(v, s) /\ v.ok = w.ok
      /\ \A i \in DOMAIN s.cols :
              /\ i \in is => v.columns[i] = Grown(w.columns[i], x)
              /\ i \notin is => v.columns[i] = w.columns[i]
              /\ v.filled[i] <=> w.filled[i] \/ i \in is
  BY PushIs DEF FInv
<1>2. 1..(k + 1) = 1..k \cup {k + 1}
  OBVIOUS
<1>3. v.ok <=> \A j \in 1..(k + 1) : CallOK(s, cs[j], strict)
  <2>1. \A j \in 1..k : CallOK(s, cs[j], strict)
    BY DEF FInv
  <2>2. v.ok
    BY <1>1
  <2> HIDE DEF v
  <2> QED BY <2>1, <2>2, <1>2
<1>4. ASSUME NEW p \in LeavesOf(s.map)
      PROVE  /\ now(p) => v.columns[s.map[p].start] =
                            Grown(w0.columns[s.map[p].start], CellOf(s.cols[s.map[p].start].type, At(row, p)))
             /\ ~now(p) => v.columns[s.map[p].start] = w0.columns[s.map[p].start]
             /\ v.filled[s.map[p].start] <=> now(p)
  <2> DEFINE i == s.map[p].start
             y == CellOf(s.cols[i].type, At(row, p))
             new == Touches(s.map, cs[k + 1], p)
  <2>1. i \in DOMAIN s.cols
    BY LeavesIn
  <2>2. now(p) <=> was(p) \/ new
    BY TouchedNext
  <2>3. /\ was(p) => w.columns[i] = Grown(w0.columns[i], y)
        /\ ~was(p) => w.columns[i] = w0.columns[i]
        /\ w.filled[i] <=> was(p)
    BY DEF FInv
  <2>4. (i \in is <=> new /\ ~was(p)) /\ (i \in is => x = y)
    OBVIOUS
  <2>5. /\ i \in is => v.columns[i] = Grown(w.columns[i], x)
        /\ i \notin is => v.columns[i] = w.columns[i]
        /\ v.filled[i] <=> w.filled[i] \/ i \in is
    BY <1>1, <2>1
  <2> HIDE DEF v, was, now, new, i, y
  <2>6. CASE i \in is
    BY <2>2, <2>3, <2>4, <2>5, <2>6 DEF i, y
  <2>7. CASE i \notin is
    BY <2>2, <2>3, <2>4, <2>5, <2>7 DEF i, y
  <2> QED BY <2>6, <2>7
<1> HIDE DEF v
<1> QED BY <1>1, <1>3, <1>4 DEF FInv, v

\* A call that touches no column changes nothing.
LEMMA Stays ==
  ASSUME NEW s, NEW row, NEW strict, NEW w0, NEW k \in Nat, NEW w, FInv(w0, s, row, strict, k, w),
         w.ok => CallOK(s, Calls(row)[k + 1], strict)
                 /\ \A p \in LeavesOf(s.map) : ~Touches(s.map, Calls(row)[k + 1], p)
  PROVE  FInv(w0, s, row, strict, k + 1, w)
<1>1. 1..(k + 1) = 1..k \cup {k + 1}
  OBVIOUS
<1>2. w.ok <=> \A j \in 1..(k + 1) : CallOK(s, Calls(row)[j], strict)
  BY <1>1 DEF FInv
<1>3. w.ok => \A p \in LeavesOf(s.map) :
        Touched(Calls(row), s.map, k + 1, p) <=> Touched(Calls(row), s.map, k, p)
  BY TouchedNext
<1> QED BY <1>2, <1>3 DEF FInv

\* A call that is not taken is an error, and stays one.
LEMMA Breaks ==
  ASSUME NEW s, NEW row, NEW strict, NEW w0, NEW k \in Nat, NEW w, FInv(w0, s, row, strict, k, w),
         ~CallOK(s, Calls(row)[k + 1], strict)
  PROVE  FInv(w0, s, row, strict, k + 1, Fails(w))
<1>1. k + 1 \in 1..(k + 1)
  OBVIOUS
<1>2. Fits(Fails(w), s) /\ ~Fails(w).ok
  BY FailsIs DEF FInv
<1> QED BY <1>1, <1>2 DEF FInv

\* fill_field, serialize_none and end keep this: each column is touched by the right
\* call, once.
LEMMA FillCallOK ==
  ASSUME NEW s, Shaped(s), NEW row, Nested(Calls(row)), NEW strict \in BOOLEAN, NEW w0,
         NEW k \in 0..(Len(Calls(row)) - 1), NEW w, FInv(w0, s, row, strict, k, w)
  PROVE  FInv(w0, s, row, strict, k + 1, FillCall(w, s.map, Calls(row)[k + 1], strict))
<1> DEFINE cs == Calls(row)
           c == cs[k + 1]
           map == s.map
           L == LeavesOf(s.map)
           v == FillCall(w, s.map, c, strict)
           open == Open(s.map, Front(c.at))
           r == map[c.at]
<1>1. k \in Nat /\ k + 1 \in 1..Len(cs) /\ c.at \in Paths
  BY NestedAre
<1>2. DOMAIN map \subseteq Paths /\ ParentsIn(map)
  BY DEF Shaped, Sound, InRange
<1>3. c.at \in DOMAIN map => open
  <2> SUFFICES ASSUME c.at \in DOMAIN map PROVE open
    OBVIOUS
  <2> DEFINE l == Len(c.at)
  <2>1. l \in Nat /\ l >= 1 /\ (l = 1 => Front(c.at) = <<>>)
    BY <1>1, FrontIs
  <2>2. l > 1 => Front(c.at) \in DOMAIN map /\ map[Front(c.at)].sub
    BY <1>2 DEF ParentsIn
  <2> HIDE DEF l
  <2>3. l = 1 \/ l > 1
    BY <2>1
  <2> QED BY <2>1, <2>2, <2>3 DEF Open
<1>4. CASE ~w.ok
  <2>1. v = w
    BY <1>4 DEF FillCall
  <2>2. FInv(w0, s, row, strict, k + 1, w)
    BY <1>1, <1>4, Stays
  <2> QED BY <2>1, <2>2
<1>5. CASE w.ok /\ ~open
  <2>1. v = w
    BY <1>5 DEF FillCall
  <2>2. CallOK(s, c, strict)
    BY <1>5 DEF CallOK
  <2>3. \A p \in L : ~Touches(map, c, p)
    BY <1>3, <1>5 DEF Touches
  <2>4. FInv(w0, s, row, strict, k + 1, w)
    BY <1>1, <2>2, <2>3, Stays
  <2> QED BY <2>1, <2>4
<1>6. CASE w.ok /\ open /\ c.at \notin DOMAIN map
  <2>1. v = IF strict THEN Fails(w) ELSE w
    BY <1>6 DEF FillCall
  <2>2. CASE strict
    <3>1. ~CallOK(s, c, strict)
      BY <1>6, <2>2 DEF CallOK
    <3>2. FInv(w0, s, row, strict, k + 1, Fails(w))
      BY <1>1, <3>1, Breaks
    <3> QED BY <2>1, <2>2, <3>2
  <2>3. CASE ~strict
    <3>1. CallOK(s, c, strict)
      BY <1>6, <2>3 DEF CallOK
    <3>2. \A p \in L : ~Touches(map, c, p)
      BY <1>6 DEF Touches
    <3>3. FInv(w0, s, row, strict, k + 1, w)
      BY <1>1, <3>1, <3>2, Stays
    <3> QED BY <2>1, <2>3, <3>3
  <2> QED BY <2>2, <2>3
<1>7. ASSUME w.ok, c.at \in DOMAIN map
      PROVE  /\ ~r.sub => v = IF Ends(c) THEN w ELSE PushValue(w, r.start, c.value)
             /\ r.sub /\ Ends(c) => v = Pad(w, Span(r))
             /\ r.sub /\ ~Ends(c) =>
                  v = IF c.value.kind = "struct" THEN w
                      ELSE IF c.value.kind = "none" THEN PushNA(w, Span(r)) ELSE Fails(w)
  <2>1. open
    BY <1>3, <1>7
  <2> QED BY <1>7, <2>1 DEF FillCall, Ends
<1>8. ASSUME w.ok, c.at \in DOMAIN map, ~r.sub, Ends(c)
      PROVE  FInv(w0, s, row, strict, k + 1, v)
  <2>1. v = w
    BY <1>7, <1>8
  <2>2. CallOK(s, c, strict)
    BY <1>8 DEF CallOK
  <2>3. \A p \in L : ~Touches(map, c, p)
    <3> SUFFICES ASSUME NEW p \in L, Touches(map, c, p) PROVE FALSE
      OBVIOUS
    <3>1. Above(c.at, p)
      BY <1>8 DEF Touches
    <3>2. p \in DOMAIN map /\ p \in Paths
      BY LeavesIn
    <3>3. map[c.at].sub
      <4> DEFINE G == {q \in DOMAIN map : map[q].sub}
      <4>1. G \subseteq DOMAIN map /\ \A q \in DOMAIN map : Len(q) > 1 => Front(q) \in G
        BY <1>2 DEF ParentsIn
      <4> HIDE DEF G, c
      <4>2. c.at \in G
        BY <4>1, <3>1, <3>2, <1>1, <1>2, Ancestors
      <4> QED BY <4>2 DEF G
    <3> QED BY <3>3, <1>8
  <2>4. FInv(w0, s, row, strict, k + 1, w)
    BY <1>1, <2>2, <2>3, Stays
  <2> QED BY <2>1, <2>4
<1>9. ASSUME w.ok, c.at \in DOMAIN map, ~r.sub, ~Ends(c)
      PROVE  FInv(w0, s, row, strict, k + 1, v)
  <2> DEFINE i == r.start
             t == s.cols[i].type
             y == CellOf(t, c.value)
  <2>1. c.at \in L /\ i \in DOMAIN s.cols
    BY <1>9, LeavesIn DEF LeavesOf
  <2>2. w.columns[i].type = t
    <3>1. Fits(w, s)
      BY DEF FInv
    <3>2. \A j \in DOMAIN s.cols : w.columns[j].type = s.cols[j].type
      BY <3>1, FitsIs
    <3> HIDE DEF i
    <3> QED BY <2>1, <3>2
  <2>3. v = IF Takes(t, c.value) THEN PushCell(w, {i}, y) ELSE Fails(w)
    BY <1>7, <1>9, <2>2 DEF PushValue
  <2>4. CallOK(s, c, strict) <=> Takes(t, c.value)
    BY <1>3, <1>9 DEF CallOK
  <2>5. CASE Takes(t, c.value)
    <3>1. ASSUME NEW p \in L
          PROVE  /\ map[p].start \in {i} <=> Touches(map, c, p) /\ ~Touched(cs, map, k, p)
                 /\ map[p].start \in {i} => y = CellOf(s.cols[map[p].start].type, At(row, p))
      <4>1. map[p].start = i <=> p = c.at
        BY <2>1, LeavesIn
      <4>2. p = c.at => Touches(map, c, p)
        BY <1>9 DEF Touches
      <4>3. Touches(map, c, p) => p = c.at
        <5> SUFFICES ASSUME Above(c.at, p) PROVE FALSE
          BY DEF Touches
        <5>1. p \in DOMAIN map /\ p \in Paths
          BY LeavesIn
        <5>2. map[c.at].sub
          <6> DEFINE G == {q \in DOMAIN map : map[q].sub}
          <6>1. G \subseteq DOMAIN map /\ \A q \in DOMAIN map : Len(q) > 1 => Front(q) \in G
            BY <1>2 DEF ParentsIn
          <6> HIDE DEF G, c
          <6>2. c.at \in G
            BY <6>1, <5>1, <1>1, <1>2, Ancestors
          <6> QED BY <6>2 DEF G
        <5> QED BY <5>2, <1>9
      <4>4. ASSUME p = c.at
            PROVE  ~Touched(cs, map, k, p) /\ At(row, p) = c.value
        <5>1. p \in DOMAIN map /\ Touches(map, c, p)
          BY <4>2, <4>4, <1>9
        <5> QED BY <4>4, <5>1, <1>1, <1>2, <1>9, FirstTouch
      <4> QED BY <4>1, <4>2, <4>3, <4>4
    <3>2. FInv(w0, s, row, strict, k + 1, PushCell(w, {i}, y))
      <4> HIDE DEF y
      <4>1. CallOK(s, Calls(row)[k + 1], strict)
        BY <2>4, <2>5
      <4> QED BY <4>1, <3>1, <1>1, <1>9, Advance
    <3> QED BY <3>2, <2>3, <2>5
  <2>6. CASE ~Takes(t, c.value)
    <3>1. FInv(w0, s, row, strict, k + 1, Fails(w))
      BY <2>4, <2>6, <1>1, Breaks
    <3> QED BY <3>1, <2>3, <2>6
  <2> QED BY <2>5, <2>6
<1>10. ASSUME w.ok, c.at \in DOMAIN map, r.sub
       PROVE  \A p \in L : /\ map[p].start \in Span(r) <=> Above(c.at, p)
                           /\ p \in DOMAIN map /\ p # c.at
                           /\ map[p].start \in DOMAIN s.cols
                           /\ w.filled[map[p].start] <=> Touched(cs, map, k, p)
  BY <1>10, LeavesIn DEF FInv
<1>11. ASSUME w.ok, c.at \in DOMAIN map, r.sub, Ends(c)
       PROVE  FInv(w0, s, row, strict, k + 1, v)
  <2> DEFINE is == {i \in Span(r) : ~w.filled[i]}
  <2>1. v = PushCell(w, is, NA)
    BY <1>7, <1>11 DEF Pad, PushNA
  <2>2. ASSUME NEW p \in L
        PROVE  /\ map[p].start \in is <=> Touches(map, c, p) /\ ~Touched(cs, map, k, p)
               /\ map[p].start \in is => NA = CellOf(s.cols[map[p].start].type, At(row, p))
    <3>1. Touches(map, c, p) <=> Above(c.at, p)
      BY <1>11 DEF Touches
    <3>2. map[p].start \in is <=> Above(c.at, p) /\ ~Touched(cs, map, k, p)
      BY <1>10, <1>11
    <3>3. ASSUME Above(c.at, p), ~Touched(cs, map, k, p)
          PROVE  At(row, p) = NA
      <4>1. Touches(map, c, p) /\ p \in DOMAIN map
        BY <3>1, <3>3, <1>10, <1>11
      <4> QED BY <3>3, <4>1, <1>1, <1>2, FirstTouch
    <3> HIDE DEF is
    <3> QED BY <3>1, <3>2, <3>3, CellOfNA
  <2>3. CallOK(s, c, strict)
    BY <1>11 DEF CallOK
  <2>4. FInv(w0, s, row, strict, k + 1, PushCell(w, is, NA))
    <3> HIDE DEF is
    <3> QED BY <2>2, <2>3, <1>1, <1>11, Advance
  <2> QED BY <2>1, <2>4
<1>12. ASSUME w.ok, c.at \in DOMAIN map, r.sub, ~Ends(c), c.value.kind = "none"
       PROVE  FInv(w0, s, row, strict, k + 1, v)
  <2>1. v = PushCell(w, Span(r), NA)
    BY <1>7, <1>12 DEF PushNA
  <2>2. ASSUME NEW p \in L
        PROVE  /\ map[p].start \in Span(r) <=> Touches(map, c, p) /\ ~Touched(cs, map, k, p)
               /\ map[p].start \in Span(r) => NA = CellOf(s.cols[map[p].start].type, At(row, p))
    <3>1. Touches(map, c, p) <=> Above(c.at, p)
      BY <1>10, <1>12 DEF Touches
    <3>2. map[p].start \in Span(r) <=> Above(c.at, p)
      BY <1>10, <1>12
    <3>3. ASSUME Above(c.at, p)
          PROVE  ~Touched(cs, map, k, p) /\ At(row, p) = NA
      <4>1. Touches(map, c, p) /\ p \in DOMAIN map
        BY <3>1, <3>3, <1>10, <1>12
      <4>2. ~Touched(cs, map, k, p)
        BY <4>1, <1>1, <1>2, <1>12, FirstTouch
      <4> QED BY <3>3, <4>1, <4>2, <1>1, <1>2, FirstTouch
    <3> QED BY <3>1, <3>2, <3>3, CellOfNA
  <2>3. CallOK(s, c, strict)
    BY <1>12 DEF CallOK
  <2>4. FInv(w0, s, row, strict, k + 1, PushCell(w, Span(r), NA))
    BY <2>2, <2>3, <1>1, <1>12, Advance
  <2> QED BY <2>1, <2>4
<1>13. ASSUME w.ok, c.at \in DOMAIN map, r.sub, ~Ends(c), c.value.kind = "struct"
       PROVE  FInv(w0, s, row, strict, k + 1, v)
  <2>1. v = w
    BY <1>7, <1>13
  <2>2. \A p \in L : ~Touches(map, c, p)
    BY <1>10, <1>13 DEF Touches
  <2>3. CallOK(s, c, strict)
    BY <1>13 DEF CallOK
  <2>4. FInv(w0, s, row, strict, k + 1, w)
    BY <1>1, <2>2, <2>3, Stays
  <2> QED BY <2>1, <2>4
<1>14. ASSUME w.ok, c.at \in DOMAIN map, r.sub, ~Ends(c), c.value.kind \notin {"struct", "none"}
       PROVE  FInv(w0, s, row, strict, k + 1, v)
  <2>1. v = Fails(w)
    BY <1>7, <1>14
  <2>2. ~CallOK(s, c, strict)
    BY <1>3, <1>14 DEF CallOK
  <2>3. FInv(w0, s, row, strict, k + 1, Fails(w))
    BY <1>1, <2>2, Breaks
  <2> QED BY <2>1, <2>3
<1> HIDE DEF v, open, c
<1> QED BY <1>4, <1>5, <1>6, <1>8, <1>9, <1>11, <1>12, <1>13, <1>14 DEF v, c

\* The buffers fit the schema whatever is written, and whether it is refused or not.
LEMMA FillCallFits ==
  ASSUME NEW s, NEW w, Fits(w, s), NEW map, NEW c, NEW strict
  PROVE  Fits(FillCall(w, map, c, strict), s)
<1> DEFINE r == map[c.at]
<1>1. Fits(Fails(w), s)
  BY FailsIs
<1>2. \A i, v : Fits(PushValue(w, i, v), s)
  BY <1>1, PushIs DEF PushValue
<1>3. \A is : Fits(PushNA(w, is), s) /\ Fits(Pad(w, is), s)
  BY PushIs DEF PushNA, Pad
<1> DEFINE v == FillCall(w, map, c, strict)
<1>4. CASE ~w.ok \/ ~Open(map, Front(c.at))
  <2>1. v = w
    BY <1>4 DEF FillCall
  <2> QED BY <2>1
<1>5. CASE w.ok /\ Open(map, Front(c.at)) /\ c.at \notin DOMAIN map
  <2>1. v = IF strict THEN Fails(w) ELSE w
    BY <1>5 DEF FillCall
  <2> QED BY <2>1, <1>1
<1>6. CASE w.ok /\ Open(map, Front(c.at)) /\ c.at \in DOMAIN map
  <2>1. \/ v = w
        \/ v = PushValue(w, r.start, c.value)
        \/ v = Pad(w, Span(r))
        \/ v = PushNA(w, Span(r))
        \/ v = Fails(w)
    BY <1>6 DEF FillCall
  <2> HIDE DEF v
  <2>2. Fits(v, s)
    BY <2>1, <1>1, <1>2, <1>3
  <2> QED BY <2>2 DEF v
<1> QED BY <1>4, <1>5, <1>6

\* A row leaves buffers that fit.
LEMMA FillRowFits ==
  ASSUME NEW s, NEW w0, Fits(w0, s), NEW row, RowFine(row), NEW strict
  PROVE  Fits(FillRow(w0, s, row, strict), s)
<1>1. CASE row.kind # "struct"
  BY <1>1, FailsIs DEF FillRow
<1>2. CASE row.kind = "struct"
  <2> DEFINE cs == Calls(row)
             n == Len(cs)
             F(k) == Filling(w0, s.map, cs, strict)[k]
             T == {k \in 0..n : Fits(F(k), s)}
             t == F(n)
  <2>1. n \in Nat
    BY <1>2, NestedAre DEF RowFine
  <2>2. F(0) = w0 /\ \A k \in 0..(n - 1) : F(k + 1) = FillCall(F(k), s.map, cs[k + 1], strict)
    BY <2>1, FillingIs
  <2> HIDE DEF F
  <2>3. 0 \in T
    BY <2>1, <2>2
  <2>4. \A k \in 0..(n - 1) : k \in T => k + 1 \in T
    <3> SUFFICES ASSUME NEW k \in 0..(n - 1), k \in T PROVE k + 1 \in T
      OBVIOUS
    <3>1. Fits(F(k + 1), s)
      BY <2>2, FillCallFits
    <3> QED BY <3>1, <2>1
  <2>5. n \in T
    <3> HIDE DEF T
    <3>1. \A k \in 0..n : k \in T
      BY <2>1, <2>3, <2>4, Climb
    <3> QED BY <3>1, <2>1
  <2>6. Fits(t, s)
    BY <2>5
  <2>7. FillRow(w0, s, row, strict) =
          IF t.ok THEN Writer(Pad(t, DOMAIN s.cols).columns, [i \in DOMAIN s.cols |-> FALSE]) ELSE t
    BY <1>2 DEF FillRow, F
  <2> HIDE DEF t
  <2>8. Fits(Pad(t, DOMAIN s.cols), s)
    BY <2>6, PushIs DEF Pad, PushNA
  <2>9. Fits(Writer(Pad(t, DOMAIN s.cols).columns, [i \in DOMAIN s.cols |-> FALSE]), s)
    BY <2>8 DEF Fits, Writer
  <2> QED BY <2>6, <2>7, <2>9
<1> QED BY <1>1, <1>2

\* A row that the filler takes.
RowOK(s, row, strict) ==
  row.kind = "struct" /\ \A j \in 1..Len(Calls(row)) : CallOK(s, Calls(row)[j], strict)

\* The cell of the column of a leaf for a row.
Cell(s, row, p) == CellOf(s.cols[s.map[p].start].type, At(row, p))

\* What a row that is taken leaves in the columns.
LEMMA FillRowIs ==
  ASSUME NEW s, Shaped(s), NEW w0, Ready(w0, s), NEW row, RowFine(row), NEW strict \in BOOLEAN
  PROVE  /\ FillRow(w0, s, row, strict).ok <=> RowOK(s, row, strict)
         /\ RowOK(s, row, strict) =>
              /\ Ready(FillRow(w0, s, row, strict), s)
              /\ \A p \in LeavesOf(s.map) :
                   FillRow(w0, s, row, strict).columns[s.map[p].start] =
                     Grown(w0.columns[s.map[p].start], Cell(s, row, p))
<1> DEFINE new == FillRow(w0, s, row, strict)
           L == LeavesOf(s.map)
<1>1. CASE row.kind # "struct"
  BY <1>1 DEF FillRow, RowOK, Fails
<1>2. CASE row.kind = "struct"
  <2> DEFINE cs == Calls(row)
             n == Len(cs)
             F(k) == Filling(w0, s.map, cs, strict)[k]
             T == {k \in 0..n : FInv(w0, s, row, strict, k, F(k))}
             t == F(n)
  <2>1. n \in Nat /\ Nested(cs)
    BY <1>2, NestedAre DEF RowFine
  <2>2. F(0) = w0 /\ \A k \in 0..(n - 1) : F(k + 1) = FillCall(F(k), s.map, cs[k + 1], strict)
    BY <2>1, FillingIs
  <2> HIDE DEF F
  <2>3. 0 \in T
    <3>1. FInv(w0, s, row, strict, 0, w0)
      <4>1. \A p \in L : ~Touched(cs, s.map, 0, p)
        BY TouchedNext
      <4>2. \A p \in L : ~w0.filled[s.map[p].start]
        BY LeavesIn DEF Ready
      <4>3. Fits(w0, s) /\ w0.ok
        BY DEF Ready
      <4> QED BY <4>1, <4>2, <4>3 DEF FInv
    <3> QED BY <3>1, <2>1, <2>2
  <2>4. \A k \in 0..(n - 1) : k \in T => k + 1 \in T
    <3> SUFFICES ASSUME NEW k \in 0..(n - 1), k \in T PROVE k + 1 \in T
      OBVIOUS
    <3>1. FInv(w0, s, row, strict, k, F(k))
      OBVIOUS
    <3>2. FInv(w0, s, row, strict, k + 1, FillCall(F(k), s.map, cs[k + 1], strict))
      BY <3>1, <2>1, FillCallOK
    <3>3. FInv(w0, s, row, strict, k + 1, F(k + 1))
      BY <3>2, <2>2
    <3> QED BY <3>3, <2>1
  <2>5. n \in T
    <3> HIDE DEF T
    <3>1. \A k \in 0..n : k \in T
      BY <2>1, <2>3, <2>4, Climb
    <3> QED BY <3>1, <2>1
  <2>6. FInv(w0, s, row, strict, n, t)
    BY <2>5
  <2> DEFINE fin == Pad(t, DOMAIN s.cols)
             out == Writer(fin.columns, [i \in DOMAIN s.cols |-> FALSE])
             is == {i \in DOMAIN s.cols : ~t.filled[i]}
  <2>7. new = IF t.ok THEN out ELSE t
    BY <1>2 DEF FillRow, F
  <2>70. fin = PushCell(t, is, NA)
    BY DEF Pad, PushNA
  <2> HIDE DEF t, F
  <2>8. t.ok <=> RowOK(s, row, strict)
    BY <2>6, <1>2 DEF FInv, RowOK
  <2>9. Fits(t, s)
    BY <2>6 DEF FInv
  <2>10. /\ Fits(fin, s)
         /\ \A i \in DOMAIN s.cols :
              /\ i \in is => fin.columns[i] = Grown(t.columns[i], NA)
              /\ i \notin is => fin.columns[i] = t.columns[i]
    <3> HIDE DEF fin, is
    <3> QED BY <2>9, <2>70, PushIs
  <2>11. out.columns = fin.columns /\ out.ok = TRUE /\ out.filled = [i \in DOMAIN s.cols |-> FALSE]
    BY DEF Writer
  <2> HIDE DEF fin, out
  <2>12. Ready(out, s)
    BY <2>10, <2>11 DEF Ready, Fits
  <2>13. ASSUME t.ok, NEW p \in L
         PROVE  out.columns[s.map[p].start] = Grown(w0.columns[s.map[p].start], Cell(s, row, p))
    <3> DEFINE i == s.map[p].start
    <3>1. i \in DOMAIN s.cols /\ p \in DOMAIN s.map
      BY LeavesIn
    <3>2. /\ Touched(cs, s.map, n, p) => t.columns[i] = Grown(w0.columns[i], Cell(s, row, p))
          /\ ~Touched(cs, s.map, n, p) => t.columns[i] = w0.columns[i]
          /\ t.filled[i] <=> Touched(cs, s.map, n, p)
      BY <2>6, <2>13 DEF FInv, Cell
    <3>3. ~Touched(cs, s.map, n, p) => Cell(s, row, p) = NA
      BY <3>1, <2>1, Untouched, CellOfNA DEF Cell
    <3>4. /\ i \in is => out.columns[i] = Grown(t.columns[i], NA)
          /\ i \notin is => out.columns[i] = t.columns[i]
          /\ i \in is <=> ~t.filled[i]
      BY <2>10, <2>11, <3>1
    <3> HIDE DEF i, is
    <3>5. out.columns[i] = Grown(w0.columns[i], Cell(s, row, p))
      BY <3>2, <3>3, <3>4
    <3> QED BY <3>5 DEF i
  <2> HIDE DEF new, is
  <2>14. new.ok <=> t.ok
    BY <2>7, <2>11
  <2>15. t.ok => new = out
    BY <2>7
  <2> QED BY <2>8, <2>12, <2>13, <2>14, <2>15 DEF new
<1> QED BY <1>1, <1>2

\* The cell that a row leaves in the column of one leaf.
LEMMA FillRowCell ==
  ASSUME NEW s, Shaped(s), NEW w0, Ready(w0, s), NEW row, RowFine(row), NEW strict \in BOOLEAN,
         RowOK(s, row, strict), NEW p \in LeavesOf(s.map)
  PROVE  FillRow(w0, s, row, strict).columns[s.map[p].start] =
           Grown(w0.columns[s.map[p].start], Cell(s, row, p))
  BY FillRowIs

-----------------------------------------------------------------------------
(* Writing rows.                                                            *)

\* The empty sequence, as a function.
LEMMA EmptyIs == \A f : <<>> = [i \in 1..0 |-> f[i]]
<1>1. <<>> \in Seq({}) /\ Len(<<>>) = 0
  BY EmptySeq
<1>2. DOMAIN <<>> = 1..0
  BY <1>1, LenProperties
<1>3. 1..0 = {}
  OBVIOUS
<1>4. <<>> = [i \in 1..0 |-> <<>>[i]]
  BY <1>1, LenProperties
<1> QED BY <1>3, <1>4

\* New buffers fit, and are empty.
LEMMA NewWriterReady ==
  ASSUME NEW s
  PROVE  /\ Ready(NewWriter(s), s)
         /\ \A i \in DOMAIN s.cols : NewWriter(s).columns[i].cells = <<>>
<1> DEFINE D == DOMAIN s.cols
           w == NewWriter(s)
<1>1. /\ w.columns = [i \in D |-> [type |-> s.cols[i].type, cells |-> <<>>]]
      /\ w.filled = [i \in D |-> FALSE] /\ w.ok = TRUE
  BY DEF NewWriter, Writer, Buffers
<1> HIDE DEF w
<1>2. \A i \in D : w.columns[i].cells = <<>>
  BY <1>1
<1>3. w.columns = [i \in D |-> [type |-> s.cols[i].type, cells |-> w.columns[i].cells]]
  <2> DEFINE f == w.columns
  <2>1. f = [i \in D |-> [type |-> s.cols[i].type, cells |-> <<>>]] /\ \A i \in D : f[i].cells = <<>>
    BY <1>1, <1>2
  <2> HIDE DEF f
  <2>2. f = [i \in D |-> [type |-> s.cols[i].type, cells |-> f[i].cells]]
    BY <2>1
  <2> QED BY <2>2 DEF f
<1> QED BY <1>1, <1>2, <1>3 DEF Ready, Fits, w

\* What the column of a leaf has to hold.
CellsFor(s, rows, p) == [j \in 1..Len(rows) |-> Cell(s, rows[j], p)]

\* Rows written to new buffers: they are taken when each of them is, and the columns hold
\* what they have to.
LEMMA FillRowsIs ==
  ASSUME NEW s, Shaped(s), NEW rows, RowsFine(rows), NEW strict \in BOOLEAN
  PROVE  /\ Fits(FillRows(NewWriter(s), s, rows, strict), s)
         /\ FillRows(NewWriter(s), s, rows, strict).ok <=> \A j \in 1..Len(rows) : RowOK(s, rows[j], strict)
         /\ FillRows(NewWriter(s), s, rows, strict).ok => \A p \in LeavesOf(s.map) :
              FillRows(NewWriter(s), s, rows, strict).columns[s.map[p].start].cells = CellsFor(s, rows, p)
<1> DEFINE n == Len(rows)
           w0 == NewWriter(s)
           L == LeavesOf(s.map)
           F(j) == FillingRows(w0, s, rows, strict)[j]
           Holds(j, w) == \A p \in L : w.columns[s.map[p].start].cells = [i \in 1..j |-> Cell(s, rows[i], p)]
           T == {j \in 0..n : /\ Fits(F(j), s)
                              /\ F(j).ok <=> \A i \in 1..j : RowOK(s, rows[i], strict)
                              /\ F(j).ok => Ready(F(j), s) /\ Holds(j, F(j))}
<1>1. n \in Nat /\ \A j \in 1..n : RowFine(rows[j])
  BY DEF RowsFine
<1>2. /\ F(0) = w0
      /\ \A j \in 0..(n - 1) : F(j + 1) = IF F(j).ok THEN FillRow(F(j), s, rows[j + 1], strict) ELSE F(j)
  BY <1>1, FillingRowsIs
<1> HIDE DEF F
<1>3. 0 \in T
  <2>1. Ready(w0, s) /\ \A i \in DOMAIN s.cols : w0.columns[i].cells = <<>>
    BY NewWriterReady
  <2> HIDE DEF w0
  <2>2. \A p \in L : w0.columns[s.map[p].start].cells = <<>>
    BY <2>1, LeavesIn
  <2>3. \A p : <<>> = [i \in 1..0 |-> Cell(s, rows[i], p)]
    <3> TAKE p
    <3> DEFINE f == [i \in 1..0 |-> Cell(s, rows[i], p)]
    <3>1. <<>> = [i \in 1..0 |-> f[i]]
      BY EmptyIs
    <3> QED BY <3>1
  <2>4. Fits(w0, s) /\ w0.ok
    BY <2>1 DEF Ready
  <2> QED BY <2>1, <2>2, <2>3, <2>4, <1>1, <1>2
<1>4. \A j \in 0..(n - 1) : j \in T => j + 1 \in T
  <2> SUFFICES ASSUME NEW j \in 0..(n - 1), j \in T PROVE j + 1 \in T
    OBVIOUS
  <2> DEFINE A == F(j)
             B == F(j + 1)
             row == rows[j + 1]
  <2>1. j + 1 \in 1..n /\ j + 1 \in 0..n /\ 1..(j + 1) = 1..j \cup {j + 1} /\ j \in Nat
    BY <1>1
  <2>2. /\ Fits(A, s)
        /\ A.ok <=> \A i \in 1..j : RowOK(s, rows[i], strict)
        /\ A.ok => Ready(A, s) /\ Holds(j, A)
    OBVIOUS
  <2>3. RowFine(row)
    BY <2>1, <1>1
  <2>4. B = IF A.ok THEN FillRow(A, s, row, strict) ELSE A
    BY <1>2
  <2> HIDE DEF A, B, row
  <2>5. CASE ~A.ok
    <3>1. B = A
      BY <2>4, <2>5
    <3>2. ~B.ok /\ Fits(B, s) /\ ~(\A i \in 1..(j + 1) : RowOK(s, rows[i], strict))
      BY <3>1, <2>1, <2>2, <2>5
    <3> QED BY <3>2, <2>1 DEF B
  <2>6. CASE A.ok
    <3>1. B = FillRow(A, s, row, strict)
      BY <2>4, <2>6
    <3>2. Fits(B, s)
      BY <3>1, <2>2, <2>3, FillRowFits
    <3>3. /\ B.ok <=> RowOK(s, row, strict)
          /\ B.ok => Ready(B, s)
      BY <3>1, <2>2, <2>3, <2>6, FillRowIs
    <3>4. B.ok <=> \A i \in 1..(j + 1) : RowOK(s, rows[i], strict)
      BY <3>3, <2>1, <2>2, <2>6 DEF row
    <3>5. ASSUME B.ok PROVE Holds(j + 1, B)
      <4> SUFFICES ASSUME NEW p \in L
                   PROVE  B.columns[s.map[p].start].cells = [i \in 1..(j + 1) |-> Cell(s, rows[i], p)]
        OBVIOUS
      <4> DEFINE c == A.columns[s.map[p].start]
                 x == Cell(s, row, p)
      <4>1. B.columns[s.map[p].start] = Grown(c, x)
        BY <3>1, <3>3, <3>5, <2>2, <2>3, <2>6, FillRowIs
      <4>2. c.cells = [i \in 1..j |-> Cell(s, rows[i], p)]
        BY <2>2, <2>6
      <4>3. B.columns[s.map[p].start].cells = Append(c.cells, x)
        <5> DEFINE y == B.columns[s.map[p].start]
        <5>1. y = [type |-> c.type, cells |-> Append(c.cells, x)]
          BY <4>1 DEF Grown
        <5> HIDE DEF c, x, y
        <5>2. y.cells = Append(c.cells, x)
          BY <5>1
        <5> QED BY <5>2 DEF y
      <4> HIDE DEF c
      <4> DEFINE f == c.cells
      <4>4. f = [i \in 1..j |-> f[i]]
        BY <4>2
      <4>5. Append(f, x) = [i \in 1..j + 1 |-> IF i = j + 1 THEN x ELSE f[i]]
        <5> HIDE DEF f, x
        <5> QED BY <4>4, <2>1, AppendIs
      <4>6. \A i \in 1..(j + 1) : (IF i = j + 1 THEN x ELSE f[i]) = Cell(s, rows[i], p)
        BY <4>2, <2>1 DEF row
      <4> HIDE DEF x, f
      <4>7. Append(f, x) = [i \in 1..(j + 1) |-> Cell(s, rows[i], p)]
        BY <4>5, <4>6
      <4> QED BY <4>3, <4>7 DEF f
    <3> HIDE DEF Holds
    <3> QED BY <3>2, <3>3, <3>4, <3>5, <2>1 DEF B
  <2> QED BY <2>5, <2>6
<1>5. n \in T
  <2> HIDE DEF T
  <2>1. \A j \in 0..n : j \in T
    BY <1>1, <1>3, <1>4, Climb
  <2> QED BY <1>1, <2>1
<1> DEFINE w == FillRows(w0, s, rows, strict)
<1>6. w = F(n)
  BY DEF FillRows, F
<1>7. /\ Fits(w, s)
      /\ w.ok <=> \A i \in 1..n : RowOK(s, rows[i], strict)
      /\ w.ok => Holds(n, w)
  BY <1>5, <1>6
<1> QED BY <1>7 DEF CellsFor

-----------------------------------------------------------------------------
(* The builder.                                                             *)

\* The column of a declared name.
DeclaredMap(p) == CHOOSE i \in DOMAIN Declared : <<Declared[i].name>> = p

\* The schema of with_schema has the right shape.
LEMMA DeclaredShaped == Shaped(DeclaredSchema)
<1> DEFINE n == Len(Declared)
           map == DeclaredSchema.map
           P == {<<Declared[i].name>> : i \in 1..n}
<1>1. /\ Declared \in Seq(Cols) /\ n \in Nat /\ DOMAIN Declared = 1..n
      /\ \A i, j \in 1..n : Declared[i].name = Declared[j].name => i = j
  BY DeclaredAssumption, LenProperties DEF Cols, Types
<1>2. \A i \in 1..n : Declared[i].name \in Names
  <2> TAKE i \in 1..n
  <2>1. Declared[i] \in Cols
    BY <1>1, ElementOfSeq
  <2> QED BY <2>1 DEF Cols
<1>3. DeclaredSchema.cols = Declared /\ map = [p \in P |-> Route(DeclaredMap(p), 1, FALSE)]
  BY <1>1 DEF DeclaredSchema, DeclaredMap
<1> HIDE DEF map
<1>4. ASSUME NEW i \in 1..n
      PROVE  /\ <<Declared[i].name>> \in P /\ <<Declared[i].name>> \in Paths
             /\ map[<<Declared[i].name>>] \in Routes
             /\ map[<<Declared[i].name>>].start = i
             /\ map[<<Declared[i].name>>].count = 1
             /\ ~map[<<Declared[i].name>>].sub
             /\ FlattenSeq(<<Declared[i].name>>) = Declared[i].name
  <2> DEFINE k == Declared[i].name
             p == <<k>>
             x == DeclaredMap(p)
  <2>1. p \in Paths /\ Len(p) = 1 /\ p[1] = k
    BY <1>2, OnePath
  <2>2. x \in 1..n /\ <<Declared[x].name>> = p
    BY <1>1 DEF DeclaredMap
  <2>3. x = i
    <3>1. Declared[x].name = k
      BY <2>2
    <3> HIDE DEF x
    <3> QED BY <3>1, <2>2, <1>1
  <2>4. map[p] = Route(i, 1, FALSE)
    BY <2>3, <1>3
  <2>5. i \in Int /\ 1 \in Nat
    OBVIOUS
  <2>6. map[p] \in Routes /\ map[p].start = i /\ map[p].count = 1 /\ ~map[p].sub
    <3> DEFINE r == Route(i, 1, FALSE)
    <3>1. r \in Routes /\ r.start = i /\ r.count = 1 /\ ~r.sub
      BY <2>5, RouteIs
    <3> HIDE DEF p, r
    <3>2. map[p] = r
      BY <2>4 DEF r
    <3> QED BY <3>1, <3>2
  <2>7. FlattenSeq(p) = k
    BY <2>1, FlattenIs
  <2> QED BY <2>1, <2>6, <2>7
<1>5. DOMAIN map = P /\ \A p \in P : \E i \in 1..n : p = <<Declared[i].name>>
  BY <1>3
<1>6. LeavesOf(map) = P
  BY <1>4, <1>5 DEF LeavesOf
<1>7. InRange(Declared, map, 1)
  <2>1. ASSUME NEW p \in P
        PROVE  p \in Paths /\ map[p] \in Routes /\ 1 <= map[p].start /\ map[p].start + map[p].count <= 1 + n
    <3>1. PICK i \in 1..n : p = <<Declared[i].name>>
      BY <1>5
    <3>2. p \in Paths /\ map[p] \in Routes /\ map[p].start = i /\ map[p].count = 1
      BY <3>1, <1>4
    <3>3. 1 <= i /\ i + 1 <= 1 + n
      <4> HIDE DEF n
      <4> QED BY <1>1
    <3> QED BY <3>2, <3>3
  <2>2. 1 \in Int /\ P \subseteq Paths
    BY <2>1
  <2> QED BY <2>1, <2>2, <1>1, <1>5 DEF InRange
<1>8. ParentsIn(map)
  <2> SUFFICES ASSUME NEW p \in P, Len(p) > 1 PROVE FALSE
    BY <1>5 DEF ParentsIn
  <2>1. PICK i \in 1..n : p = <<Declared[i].name>>
    BY <1>5
  <2> QED BY <2>1, <1>2, OnePath
<1>9. LeavesFit(Declared, map, 1)
  <2>1. ASSUME NEW p \in P
        PROVE  map[p].count = 1 /\ Declared[map[p].start - 1 + 1].name = FlattenSeq(p)
    <3>1. PICK i \in 1..n : p = <<Declared[i].name>>
      BY <1>5
    <3>2. map[p].start = i /\ map[p].count = 1 /\ FlattenSeq(p) = Declared[i].name
      BY <3>1, <1>4
    <3>3. i - 1 + 1 = i
      OBVIOUS
    <3> QED BY <3>2, <3>3
  <2>2. ASSUME NEW i \in 1..n PROVE \E p \in P : map[p].start = 1 + i - 1
    <3>1. 1 + i - 1 = i
      OBVIOUS
    <3> QED BY <3>1, <1>4
  <2>3. ASSUME NEW p \in P, NEW q \in P, map[p].start = map[q].start PROVE p = q
    <3>1. PICK i \in 1..n : p = <<Declared[i].name>>
      BY <1>5
    <3>2. PICK j \in 1..n : q = <<Declared[j].name>>
      BY <1>5
    <3>3. map[p].start = i /\ map[q].start = j
      BY <3>1, <3>2, <1>4
    <3> QED BY <3>1, <3>2, <3>3, <2>3
  <2> QED BY <2>1, <2>2, <2>3, <1>6 DEF LeavesFit
<1>10. Spans(map)
  BY <1>5, <1>6 DEF Spans
<1> QED BY <1>3, <1>7, <1>8, <1>9, <1>10 DEF Shaped, Sound, map

\* A column for a key that is new.
LEMMA GrowShaped ==
  ASSUME NEW s, Shaped(s), NEW c \in Cols, <<c.name>> \notin DOMAIN s.map,
         NEW r \in Routes, r.start = 1 + Len(s.cols), r.count = 1, ~r.sub, NEW t,
         t.cols = Append(s.cols, c), t.map = Entered(<<c.name>>, r, s.map)
  PROVE  /\ Shaped(t)
         /\ LeavesOf(t.map) = LeavesOf(s.map) \cup {<<c.name>>}
         /\ t.map[<<c.name>>].start = 1 + Len(s.cols)
<1> DEFINE n == Len(s.cols)
           k == c.name
           p == <<k>>
           new == t.cols
           m == t.map
<1>1. /\ InRange(s.cols, s.map, 1) /\ ParentsIn(s.map) /\ LeavesFit(s.cols, s.map, 1) /\ Spans(s.map)
      /\ s.cols \in Seq(Cols) /\ n \in Nat /\ DOMAIN s.map \subseteq Paths
  BY LenProperties DEF Shaped, Sound, InRange
<1>2. p \in Paths /\ Len(p) = 1 /\ FlattenSeq(p) = k
  <2>1. k \in Names
    BY DEF Cols
  <2>2. p \in Paths /\ Len(p) = 1 /\ p[1] = k
    BY <2>1, OnePath
  <2> QED BY <2>2, FlattenIs
<1>3. r \in Routes /\ r.start = 1 + n /\ r.count = 1 /\ ~r.sub
  OBVIOUS
<1>4. InRange(new, m, 1) /\ LeavesFit(new, m, 1) /\ LeavesOf(m) = LeavesOf(s.map) \cup {p}
  <2> DEFINE mm == Entered(p, r, s.map)
             nn == Append(s.cols, c)
  <2>1. InRange(nn, mm, 1) /\ LeavesFit(nn, mm, 1) /\ LeavesOf(mm) = LeavesOf(s.map) \cup {p}
    <3>1. c.name = FlattenSeq(p) /\ p \notin DOMAIN s.map
      BY <1>2
    <3>2. InRange(s.cols, s.map, 1) /\ LeavesFit(s.cols, s.map, 1) /\ p \in Paths
      BY <1>1, <1>2
    <3>3. r \in Routes /\ r.start = 1 + Len(s.cols) /\ r.count = 1 /\ ~r.sub
      BY <1>3
    <3> HIDE DEF p, k, n
    <3> QED BY <3>1, <3>2, <3>3, EnterLeaf
  <2> QED BY <2>1
<1>5. /\ DOMAIN m = DOMAIN s.map \cup {p} /\ m[p] = r
      /\ \A q \in DOMAIN s.map : m[q] = s.map[q]
  BY DEF Entered, Joined
<1> HIDE DEF new, m
<1>7. ParentsIn(m)
  <2> SUFFICES ASSUME NEW q \in DOMAIN m, Len(q) > 1 PROVE Front(q) \in DOMAIN m /\ m[Front(q)].sub
    BY DEF ParentsIn
  <2>1. q \in DOMAIN s.map
    <3> HIDE DEF p
    <3> DEFINE l == Len(p)
    <3>1. q # p
      <4> SUFFICES ASSUME q = p PROVE FALSE
        OBVIOUS
      <4>1. l > 1 /\ l = 1
        BY <1>2
      <4> HIDE DEF l
      <4> QED BY <4>1
    <3> QED BY <3>1, <1>5
  <2>2. Front(q) \in DOMAIN s.map /\ s.map[Front(q)].sub
    BY <2>1, <1>1 DEF ParentsIn
  <2> QED BY <2>2, <1>5
<1>8. Spans(m)
  <2> SUFFICES ASSUME NEW q \in DOMAIN m \ LeavesOf(m), NEW u \in LeavesOf(m)
               PROVE  m[u].start \in Span(m[q]) <=> Above(q, u)
    BY DEF Spans
  <2>1. q \in DOMAIN s.map /\ q \notin LeavesOf(s.map) /\ m[q] = s.map[q] /\ q \in Paths
    BY <1>1, <1>4, <1>5
  <2>2. CASE u \in LeavesOf(s.map)
    <3>1. m[u] = s.map[u]
      BY <2>2, <1>5 DEF LeavesOf
    <3> QED BY <3>1, <2>1, <2>2, <1>1 DEF Spans
  <2>3. CASE u = p
    <3> DEFINE a == s.map[q].start
               b == s.map[q].count
    <3>1. a \in Int /\ b \in Nat /\ (b > 0 => a + b <= 1 + n)
      BY <2>1, <1>1 DEF InRange, Routes
    <3>2. 1 + n \notin a..(a + b - 1)
      <4> HIDE DEF a, b, n
      <4> QED BY <3>1, <1>1
    <3>3. m[u].start = 1 + n
      BY <2>3, <1>3, <1>5
    <3>4. ~Above(q, p)
      <4> HIDE DEF p
      <4>1. Above(q, p) => Len(p) > 1
        BY <2>1, <1>2, AboveOrder
      <4> QED BY <4>1, <1>2
    <3> QED BY <3>2, <3>3, <3>4, <2>1, <2>3 DEF Span
  <2> QED BY <2>2, <2>3, <1>4
<1> QED BY <1>3, <1>4, <1>5, <1>7, <1>8 DEF Shaped, Sound, new, m

\* No field that a filler is asked for is missing from the map.
Followed(s, row) ==
  \A j \in Fields(Calls(row)) : Open(s.map, Front(Calls(row)[j].at)) => Calls(row)[j].at \in DOMAIN s.map

\* A field of such a row that has the name of a column is the field of that column, unless
\* the column is a double: going down from the row to the field, the keys are in the map
\* until they leave the way to the column, and the first that does begins its name.
LEMMA NamedOnce ==
  ASSUME NEW s, Shaped(s), NEW row, Nested(Calls(row)), Followed(s, row),
         NEW p \in LeavesOf(s.map), ~Doubled(s, p),
         NEW k \in Fields(Calls(row)), FlattenSeq(Calls(row)[k].at) = FlattenSeq(p)
  PROVE  Calls(row)[k].at = p
<1> DEFINE cs == Calls(row)
           q == cs[k].at
           D == DOMAIN s.map
           Way == {x \in Paths : x = q \/ Above(x, q)}
<1>1. p \in Paths /\ p \in D /\ ~s.map[p].sub /\ D \subseteq Paths /\ ParentsIn(s.map)
  BY LeavesIn DEF Shaped, Sound
<1>2. q \in Paths /\ k \in 1..Len(cs)
  BY NestedAre DEF Fields
<1>3. \A u \in Way : \E j \in Fields(cs) : cs[j].at = u
  BY <1>2, NestedOrder
<1>4. \A u \in Paths : u = p \/ Above(u, p) <=> IsPrefix(u, p)
  <2>1. IsPrefix(p, p)
    <3>1. Len(p) <= Len(p)
      BY <1>1, FrontIs
    <3> QED BY <3>1 DEF IsPrefix
  <2> QED BY <2>1 DEF Above, IsStrictPrefix
<1>5. ASSUME NEW u \in Way, u \in D
      PROVE  u = p \/ Above(u, p)
  <2>1. IsPrefix(FlattenSeq(u), FlattenSeq(q))
    <3>1. CASE u = q
      <4>1. Len(FlattenSeq(q)) \in Nat
        BY <1>2, FlattenIs, LenProperties DEF Names
      <4> QED BY <3>1, <4>1 DEF IsPrefix
    <3>2. CASE Above(u, q)
      BY <3>2, <1>2, NameGoesOn
    <3> QED BY <3>1, <3>2
  <2>2. IsPrefix(u, p)
    BY <2>1, <1>5 DEF Doubled
  <2> QED BY <2>2, <1>4
<1>6. ~Above(p, q) /\ ~Above(q, p)
  BY <1>1, <1>2, NameGoesOn
<1>7. ASSUME NEW u \in Way PROVE u \in D
  <2> SUFFICES ASSUME u \notin D PROVE FALSE
    OBVIOUS
  <2> DEFINE Missing == Way \ D
             T == {Len(v) : v \in Missing}
  <2>1. T \subseteq Nat /\ T # {}
    BY FrontIs
  <2>2. PICK v \in Missing : \A x \in Missing : Len(v) <= Len(x)
    <3>1. PICK n \in T : \A x \in T : n <= x
      <4> HIDE DEF T
      <4> QED BY <2>1, Least
    <3> QED BY <3>1
  <2>3. v \in Paths /\ v \in Way /\ v \notin D
    BY <2>2
  <2> DEFINE f == Front(v)
  <2>4. PICK j \in Fields(cs) : cs[j].at = v
    BY <2>3, <1>3
  <2>5. ~Open(s.map, f)
    BY <2>3, <2>4 DEF Followed
  <2>6. Len(v) > 1
    <3>1. Len(v) \in Nat /\ Len(v) >= 1 /\ (Len(v) = 1 => f = <<>>)
      BY <2>3, FrontIs
    <3> DEFINE n == Len(v)
    <3> HIDE DEF f, n
    <3>2. f # <<>>
      BY <2>5 DEF Open
    <3>3. n \in Nat /\ n >= 1 /\ n # 1
      BY <3>1, <3>2 DEF n
    <3>4. n > 1
      BY <3>3
    <3> QED BY <3>4 DEF n
  <2>7. f \in Paths /\ Len(f) < Len(v) /\ Len(f) \in Nat /\ Len(v) \in Nat /\ Above(f, v)
    <3>1. /\ f \in Paths /\ Len(f) = Len(v) - 1 /\ Len(v) \in Nat
          /\ \A i \in 1..(Len(v) - 1) : f[i] = v[i]
      BY <2>3, <2>6, FrontIs
    <3> HIDE DEF f
    <3>2. Len(f) \in Nat /\ Len(f) < Len(v) /\ \A i \in 1..Len(f) : f[i] = v[i]
      BY <3>1, <2>6
    <3>3. Above(f, v)
      BY <3>1, <3>2, <2>3, AboveIs DEF Above
    <3> QED BY <3>1, <3>2, <3>3
  <2> HIDE DEF f
  <2>8. f \in Way
    BY <2>3, <2>7, <1>2, AboveOrder
  <2>9. f \in D
    <3>1. f \notin D => Len(v) <= Len(f)
      BY <2>2, <2>8
    <3> QED BY <3>1, <2>7
  <2>10. f = p \/ Above(f, p)
    BY <2>8, <2>9, <1>5
  <2>11. f # p
    BY <2>7, <2>3, <1>1, <1>2, <1>6, AboveOrder
  <2>12. s.map[f].sub
    <3> DEFINE G == {x \in D : s.map[x].sub}
    <3>1. G \subseteq D /\ \A x \in D : Len(x) > 1 => Front(x) \in G
      BY <1>1 DEF ParentsIn
    <3> HIDE DEF G
    <3>2. f \in G
      BY <3>1, <1>1, <2>7, <2>10, <2>11, Ancestors
    <3> QED BY <3>2 DEF G
  <2> QED BY <2>5, <2>9, <2>12 DEF Open
<1>8. q \in Way
  BY <1>2
<1> QED BY <1>5, <1>6, <1>7, <1>8

\* The columns hold these rows, none counts as filled, and no key of a row, nor any other
\* field of it that a filler was asked for, is missing from the map.
Kept(s, w, rows) ==
  /\ \A i \in DOMAIN s.cols : ~w.filled[i]
  /\ \A p \in LeavesOf(s.map) : w.columns[s.map[p].start].cells = CellsFor(s, rows, p)
  /\ \A j \in 1..Len(rows) : \A k \in KeysOf(rows[j]) : <<k>> \in DOMAIN s.map
  /\ \A j \in 1..Len(rows) : Followed(s, rows[j])

\* The schema of the builder is right, the buffers are those of the schema, and until a
\* push is refused they hold the rows that were given.
Built(b) ==
  /\ Shaped(b.schema)
  /\ Fits(Writer(b.columns, b.filled), b.schema)
  /\ ~refused => Kept(b.schema, b, given)

\* The inductive invariant of SerdeRowBuilder.
IInv ==
  /\ table \in Tables
  /\ offered \in Seq(table.rows) /\ given \in Seq(table.rows)
  /\ schema = NoSchema => given = <<>>
  /\ \A j \in 1..Len(given) : given[j].kind = "struct"
  /\ Built(Builder)

\* The rows of a table are derived.
LEMMA RowsOfTable ==
  ASSUME NEW t \in Tables, NEW rows \in Seq(t.rows)
  PROVE  RowsFine(rows)
<1>1. Len(rows) \in Nat /\ \A j \in 1..Len(rows) : rows[j] \in t.rows
  BY LenProperties, ElementOfSeq
<1> QED BY <1>1, CallsAssumption DEF RowsFine, RowFine

\* So is each of them.
LEMMA RowOfTable ==
  ASSUME NEW t \in Tables, NEW row \in t.rows
  PROVE  RowFine(row) /\ RowsFine(<<row>>)
<1>1. <<row>> \in Seq(t.rows)
  <2> DEFINE S == t.rows
  <2>1. row \in S
    OBVIOUS
  <2> HIDE DEF S
  <2>2. <<row>> \in Seq(S)
    BY <2>1
  <2> QED BY <2>2 DEF S
<1> QED BY <1>1, RowsOfTable, CallsAssumption DEF RowFine

\* The writer on the buffers of a builder.
LEMMA WriterIs ==
  ASSUME NEW c, NEW f
  PROVE  Writer(c, f).columns = c /\ Writer(c, f).filled = f /\ Writer(c, f).ok
  BY DEF Writer

\* When the buffers of a builder fit its schema.
LEMMA WriterFits ==
  ASSUME NEW s, NEW c, NEW f
  PROVE  Fits(Writer(c, f), s) <=>
           /\ c = [i \in DOMAIN s.cols |-> [type |-> s.cols[i].type, cells |-> c[i].cells]]
           /\ f = [i \in DOMAIN s.cols |-> f[i]]
<1> DEFINE w == Writer(c, f)
<1>1. w.columns = c /\ w.filled = f
  BY WriterIs
<1> HIDE DEF w
<1> QED BY <1>1 DEF Fits, w

\* The fields of the builder.
LEMMA BuilderIs ==
  Builder.schema = schema /\ Builder.columns = columns /\ Builder.filled = filled
  BY DEF Builder

\* The absorption of one column keeps all this.
LEMMA AbsorbColumnBuilt ==
  ASSUME NEW b, Built(b), NEW c \in Cols, Len(given) \in Nat,
         \A j \in 1..Len(given) : given[j].kind = "struct" /\ RowFine(given[j])
  PROVE  Built(AbsorbColumn(b, c))
<1> DEFINE s == b.schema
           k == c.name
           p == <<k>>
           n == Len(s.cols)
           r == Route(n + 1, 1, FALSE)
           t == [cols |-> Append(s.cols, c), map |-> Entered(p, r, s.map)]
           cc == Append(b.columns, [type |-> c.type, cells |-> Backfill])
           ff == Append(b.filled, FALSE)
           new == AbsorbColumn(b, c)
<1>1. CASE p \in DOMAIN s.map
  <2>1. new = b
    BY <1>1 DEF AbsorbColumn
  <2> QED BY <2>1
<1>2. CASE p \notin DOMAIN s.map
  <2>1. new.schema = t /\ new.columns = cc /\ new.filled = ff
    BY <1>2 DEF AbsorbColumn
  <2>2. n \in Nat /\ DOMAIN s.cols = 1..n
    BY LeavesIn DEF Built, Kept
  <2>3. r \in Routes /\ r.start = 1 + n /\ r.count = 1 /\ ~r.sub
    <3> HIDE DEF n
    <3>1. n + 1 \in Int /\ 1 \in Nat /\ n + 1 = 1 + n
      BY <2>2
    <3>2. r \in Routes /\ r.start = n + 1 /\ r.count = 1 /\ ~r.sub
      BY <3>1, RouteIs
    <3> HIDE DEF r
    <3> QED BY <3>1, <3>2
  <2>4. t.cols = Append(s.cols, c) /\ t.map = Entered(p, r, s.map)
    OBVIOUS
  <2> HIDE DEF r, t
  <2>5. /\ Shaped(t)
        /\ LeavesOf(t.map) = LeavesOf(s.map) \cup {p}
        /\ DOMAIN t.map = DOMAIN s.map \cup {p}
        /\ t.map[p].start = 1 + n
        /\ \A q \in DOMAIN s.map : t.map[q] = s.map[q]
        /\ \A i \in 1..n : t.cols[i] = s.cols[i]
        /\ t.cols[n + 1] = c /\ Len(t.cols) = n + 1
    <3>1. Shaped(s)
      BY DEF Built, Kept
    <3>2. /\ Shaped(t)
          /\ LeavesOf(t.map) = LeavesOf(s.map) \cup {p}
          /\ t.map[p].start = 1 + n
      <4>1. Len(s.cols) = n
        OBVIOUS
      <4>2. p = <<c.name>>
        OBVIOUS
      <4> HIDE DEF s, n, p
      <4>3. r \in Routes /\ r.start = 1 + Len(s.cols) /\ r.count = 1 /\ ~r.sub
        BY <4>1, <2>3
      <4>4. t.map = Entered(<<c.name>>, r, s.map) /\ <<c.name>> \notin DOMAIN s.map
        BY <4>2, <2>4, <1>2
      <4>5. Shaped(t) /\ LeavesOf(t.map) = LeavesOf(s.map) \cup {<<c.name>>}
        BY <4>3, <4>4, <3>1, <2>4, GrowShaped
      <4>6. t.map[<<c.name>>].start = 1 + Len(s.cols)
        BY <4>3, <4>4, <3>1, <2>4, GrowShaped
      <4> QED BY <4>1, <4>2, <4>5, <4>6
    <3>3. DOMAIN t.map = DOMAIN s.map \cup {p} /\ \A q \in DOMAIN s.map : t.map[q] = s.map[q]
      BY <2>4, <1>2 DEF Entered, Joined
    <3>4. s.cols \in Seq(Cols)
      BY <3>1 DEF Shaped, Sound, InRange
    <3>5. /\ \A i \in 1..n : t.cols[i] = s.cols[i]
          /\ t.cols[n + 1] = c /\ Len(t.cols) = n + 1
      BY <3>4, <2>4, ColumnAppended
    <3> QED BY <3>2, <3>3, <3>5
  <2>6. DOMAIN t.cols = 1..(n + 1) /\ 1..(n + 1) = 1..n \cup {n + 1} /\ 1 + n = n + 1
    <3>1. DOMAIN t.cols = 1..Len(t.cols)
      BY <2>5, LeavesIn
    <3> HIDE DEF n
    <3> QED BY <3>1, <2>2, <2>5
  <2>7. /\ b.columns = [i \in 1..n |-> [type |-> s.cols[i].type, cells |-> b.columns[i].cells]]
        /\ b.filled = [i \in 1..n |-> b.filled[i]]
    <3> DEFINE D == DOMAIN s.cols
               x == b.columns
               y == b.filled
    <3>1. Fits(Writer(x, y), s)
      BY DEF Built, Kept
    <3>2. x = [i \in D |-> [type |-> s.cols[i].type, cells |-> x[i].cells]] /\ y = [i \in D |-> y[i]]
      <4> HIDE DEF x, y, s
      <4> QED BY <3>1, WriterFits
    <3>3. D = 1..n
      BY <2>2
    <3> HIDE DEF D, x, y
    <3> QED BY <3>2, <3>3 DEF x, y
  <2>8. /\ DOMAIN b.columns = 1..n
        /\ \A i \in 1..n : b.columns[i] = [type |-> s.cols[i].type, cells |-> b.columns[i].cells]
    <3> DEFINE f == b.columns
    <3>1. f = [i \in 1..n |-> [type |-> s.cols[i].type, cells |-> f[i].cells]]
      BY <2>7
    <3> HIDE DEF f
    <3> QED BY <3>1 DEF f
  <2> DEFINE e == [type |-> c.type, cells |-> Backfill]
  <2>9. cc = [i \in 1..n + 1 |-> IF i = n + 1 THEN e ELSE b.columns[i]]
    <3> DEFINE f == b.columns
    <3>1. f = [i \in 1..n |-> [type |-> s.cols[i].type, cells |-> f[i].cells]]
      BY <2>7
    <3> HIDE DEF f
    <3>2. f = [i \in 1..n |-> f[i]]
      BY <3>1
    <3> HIDE DEF n, e
    <3>3. Append(f, e) = [i \in 1..n + 1 |-> IF i = n + 1 THEN e ELSE f[i]]
      BY <3>2, <2>2, AppendIs
    <3> QED BY <3>3 DEF f, e
  <2>10. /\ ff = [i \in 1..(n + 1) |-> ff[i]]
         /\ (\A i \in 1..n : ~b.filled[i]) => \A i \in 1..(n + 1) : ~ff[i]
    <3> DEFINE no == FALSE
               f == b.filled
    <3>1. ~no /\ ff = Append(f, no)
      OBVIOUS
    <3>2. f = [i \in 1..n |-> f[i]]
      BY <2>7
    <3> HIDE DEF no, f, n, ff
    <3>3. ff = [i \in 1..n + 1 |-> IF i = n + 1 THEN no ELSE f[i]]
      BY <3>1, <3>2, <2>2, AppendIs
    <3>4. ff = [i \in 1..(n + 1) |-> ff[i]] /\ \A i \in 1..(n + 1) : ff[i] = IF i = n + 1 THEN no ELSE f[i]
      BY <3>3
    <3>5. (\A i \in 1..n : ~f[i]) => \A i \in 1..(n + 1) : ~ff[i]
      BY <3>1, <3>4, <2>6
    <3> QED BY <3>4, <3>5 DEF f
  <2> HIDE DEF cc, ff, new
  <2>11. /\ \A i \in 1..n : cc[i] = b.columns[i]
         /\ cc[n + 1] = e /\ DOMAIN cc = 1..(n + 1)
    <3> HIDE DEF e, n
    <3> QED BY <2>9, <2>6, <2>2
  <2>12. \A i \in 1..(n + 1) : cc[i] = [type |-> t.cols[i].type, cells |-> cc[i].cells]
    <3> TAKE i \in 1..(n + 1)
    <3>1. CASE i \in 1..n
      BY <3>1, <2>5, <2>8, <2>11
    <3>2. CASE i = n + 1
      <4>1. cc[i] = [type |-> c.type, cells |-> Backfill] /\ t.cols[i] = c
        BY <3>2, <2>5, <2>11
      <4> QED BY <4>1
    <3> QED BY <3>1, <3>2, <2>6
  <2>13. Fits(Writer(cc, ff), t)
    <3>1. cc = [i \in 1..(n + 1) |-> [type |-> t.cols[i].type, cells |-> cc[i].cells]]
      <4>1. cc = [i \in 1..(n + 1) |-> cc[i]]
        BY <2>9
      <4> HIDE DEF n
      <4> QED BY <4>1, <2>12
    <3> HIDE DEF n
    <3> QED BY <3>1, <2>6, <2>10, WriterFits
  <2>14. ASSUME ~refused
         PROVE  /\ \A i \in DOMAIN t.cols : ~ff[i]
                /\ \A q \in LeavesOf(t.map) : cc[t.map[q].start].cells = CellsFor(t, given, q)
                /\ \A j \in 1..Len(given) : \A x \in KeysOf(given[j]) : <<x>> \in DOMAIN t.map
                /\ \A j \in 1..Len(given) : Followed(t, given[j])
    <3>1. \A i \in DOMAIN t.cols : ~ff[i]
      BY <2>2, <2>6, <2>10, <2>14 DEF Built, Kept
    <3>2. \A j \in 1..Len(given) : \A x \in KeysOf(given[j]) : <<x>> \in DOMAIN s.map
      BY <2>14 DEF Built, Kept
    <3>3. ASSUME NEW q \in LeavesOf(s.map)
          PROVE  cc[t.map[q].start].cells = CellsFor(t, given, q)
      <4> DEFINE i == s.map[q].start
      <4>1. i \in 1..n /\ q \in DOMAIN s.map
        BY <2>2, LeavesIn DEF Built, Kept
      <4>2. t.map[q] = s.map[q] /\ t.cols[i] = s.cols[i] /\ cc[i] = b.columns[i]
        BY <4>1, <2>5, <2>11
      <4>3. b.columns[i].cells = CellsFor(s, given, q)
        BY <2>14 DEF Built, Kept
      <4>4. CellsFor(t, given, q) = CellsFor(s, given, q)
        BY <4>2 DEF CellsFor, Cell
      <4> QED BY <4>2, <4>3, <4>4
    <3>4. cc[t.map[p].start].cells = CellsFor(t, given, p)
      <4>1. cc[t.map[p].start].cells = Backfill
        BY <2>5, <2>6, <2>11
      <4>2. ASSUME NEW j \in 1..Len(given) PROVE Cell(t, given[j], p) = NA
        <5> DEFINE row == given[j]
                   cs == Calls(row)
        <5>1. Nested(cs) /\ KeysOf(row) = Keys(cs)
          BY DEF RowFine, KeysOf
        <5>2. \A i \in Fields(cs) : cs[i].at # p
          <6> SUFFICES ASSUME NEW i \in Fields(cs), cs[i].at = p PROVE FALSE
            OBVIOUS
          <6>1. Len(cs[i].at) = 1 /\ cs[i].at[1] = k
            OBVIOUS
          <6>2. k \in KeysOf(row)
            BY <5>1, <6>1 DEF Keys
          <6> QED BY <6>2, <3>2, <1>2
        <5>3. At(row, p) = NA
          <6> HIDE DEF p
          <6> QED BY <5>1, <5>2, AtIs
        <5> QED BY <5>3, CellOfNA DEF Cell
      <4>3. DOMAIN given = 1..Len(given)
        OBVIOUS
      <4>4. CellsFor(t, given, p) = Backfill
        BY <4>2, <4>3 DEF CellsFor, Backfill
      <4> QED BY <4>1, <4>4
    <3>5. \A j \in 1..Len(given) : \A x \in KeysOf(given[j]) : <<x>> \in DOMAIN t.map
      BY <3>2, <2>5
    <3>6. ~t.map[p].sub
      BY <2>5 DEF LeavesOf
    <3> HIDE DEF p
    <3>7. ASSUME NEW j \in 1..Len(given) PROVE Followed(t, given[j])
      <4>1. Followed(s, given[j])
        BY <2>14 DEF Built, Kept
      <4>2. \A u : Open(t.map, u) => Open(s.map, u)
        BY <3>6, <2>5 DEF Open
      <4>3. DOMAIN s.map \subseteq DOMAIN t.map
        BY <2>5
      <4> QED BY <4>1, <4>2, <4>3 DEF Followed
    <3> QED BY <3>1, <3>3, <3>4, <3>5, <3>7, <2>5
  <2> HIDE DEF p, n
  <2>15. Built(new)
    BY <2>1, <2>5, <2>13, <2>14 DEF Built, Kept
  <2> QED BY <2>15 DEF new
<1> QED BY <1>1, <1>2

\* absorb_new_fields keeps the builder as it should be, for any number of new columns.
LEMMA AbsorbBuilt ==
  ASSUME NEW row, RowFine(row), Built(Builder), Len(given) \in Nat,
         \A j \in 1..Len(given) : given[j].kind = "struct" /\ RowFine(given[j])
  PROVE  Built(Absorb(row))
<1> DEFINE cs == SchemaOf(<<row>>).cols
           n == Len(cs)
           T == {i \in 0..n : Built(Absorbing(cs)[i])}
<1>1. cs \in Seq(Cols)
  <2>1. RowsFine(<<row>>)
    BY OneIs DEF RowsFine
  <2>2. Shaped(SchemaOf(<<row>>))
    BY <2>1, SchemaOfShaped
  <2> QED BY <2>2 DEF Shaped, Sound, InRange
<1>2. n \in Nat /\ \A i \in 1..n : cs[i] \in Cols
  BY <1>1, LenProperties, ElementOfSeq
<1> HIDE DEF cs
<1>3. /\ Absorbing(cs)[0] = Builder
      /\ \A i \in 0..(n - 1) : Absorbing(cs)[i + 1] = AbsorbColumn(Absorbing(cs)[i], cs[i + 1])
  BY <1>2, AbsorbingIs
<1>4. 0 \in T
  BY <1>2, <1>3
<1>5. \A i \in 0..(n - 1) : i \in T => i + 1 \in T
  <2> SUFFICES ASSUME NEW i \in 0..(n - 1), i \in T PROVE i + 1 \in T
    OBVIOUS
  <2> DEFINE b == Absorbing(cs)[i]
             c == cs[i + 1]
  <2>1. i + 1 \in 1..n /\ i + 1 \in 0..n
    BY <1>2
  <2>2. Built(b) /\ c \in Cols /\ Absorbing(cs)[i + 1] = AbsorbColumn(b, c)
    BY <1>2, <1>3, <2>1
  <2> HIDE DEF b, c
  <2>3. Built(AbsorbColumn(b, c))
    BY <2>2, AbsorbColumnBuilt
  <2> QED BY <2>1, <2>2, <2>3
<1>6. n \in T
  <2> HIDE DEF T
  <2>1. \A i \in 0..n : i \in T
    BY <1>2, <1>4, <1>5, Climb
  <2> QED BY <1>2, <2>1
<1> QED BY <1>6 DEF Absorb, cs

\* A builder that has just got its schema is as it should be.
LEMMA FreshBuilt ==
  ASSUME NEW s, Shaped(s), given = <<>>
  PROVE  Built([schema |-> s, columns |-> Buffers(s), filled |-> NewWriter(s).filled])
<1> DEFINE b == [schema |-> s, columns |-> Buffers(s), filled |-> NewWriter(s).filled]
           w == NewWriter(s)
<1>1. w.columns = Buffers(s)
  BY DEF NewWriter, Writer
<1>2. b.schema = s /\ b.columns = w.columns /\ b.filled = w.filled
  BY <1>1
<1>3. Ready(w, s) /\ \A i \in DOMAIN s.cols : w.columns[i].cells = <<>>
  BY NewWriterReady
<1> HIDE DEF b, w
<1>4. Fits(Writer(w.columns, w.filled), s)
  BY <1>3 DEF Ready, Fits, Writer
<1>5. Len(given) = 0 /\ 1..0 = {}
  <2>1. Len(<<>>) = 0
    BY EmptySeq
  <2> QED BY <2>1
<1>6. \A p \in LeavesOf(s.map) : w.columns[s.map[p].start].cells = CellsFor(s, given, p)
  <2> TAKE p \in LeavesOf(s.map)
  <2> DEFINE f == [j \in 1..0 |-> Cell(s, given[j], p)]
  <2>1. CellsFor(s, given, p) = f
    BY <1>5 DEF CellsFor
  <2>2. f = <<>>
    <3>1. <<>> = [j \in 1..0 |-> f[j]]
      BY EmptyIs
    <3> QED BY <3>1
  <2>3. w.columns[s.map[p].start].cells = <<>>
    BY <1>3, LeavesIn
  <2> QED BY <2>1, <2>2, <2>3
<1>7. Built(b)
  BY <1>2, <1>3, <1>4, <1>5, <1>6 DEF Built, Kept, Ready
<1> QED BY <1>7 DEF b

\* After the first part of push the builder is as it should be: a new schema, a grown
\* one, or the old one.
LEMMA SettledBuilt ==
  ASSUME IInv, NEW row \in table.rows
  PROVE  Built(Settled(row))
<1>1. table \in Tables /\ given \in Seq(table.rows)
  BY DEF IInv
<1>2. RowFine(row) /\ RowsFine(<<row>>) /\ RowsFine(given)
  BY <1>1, RowsOfTable, RowOfTable
<1>3. CASE schema = NoSchema
  <2> DEFINE s == SchemaOf(<<row>>)
  <2>1. Shaped(s) /\ given = <<>>
    BY <1>2, <1>3, SchemaOfShaped DEF IInv
  <2>2. Settled(row) = [schema |-> s, columns |-> Buffers(s), filled |-> NewWriter(s).filled]
    BY <1>3 DEF Settled
  <2> HIDE DEF s
  <2> QED BY <2>1, <2>2, FreshBuilt
<1>4. CASE schema # NoSchema /\ growing
  <2>1. Settled(row) = Absorb(row)
    BY <1>4 DEF Settled
  <2>2. Len(given) \in Nat /\ \A j \in 1..Len(given) : given[j].kind = "struct" /\ RowFine(given[j])
    BY <1>2 DEF RowsFine, IInv
  <2>3. Built(Builder)
    BY DEF IInv
  <2> QED BY <1>2, <2>1, <2>2, <2>3, AbsorbBuilt
<1>5. CASE schema # NoSchema /\ ~growing
  <2>1. Settled(row) = Builder
    BY <1>5 DEF Settled
  <2> QED BY <2>1 DEF IInv
<1> QED BY <1>3, <1>4, <1>5

\* What a push makes of a builder that is as it should be.
LEMMA PushedIs ==
  ASSUME NEW b, Built(b), NEW row, RowFine(row), Listed(given), NEW w,
         w = FillRow(Writer(b.columns, b.filled), b.schema, row, TRUE)
  PROVE  /\ Shaped(b.schema)
         /\ Fits(Writer(w.columns, w.filled), b.schema)
         /\ w.ok => row.kind = "struct"
         /\ ~refused /\ w.ok => Kept(b.schema, w, Append(given, row))
<1> DEFINE s == b.schema
           w0 == Writer(b.columns, b.filled)
           L == LeavesOf(s.map)
           n == Len(given)
           all == Append(given, row)
<1>1. Shaped(s) /\ Fits(w0, s)
  BY DEF Built, Kept
<1>2. w0.columns = b.columns /\ w0.filled = b.filled /\ w0.ok
  BY WriterIs
<1> HIDE DEF w0
<1>3. w = FillRow(w0, s, row, TRUE)
  BY DEF w0
<1>4. Fits(w, s)
  BY <1>1, <1>3, FillRowFits
<1>5. Fits(Writer(w.columns, w.filled), s)
  BY <1>4 DEF Fits, Writer
<1>6. w.ok => row.kind = "struct"
  <2> SUFFICES ASSUME row.kind # "struct" PROVE ~w.ok
    OBVIOUS
  <2>1. w = Fails(w0)
    BY <1>3 DEF FillRow
  <2>2. Fails(w0).ok = FALSE
    BY DEF Fails
  <2>3. ~Fails(w0).ok
    BY <2>2
  <2> QED BY <2>1, <2>3
<1>7. ASSUME ~refused, w.ok
      PROVE  /\ \A i \in DOMAIN s.cols : ~w.filled[i]
             /\ \A p \in L : w.columns[s.map[p].start].cells = CellsFor(s, all, p)
             /\ \A j \in 1..Len(all) : \A k \in KeysOf(all[j]) : <<k>> \in DOMAIN s.map
             /\ \A j \in 1..Len(all) : Followed(s, all[j])
  <2>1. Ready(w0, s)
    BY <1>1, <1>2, <1>7 DEF Ready, Built, Kept
  <2> DEFINE strict == TRUE
  <2>2. strict \in BOOLEAN /\ strict /\ w = FillRow(w0, s, row, strict)
    BY <1>3
  <2> HIDE DEF strict, s
  <2>3. RowOK(s, row, strict) /\ Ready(w, s)
    BY <1>1, <1>7, <2>1, <2>2, FillRowIs
  <2>4. ASSUME NEW p \in L
        PROVE  w.columns[s.map[p].start] = Grown(w0.columns[s.map[p].start], Cell(s, row, p))
    <3>1. p \in LeavesOf(s.map)
      OBVIOUS
    <3> HIDE DEF L
    <3> DEFINE v == FillRow(w0, s, row, strict)
    <3>2. v.columns[s.map[p].start] = Grown(w0.columns[s.map[p].start], Cell(s, row, p))
      BY <1>1, <2>1, <2>2, <2>3, <3>1, FillRowCell
    <3> HIDE DEF v
    <3> QED BY <3>2, <2>2 DEF v
  <2>5. n \in Nat /\ given = [j \in 1..n |-> given[j]]
    BY DEF Listed
  <2>6. all = [j \in 1..n + 1 |-> IF j = n + 1 THEN row ELSE given[j]] /\ Len(all) = n + 1
    <3> HIDE DEF n
    <3> QED BY <2>5, AppendIs
  <2>7. 1..(n + 1) = 1..n \cup {n + 1} /\ \A j \in 1..n : j # n + 1
    <3> HIDE DEF n
    <3> QED BY <2>5
  <2>8. /\ \A j \in 1..n : all[j] = given[j]
        /\ all[n + 1] = row
    <3> HIDE DEF n, all
    <3> QED BY <2>6, <2>7
  <2> HIDE DEF all
  <2>9. ASSUME NEW p \in L
        PROVE  w.columns[s.map[p].start].cells = CellsFor(s, all, p)
    <3> DEFINE c == w0.columns[s.map[p].start]
               x == Cell(s, row, p)
               y == w.columns[s.map[p].start]
               f == c.cells
    <3>1. y = Grown(c, x)
      BY <2>4
    <3>2. f = CellsFor(s, given, p)
      BY <1>2, <1>7 DEF Built, Kept, s
    <3> HIDE DEF x, y, c
    <3>3. y.cells = Append(f, x)
      BY <3>1 DEF Grown
    <3> HIDE DEF f, n
    <3>4. f = [j \in 1..n |-> Cell(s, given[j], p)]
      BY <3>2 DEF CellsFor, n
    <3>5. f = [j \in 1..n |-> f[j]]
      BY <3>4
    <3>6. Append(f, x) = [j \in 1..n + 1 |-> IF j = n + 1 THEN x ELSE f[j]]
      BY <3>5, <2>5, AppendIs
    <3>7. \A j \in 1..(n + 1) : (IF j = n + 1 THEN x ELSE f[j]) = Cell(s, all[j], p)
      BY <3>4, <2>7, <2>8 DEF x
    <3>8. Append(f, x) = [j \in 1..(n + 1) |-> Cell(s, all[j], p)]
      BY <3>6, <3>7
    <3>9. Append(f, x) = CellsFor(s, all, p)
      BY <3>8, <2>6 DEF CellsFor
    <3> QED BY <3>3, <3>9 DEF y
  <2>10. ASSUME NEW k \in KeysOf(row) PROVE <<k>> \in DOMAIN s.map
    <3> DEFINE cs == Calls(row)
    <3>1. row.kind = "struct" /\ Nested(cs)
      BY <1>6, <1>7 DEF RowFine
    <3>2. PICK j \in Fields(cs) : Len(cs[j].at) = 1 /\ k = cs[j].at[1]
      BY <3>1 DEF KeysOf, Keys
    <3>3. j \in 1..Len(cs) /\ cs[j].at \in Paths
      BY <3>1, NestedAre DEF Fields
    <3>4. cs[j].at = <<k>>
      BY <3>2, <3>3, PathOfOne
    <3>5. Open(s.map, Front(cs[j].at))
      BY <3>2, <3>3, FrontIs DEF Open
    <3>6. CallOK(s, cs[j], strict)
      BY <2>3, <3>3 DEF RowOK
    <3> QED BY <3>4, <3>5, <3>6, <2>2 DEF CallOK
  <2>11. \A j \in 1..n : \A k \in KeysOf(given[j]) : <<k>> \in DOMAIN s.map
    BY <1>7 DEF Built, Kept, s
  <2>12. \A j \in 1..Len(all) : \A k \in KeysOf(all[j]) : <<k>> \in DOMAIN s.map
    <3> HIDE DEF n
    <3> QED BY <2>6, <2>7, <2>8, <2>10, <2>11
  <2>13. \A i \in DOMAIN s.cols : ~w.filled[i]
    BY <2>3 DEF Ready
  <2>14. Followed(s, row)
    <3> DEFINE cs == Calls(row)
    <3>1. ASSUME NEW j \in Fields(cs), Open(s.map, Front(cs[j].at)) PROVE cs[j].at \in DOMAIN s.map
      <4>1. CallOK(s, cs[j], strict)
        BY <2>3 DEF RowOK, Fields
      <4> QED BY <4>1, <3>1, <2>2 DEF CallOK
    <3> QED BY <3>1 DEF Followed
  <2>15. \A j \in 1..n : Followed(s, given[j])
    BY <1>7 DEF Built, Kept, s
  <2>16. \A j \in 1..Len(all) : Followed(s, all[j])
    <3> HIDE DEF n
    <3> QED BY <2>6, <2>7, <2>8, <2>14, <2>15
  <2> QED BY <2>9, <2>12, <2>13, <2>16
<1>8. ~refused /\ w.ok => Kept(s, w, all)
  BY <1>7 DEF Kept
<1> QED BY <1>1, <1>5, <1>6, <1>8

\* new, with_schema and grow_schema make a builder as it should be.
LEMMA InitBuilt == Init => IInv
<1> SUFFICES ASSUME Init PROVE IInv
  OBVIOUS
<1>1. Shaped(schema)
  BY NoSchemaShaped, DeclaredShaped DEF Init
<1>2. given = <<>> /\ offered = <<>> /\ table \in Tables
  BY DEF Init
<1>3. <<>> \in Seq(table.rows) /\ Len(<<>>) = 0 /\ 1..0 = {}
  BY EmptySeq
<1>4. Built([schema |-> schema, columns |-> Buffers(schema), filled |-> NewWriter(schema).filled])
  BY <1>1, <1>2, FreshBuilt
<1>5. columns = Buffers(schema) /\ filled = NewWriter(schema).filled
  BY DEF Init, NewWriter, Writer
<1>6. Built(Builder)
  BY <1>4, <1>5 DEF Builder
<1> QED BY <1>2, <1>3, <1>6 DEF IInv

\* push keeps it so, whether the row is taken or refused.
LEMMA StepBuilt == IInv /\ [Next]_vars => IInv'
<1> SUFFICES ASSUME IInv, [Next]_vars PROVE IInv'
  OBVIOUS
<1>1. CASE UNCHANGED vars
  BY <1>1 DEF IInv, Built, Kept, Builder, vars
<1>2. ASSUME NEW row \in table.rows, Push(row)
      PROVE  IInv'
  <2> DEFINE b == Settled(row)
             w == FillRow(Writer(b.columns, b.filled), b.schema, row, TRUE)
             n == Len(given)
  <2>1. /\ table \in Tables /\ given \in Seq(table.rows) /\ offered \in Seq(table.rows)
        /\ \A j \in 1..n : given[j].kind = "struct"
    BY DEF IInv
  <2>2. RowFine(row) /\ Listed(given) /\ n \in Nat
    BY <2>1, RowOfTable, LenProperties DEF Listed
  <2>3. Built(b)
    BY SettledBuilt
  <2>4. offered' = Append(offered, row) /\ table' = table
    BY <1>2 DEF Push
  <2>5. offered' \in Seq(table'.rows)
    BY <2>1, <2>4, AppendProperties
  <2>6. CASE b.schema = NoSchema
    <3>1. UNCHANGED <<schema, columns, filled, given, refused>>
      BY <1>2, <2>6 DEF Push
    <3>2. Built(Builder)'
      <4>1. Built(Builder)
        BY DEF IInv
      <4> QED BY <3>1, <4>1 DEF Built, Kept, Builder
    <3> QED BY <2>1, <2>4, <2>5, <3>1, <3>2 DEF IInv
  <2>7. CASE b.schema # NoSchema
    <3>1. /\ schema' = b.schema /\ columns' = w.columns /\ filled' = w.filled
          /\ given' = IF w.ok THEN Append(given, row) ELSE given
          /\ refused' = (refused \/ ~w.ok)
      BY <1>2, <2>7 DEF Push
    <3>20. w = FillRow(Writer(b.columns, b.filled), b.schema, row, TRUE)
      OBVIOUS
    <3> HIDE DEF w, b
    <3>2. /\ Shaped(b.schema)
          /\ Fits(Writer(w.columns, w.filled), b.schema)
          /\ w.ok => row.kind = "struct"
      BY <2>2, <2>3, <3>20, PushedIs
    <3>3. ~refused' => Kept(b.schema, w, given')
      <4>1. ~refused' => ~refused /\ w.ok /\ given' = Append(given, row)
        BY <3>1
      <4>2. ~refused /\ w.ok => Kept(b.schema, w, Append(given, row))
        BY <2>2, <2>3, <3>20, PushedIs
      <4> QED BY <4>1, <4>2
    <3>4. Built(Builder)'
      BY <3>1, <3>2, <3>3 DEF Built, Builder, Kept
    <3>5. given' \in Seq(table.rows) /\ \A j \in 1..Len(given') : given'[j].kind = "struct"
      <4>1. CASE w.ok
        <5> DEFINE g == Append(given, row)
        <5>1. g \in Seq(table.rows) /\ Len(g) = n + 1 /\ (\A j \in 1..n : g[j] = given[j]) /\ g[n + 1] = row
          BY <2>1, AppendProperties
        <5>2. 1..(n + 1) = 1..n \cup {n + 1}
          <6> HIDE DEF n
          <6> QED BY <2>2
        <5>3. given' = g
          BY <3>1, <4>1
        <5> HIDE DEF g, n
        <5> QED BY <5>1, <5>2, <5>3, <2>1, <3>2, <4>1
      <4>2. CASE ~w.ok
        BY <4>2, <2>1, <3>1
      <4> QED BY <4>1, <4>2
    <3> QED BY <2>1, <2>4, <2>5, <2>7, <3>1, <3>4, <3>5 DEF IInv
  <2> QED BY <2>6, <2>7
<1> QED BY <1>1, <1>2 DEF Next

\* The invariant holds whatever is pushed.
LEMMA BuiltInvariant == Spec => []IInv
  BY InitBuilt, StepBuilt, PTL DEF Spec

\* The invariant gives both properties, also for all rows converted at once.
LEMMA BuiltIsRight == IInv => SchemaOK /\ CellsAreRight
<1> SUFFICES ASSUME IInv PROVE SchemaOK /\ CellsAreRight
  OBVIOUS
<1>1. /\ table \in Tables /\ offered \in Seq(table.rows) /\ given \in Seq(table.rows)
      /\ Shaped(schema) /\ Fits(Writer(columns, filled), schema)
      /\ ~refused => /\ \A i \in DOMAIN schema.cols : ~filled[i]
                     /\ \A p \in LeavesOf(schema.map) :
                          columns[schema.map[p].start].cells = CellsFor(schema, given, p)
                     /\ \A j \in 1..Len(given) : Followed(schema, given[j]) /\ given[j].kind = "struct"
  BY BuilderIs DEF IInv, Built, Kept
<1>2. RowsFine(offered) /\ DOMAIN offered = 1..Len(offered) /\ DOMAIN given = 1..Len(given)
  BY <1>1, RowsOfTable, LenProperties
<1> DEFINE so == SchemaOf(offered)
<1>3. Shaped(so)
  BY <1>2, SchemaOfShaped
<1>4. /\ DOMAIN columns = DOMAIN schema.cols /\ DOMAIN filled = DOMAIN schema.cols
      /\ \A i \in DOMAIN schema.cols : columns[i].type = schema.cols[i].type
  <2> DEFINE w == Writer(columns, filled)
  <2>1. w.columns = columns /\ w.filled = filled
    BY WriterIs
  <2> HIDE DEF w
  <2>2. Fits(w, schema)
    BY <1>1 DEF w
  <2>3. DOMAIN w.columns = DOMAIN schema.cols /\ DOMAIN w.filled = DOMAIN schema.cols
    BY <2>2, FitsIs
  <2>4. \A i \in DOMAIN schema.cols : w.columns[i].type = schema.cols[i].type
    BY <2>2, FitsIs
  <2> QED BY <2>1, <2>3, <2>4
<1> HIDE DEF so
<1>5. SchemaOK
  <2>1. Routed(schema) /\ Routed(so)
    BY <1>1, <1>3, ShapedIsRouted
  <2>2. ~refused => \A i \in DOMAIN filled : ~filled[i]
    BY <1>1, <1>4
  <2> QED BY <1>4, <2>1, <2>2 DEF SchemaOK, so
<1>6. ASSUME NEW s, Shaped(s), NEW cs, \A i \in DOMAIN s.cols : cs[i].type = s.cols[i].type,
             NEW rows, DOMAIN rows = 1..Len(rows),
             \A p \in LeavesOf(s.map) : cs[s.map[p].start].cells = CellsFor(s, rows, p)
      PROVE  Hold(cs, s, rows)
  <2> SUFFICES ASSUME NEW p \in LeavesOf(s.map)
               PROVE  cs[s.map[p].start].cells =
                        [j \in DOMAIN rows |-> CellOf(cs[s.map[p].start].type, At(rows[j], p))]
    BY DEF Hold, Leaves, LeavesOf
  <2> DEFINE i == s.map[p].start
  <2>1. i \in DOMAIN s.cols
    BY <1>6, LeavesIn
  <2>2. cs[i].type = s.cols[i].type
    BY <2>1, <1>6
  <2>3. cs[i].cells = [j \in 1..Len(rows) |-> CellOf(s.cols[i].type, At(rows[j], p))]
    BY <1>6 DEF CellsFor, Cell
  <2> HIDE DEF i
  <2>4. cs[i].cells = [j \in DOMAIN rows |-> CellOf(cs[i].type, At(rows[j], p))]
    BY <2>2, <2>3, <1>6
  <2> QED BY <2>4 DEF i
<1>7. ~refused => Hold(columns, schema, given)
  BY <1>1, <1>2, <1>4, <1>6
<1>70. ASSUME ~refused, NEW p \in LeavesOf(schema.map), ~Doubled(schema, p)
       PROVE  Bears(columns, schema, given, p)
  <2> DEFINE i == schema.map[p].start
  <2> SUFFICES ASSUME NEW j \in DOMAIN given, NEW k \in Fields(Calls(given[j])),
                      FlattenSeq(Calls(given[j])[k].at) = FlattenSeq(p)
               PROVE  columns[i].cells[j] = CellOf(columns[i].type, Calls(given[j])[k].value)
    BY DEF Bears
  <2> DEFINE row == given[j]
  <2>1. Followed(schema, row) /\ Nested(Calls(row))
    <3>1. j \in 1..Len(given) /\ RowsFine(given)
      BY <1>1, <1>2, RowsOfTable
    <3> QED BY <3>1, <1>1, <1>70 DEF RowsFine, RowFine
  <2>2. Calls(row)[k].at = p
    <3> HIDE DEF row
    <3> QED BY <2>1, <1>1, <1>70, NamedOnce DEF row
  <2>3. At(row, p) = Calls(row)[k].value
    <3> HIDE DEF row
    <3> QED BY <2>1, <2>2, AtIs DEF row
  <2>4. columns[i].cells = [x \in DOMAIN given |-> CellOf(columns[i].type, At(given[x], p))]
    BY <1>7, <1>70 DEF Hold, Leaves, LeavesOf
  <2>5. columns[i].cells[j] = CellOf(columns[i].type, At(row, p))
    <3> HIDE DEF i
    <3> QED BY <2>4
  <2> QED BY <2>3, <2>5
<1>71. ~refused => \A p \in Leaves(schema) : Doubled(schema, p) \/ Bears(columns, schema, given, p)
  BY <1>70 DEF Leaves, LeavesOf
<1> DEFINE all == FillRows(NewWriter(so), so, offered, FALSE)
<1>8. ASSUME all.ok PROVE Hold(all.columns, so, offered)
  <2> DEFINE strict == FALSE
             v == FillRows(NewWriter(so), so, offered, strict)
  <2>1. strict \in BOOLEAN /\ v.ok /\ v = all
    BY <1>8
  <2> HIDE DEF strict
  <2>2. Fits(v, so)
    BY <2>1, <1>2, <1>3, FillRowsIs
  <2>3. ASSUME NEW p \in LeavesOf(so.map)
        PROVE  v.columns[so.map[p].start].cells = CellsFor(so, offered, p)
    BY <2>1, <1>2, <1>3, FillRowsIs
  <2> HIDE DEF v
  <2>4. \A i \in DOMAIN so.cols : v.columns[i].type = so.cols[i].type
    BY <2>2, FitsIs
  <2>5. Hold(v.columns, so, offered)
    BY <2>3, <2>4, <1>2, <1>3, <1>6
  <2> QED BY <2>1, <2>5
<1>9. CellsAreRight
  BY <1>7, <1>71, <1>8 DEF CellsAreRight, so
<1> QED BY <1>5, <1>9

\* For rows of any shapes, in any order, with any schema declared or grown: every column
\* of the schema keeps one path, its name and its type, and a struct covers exactly the
\* columns of its fields (SchemaDiscoverer, SchemaAccumulator, absorb_new_fields).
THEOREM SchemaStaysRight == Spec => []SchemaOK
  BY BuiltInvariant, BuiltIsRight, PTL

\* For rows of any shapes the columns of a builder hold, row by row, what was given, with
\* NA where a field or struct was absent or its column did not yet exist; and so do those
\* of vec_to_dataframe (ColumnFiller, pad_all, absorb_new_fields).
THEOREM CellsStayRight == Spec => []CellsAreRight
  BY BuiltInvariant, BuiltIsRight, PTL

-----------------------------------------------------------------------------
(* Merging what chunks of rows have been fed.                               *)

\* Extending is associative.
LEMMA ConcatThrice ==
  ASSUME NEW f, Listed(f), NEW g, Listed(g), NEW h, Listed(h)
  PROVE  (f \o g) \o h = f \o (g \o h)
<1> DEFINE a == Len(f)
           b == Len(g)
           c == Len(h)
           fg == f \o g
           gh == g \o h
<1>1. a \in Nat /\ b \in Nat /\ c \in Nat
  BY DEF Listed
<1>2. /\ Listed(fg) /\ Len(fg) = a + b
      /\ fg = [i \in 1..(a + b) |-> IF i <= a THEN f[i] ELSE g[i - a]]
  BY ListedConcat
<1>3. /\ Listed(gh) /\ Len(gh) = b + c
      /\ gh = [i \in 1..(b + c) |-> IF i <= b THEN g[i] ELSE h[i - b]]
  BY ListedConcat
<1> HIDE DEF fg, gh
<1>4. fg \o h = [i \in 1..((a + b) + c) |-> IF i <= a + b THEN fg[i] ELSE h[i - (a + b)]]
  BY <1>2, ListedConcat
<1>5. f \o gh = [i \in 1..(a + (b + c)) |-> IF i <= a THEN f[i] ELSE gh[i - a]]
  BY <1>3, ListedConcat
<1> HIDE DEF a, b, c
<1>6. (a + b) + c = a + (b + c)
  BY <1>1
<1>7. ASSUME NEW i \in 1..((a + b) + c)
      PROVE  (IF i <= a + b THEN fg[i] ELSE h[i - (a + b)]) = (IF i <= a THEN f[i] ELSE gh[i - a])
  <2>1. CASE i <= a
    <3>1. i <= a + b /\ i \in 1..(a + b)
      BY <1>1, <2>1
    <3> QED BY <1>2, <2>1, <3>1
  <2>2. CASE ~(i <= a) /\ i <= a + b
    <3>1. i \in 1..(a + b) /\ i - a \in 1..(b + c) /\ i - a <= b
      BY <1>1, <2>2
    <3> QED BY <1>2, <1>3, <2>2, <3>1
  <2>3. CASE ~(i <= a + b)
    <3>1. ~(i <= a) /\ i - a \in 1..(b + c) /\ ~(i - a <= b) /\ (i - a) - b = i - (a + b)
      BY <1>1, <2>3
    <3> QED BY <1>3, <2>3, <3>1
  <2> QED BY <2>1, <2>2, <2>3
<1>8. fg \o h = f \o gh
  BY <1>4, <1>5, <1>6, <1>7
<1> QED BY <1>8 DEF fg, gh

\* Candidates are in sequences.
Lists(acc) == \A k \in DOMAIN acc.of : Listed(acc.of[k])

\* They stay so, and the key is known.
LEMMA AddLists ==
  ASSUME NEW acc, Lists(acc), NEW k, NEW f, Listed(f)
  PROVE  /\ Lists(Add(acc, k, f))
         /\ k \in DOMAIN Add(acc, k, f).of
         /\ DOMAIN acc.of \subseteq DOMAIN Add(acc, k, f).of
<1> DEFINE new == Add(acc, k, f)
           e == IF k \in DOMAIN acc.of THEN acc.of[k] \o f ELSE f
           m == Entered(k, e, acc.of)
<1>1. Listed(e)
  <2>1. k \in DOMAIN acc.of => Listed(acc.of[k] \o f)
    BY ListedConcat DEF Lists
  <2> QED BY <2>1
<1>2. new.of = m
  BY DEF Add
<1> HIDE DEF e, new
<1>3. DOMAIN m = DOMAIN acc.of \cup {k} /\ m[k] = e /\ \A q \in DOMAIN acc.of : q # k => m[q] = acc.of[q]
  BY DEF Entered, Joined
<1> HIDE DEF m
<1> QED BY <1>1, <1>2, <1>3 DEF Lists, new

\* Two additions under one key are one of both, and additions under different keys may
\* be exchanged where the first changes no order.
LEMMA AddTwice ==
  ASSUME NEW acc, Lists(acc), NEW k, NEW f, Listed(f), NEW g, Listed(g)
  PROVE  Add(Add(acc, k, f), k, g) = Add(acc, k, f \o g)
<1>1. ASSUME NEW e1, NEW e2 PROVE Entered(k, e2, Entered(k, e1, acc.of)) = Entered(k, e2, acc.of)
  BY DEF Entered, Joined
<1> DEFINE a == Add(acc, k, f)
           e == IF k \in DOMAIN acc.of THEN acc.of[k] \o f ELSE f
           o == IF k \in DOMAIN acc.of THEN acc.order ELSE Append(acc.order, k)
<1>2. a.order = o /\ a.of = Entered(k, e, acc.of)
  BY DEF Add
<1>3. k \in DOMAIN a.of /\ a.of[k] = e
  <2> HIDE DEF a, e, o
  <2> QED BY <1>2 DEF Entered, Joined
<1>4. Add(a, k, g) = [order |-> o, of |-> Entered(k, e \o g, acc.of)]
  <2>1. Add(a, k, g) = [order |-> a.order, of |-> Entered(k, a.of[k] \o g, a.of)]
    BY <1>3 DEF Add
  <2> HIDE DEF a, e, o
  <2> QED BY <2>1, <1>1, <1>2, <1>3
<1>5. CASE k \in DOMAIN acc.of
  <2>1. (acc.of[k] \o f) \o g = acc.of[k] \o (f \o g)
    <3> DEFINE h == acc.of[k]
    <3>1. Listed(h)
      BY <1>5 DEF Lists
    <3> HIDE DEF h
    <3>2. (h \o f) \o g = h \o (f \o g)
      BY <3>1, ConcatThrice
    <3> QED BY <3>2 DEF h
  <2> QED BY <1>4, <1>5, <2>1 DEF Add
<1>6. CASE k \notin DOMAIN acc.of
  BY <1>4, <1>6 DEF Add
<1> QED BY <1>5, <1>6

\* Additions under different keys may be exchanged, where the one key is known already.
LEMMA AddOther ==
  ASSUME NEW acc, NEW k, k \in DOMAIN acc.of, NEW j, j # k, NEW f, NEW g
  PROVE  Add(Add(acc, j, f), k, g) = Add(Add(acc, k, g), j, f)
<1>1. ASSUME NEW e1, NEW e2
      PROVE  Entered(k, e2, Entered(j, e1, acc.of)) = Entered(j, e1, Entered(k, e2, acc.of))
  BY DEF Entered, Joined
<1> DEFINE e == IF j \in DOMAIN acc.of THEN acc.of[j] \o f ELSE f
           o == IF j \in DOMAIN acc.of THEN acc.order ELSE Append(acc.order, j)
           h == acc.of[k] \o g
           a == Add(acc, j, f)
           b == Add(acc, k, g)
<1>2. a.order = o /\ a.of = Entered(j, e, acc.of)
  BY DEF Add
<1>3. b.order = acc.order /\ b.of = Entered(k, h, acc.of)
  BY DEF Add
<1>4. Add(a, k, g) = [order |-> o, of |-> Entered(k, h, Entered(j, e, acc.of))]
  <2>1. k \in DOMAIN a.of /\ a.of[k] = acc.of[k]
    <3> HIDE DEF a, e
    <3> QED BY <1>2 DEF Entered, Joined
  <2>2. Add(a, k, g) = [order |-> a.order, of |-> Entered(k, a.of[k] \o g, a.of)]
    BY <2>1 DEF Add
  <2> HIDE DEF a, e, o
  <2> QED BY <2>1, <2>2, <1>2
<1>5. Add(b, j, f) = [order |-> o, of |-> Entered(j, e, Entered(k, h, acc.of))]
  <2>1. /\ j \in DOMAIN b.of <=> j \in DOMAIN acc.of
        /\ j \in DOMAIN acc.of => b.of[j] = acc.of[j]
    <3> HIDE DEF b, h
    <3> QED BY <1>3 DEF Entered, Joined
  <2>2. CASE j \in DOMAIN acc.of
    <3>1. Add(b, j, f) = [order |-> b.order, of |-> Entered(j, b.of[j] \o f, b.of)]
      BY <2>1, <2>2 DEF Add
    <3>2. e = acc.of[j] \o f /\ o = acc.order
      BY <2>2
    <3> HIDE DEF b, e, o, h
    <3> QED BY <2>1, <2>2, <3>1, <3>2, <1>3
  <2>3. CASE j \notin DOMAIN acc.of
    <3>1. Add(b, j, f) = [order |-> Append(b.order, j), of |-> Entered(j, f, b.of)]
      BY <2>1, <2>3 DEF Add
    <3>2. e = f /\ o = Append(acc.order, j)
      BY <2>3
    <3> HIDE DEF b, e, o, h
    <3> QED BY <3>1, <3>2, <1>3
  <2> QED BY <2>2, <2>3
<1> HIDE DEF e, o, h
<1> QED BY <1>1, <1>4, <1>5

\* An addition after a merge is an addition before it.
LEMMA MergeAdd ==
  ASSUME NEW acc, Lists(acc), NEW x, AccOK(x), NEW k \in Names, NEW g, CandsOK(k, g)
  PROVE  Merge(acc, Add(x, k, g)) = Add(Merge(acc, x), k, g)
<1> DEFINE n == Len(x.order)
           y == Add(x, k, g)
           M(i) == Merging(acc, x)[i]
           N(i) == Merging(acc, y)[i]
<1>1. /\ n \in Nat /\ Listed(g)
      /\ x.order \in Seq(Names)
      /\ \A i \in 1..n : x.order[i] \in DOMAIN x.of
      /\ \A q \in DOMAIN x.of : Listed(x.of[q])
      /\ \A i, j \in 1..n : x.order[i] = x.order[j] => i = j
  BY LenProperties DEF AccOK, CandsOK
<1>2. M(0) = acc /\ \A i \in 0..(n - 1) : M(i + 1) = Add(M(i), x.order[i + 1], x.of[x.order[i + 1]])
  BY <1>1, MergingIs
<1>3. Merge(acc, x) = M(n)
  BY DEF Merge
<1>4. ASSUME Len(y.order) \in Nat
      PROVE  /\ N(0) = acc
             /\ \A i \in 0..(Len(y.order) - 1) : N(i + 1) = Add(N(i), y.order[i + 1], y.of[y.order[i + 1]])
             /\ Merge(acc, y) = N(Len(y.order))
  <2> HIDE DEF y
  <2> QED BY <1>4, MergingIs DEF Merge
<1> HIDE DEF M, N
<1>5. ASSUME k \notin DOMAIN x.of
      PROVE  Merge(acc, y) = Add(M(n), k, g)
  <2>1. y.order = Append(x.order, k) /\ y.of = Entered(k, g, x.of)
    BY <1>5 DEF Add
  <2> HIDE DEF y
  <2>2. /\ Len(y.order) = n + 1
        /\ \A i \in 1..n : y.order[i] = x.order[i]
        /\ y.order[n + 1] = k
    BY <1>1, <2>1, AppendProperties
  <2>3. \A i \in 1..n : y.of[y.order[i]] = x.of[x.order[i]]
    BY <1>1, <1>5, <2>1, <2>2 DEF Entered, Joined
  <2>4. y.of[k] = g
    BY <2>1 DEF Entered, Joined
  <2> DEFINE T == {i \in 0..n : N(i) = M(i)}
  <2> HIDE DEF n
  <2>5. n + 1 \in Nat /\ (n + 1) - 1 = n /\ \A i \in 0..(n - 1) : i \in 0..n /\ i + 1 \in 1..n /\ i + 1 \in 0..n
    BY <1>1
  <2>6. /\ N(0) = acc
        /\ \A i \in 0..n : N(i + 1) = Add(N(i), y.order[i + 1], y.of[y.order[i + 1]])
        /\ Merge(acc, y) = N(n + 1)
    BY <1>4, <2>2, <2>5
  <2>7. 0 \in T
    BY <1>1, <1>2, <2>6
  <2>8. \A i \in 0..(n - 1) : i \in T => i + 1 \in T
    BY <1>2, <2>2, <2>3, <2>5, <2>6
  <2>9. n \in T
    <3> HIDE DEF T
    <3>1. \A i \in 0..n : i \in T
      BY <1>1, <2>7, <2>8, Climb
    <3> QED BY <3>1, <1>1
  <2>10. N(n + 1) = Add(N(n), k, g)
    BY <1>1, <2>2, <2>4, <2>6
  <2> QED BY <2>6, <2>9, <2>10
<1>6. ASSUME k \in DOMAIN x.of
      PROVE  Merge(acc, y) = Add(M(n), k, g)
  <2>1. PICK a \in 1..n : x.order[a] = k
    BY <1>6 DEF AccOK
  <2>2. y.order = x.order /\ y.of = Entered(k, x.of[k] \o g, x.of)
    BY <1>6 DEF Add
  <2> HIDE DEF y
  <2>3. y.of[k] = x.of[k] \o g /\ \A q \in DOMAIN x.of : q # k => y.of[q] = x.of[q]
    BY <2>2 DEF Entered, Joined
  <2>4. Len(y.order) = n
    BY <2>2
  <2>5. /\ N(0) = acc
        /\ \A i \in 0..(n - 1) : N(i + 1) = Add(N(i), x.order[i + 1], y.of[x.order[i + 1]])
        /\ Merge(acc, y) = N(n)
    BY <1>1, <1>4, <2>2, <2>4
  <2> HIDE DEF n
  <2> DEFINE T == {i \in 0..n : /\ Lists(M(i))
                                /\ i < a => N(i) = M(i)
                                /\ i >= a => k \in DOMAIN M(i).of /\ N(i) = Add(M(i), k, g)}
  <2>6. 0 \in T
    BY <1>1, <1>2, <2>5
  <2>7. \A i \in 0..(n - 1) : i \in T => i + 1 \in T
    <3> SUFFICES ASSUME NEW i \in 0..(n - 1), i \in T PROVE i + 1 \in T
      OBVIOUS
    <3> DEFINE q == x.order[i + 1]
               f == x.of[q]
               A == M(i)
               B == M(i + 1)
               C == N(i)
               D == N(i + 1)
    <3>1. i + 1 \in 1..n /\ i + 1 \in 0..n /\ i \in Nat /\ a \in Nat
      BY <1>1
    <3>2. q \in DOMAIN x.of /\ Listed(f) /\ (q = k <=> i + 1 = a)
      BY <1>1, <2>1, <3>1
    <3>3. B = Add(A, q, f) /\ D = Add(C, q, y.of[q]) /\ Lists(A)
      BY <1>2, <2>5
    <3>4. (i < a => C = A) /\ (i >= a => k \in DOMAIN A.of /\ C = Add(A, k, g))
      OBVIOUS
    <3> HIDE DEF A, B, C, D, q, f
    <3>5. Lists(B) /\ q \in DOMAIN B.of /\ DOMAIN A.of \subseteq DOMAIN B.of
      BY <3>2, <3>3, AddLists
    <3>6. CASE i + 1 < a
      <4>1. q # k /\ i < a /\ ~(i + 1 >= a)
        BY <3>1, <3>2, <3>6
      <4>2. y.of[q] = f
        BY <2>3, <3>2, <4>1 DEF f
      <4>3. D = B
        BY <3>3, <3>4, <4>1, <4>2
      <4> QED BY <3>1, <3>5, <4>1, <4>3 DEF B, D
    <3>7. CASE i + 1 = a
      <4>1. q = k /\ i < a /\ ~(i + 1 < a)
        BY <3>1, <3>2, <3>7
      <4>2. y.of[q] = f \o g
        BY <2>3, <4>1 DEF f
      <4>3. Add(Add(A, q, f), q, g) = Add(A, q, f \o g)
        BY <1>1, <3>2, <3>3, AddTwice
      <4>4. D = Add(B, k, g) /\ k \in DOMAIN B.of
        BY <3>3, <3>4, <3>5, <4>1, <4>2, <4>3
      <4> QED BY <3>1, <3>5, <4>1, <4>4 DEF B, D
    <3>8. CASE i + 1 > a
      <4>1. q # k /\ i >= a /\ ~(i + 1 < a)
        BY <3>1, <3>2, <3>8
      <4>2. y.of[q] = f
        BY <2>3, <3>2, <4>1 DEF f
      <4>3. k \in DOMAIN A.of /\ D = Add(Add(A, k, g), q, f)
        BY <3>3, <3>4, <4>1, <4>2
      <4>4. Add(Add(A, q, f), k, g) = Add(Add(A, k, g), q, f)
        BY <4>1, <4>3, AddOther
      <4>5. D = Add(B, k, g) /\ k \in DOMAIN B.of
        BY <3>3, <3>5, <4>3, <4>4
      <4> QED BY <3>1, <3>5, <4>1, <4>5 DEF B, D
    <3> QED BY <3>1, <3>6, <3>7, <3>8
  <2>8. n \in T
    <3> HIDE DEF T
    <3>1. \A i \in 0..n : i \in T
      BY <1>1, <2>6, <2>7, Climb
    <3> QED BY <3>1, <1>1
  <2>9. n >= a
    BY <1>1
  <2> QED BY <2>5, <2>8, <2>9
<1> QED BY <1>3, <1>5, <1>6

\* Merging an accumulator that was fed nothing changes nothing.
LEMMA MergeNothing == \A acc : Merge(acc, NoCandidates) = acc
<1> SUFFICES ASSUME NEW acc PROVE Merge(acc, NoCandidates) = acc
  OBVIOUS
<1>1. NoCandidates.order = <<>>
  BY DEF NoCandidates
<1>2. Len(NoCandidates.order) = 0
  BY <1>1, EmptySeq
<1>3. Merging(acc, NoCandidates)[0] = acc
  BY <1>2, MergingIs
<1> QED BY <1>2, <1>3 DEF Merge

\* To feed a row before a merge is to feed it after it.
LEMMA MergeFeed ==
  ASSUME NEW acc, Lists(acc), NEW x, AccOK(x), NEW row, RowFine(row)
  PROVE  Merge(acc, Feed(x, row)) = Feed(Merge(acc, x), row)
<1>1. CASE row.kind # "struct"
  BY <1>1 DEF Feed
<1>2. CASE row.kind = "struct"
  <2> DEFINE cs == Calls(row)
             n == Len(cs)
             d == Discover(cs)
             F(i) == Feeding(x, cs)[i]
             G(i) == Feeding(Merge(acc, x), cs)[i]
             T == {i \in 0..n : AccOK(F(i)) /\ Merge(acc, F(i)) = G(i)}
  <2>1. Nested(cs) /\ n \in Nat
    BY <1>2, NestedAre DEF RowFine
  <2>2. F(0) = x /\ \A i \in 0..(n - 1) : F(i + 1) = FeedCall(F(i), d, cs[i + 1])
    BY <2>1, FeedingIs
  <2>3. G(0) = Merge(acc, x) /\ \A i \in 0..(n - 1) : G(i + 1) = FeedCall(G(i), d, cs[i + 1])
    BY <2>1, FeedingIs
  <2>4. Feed(x, row) = F(n) /\ Feed(Merge(acc, x), row) = G(n)
    BY <1>2 DEF Feed
  <2> HIDE DEF F, G
  <2>5. 0 \in T
    BY <2>1, <2>2, <2>3
  <2>6. \A i \in 0..(n - 1) : i \in T => i + 1 \in T
    <3> SUFFICES ASSUME NEW i \in 0..(n - 1), i \in T PROVE i + 1 \in T
      OBVIOUS
    <3> DEFINE c == cs[i + 1]
               k == c.at[1]
               g == <<Candidate(d, k)>>
               a == F(i)
               b == F(i + 1)
    <3>1. i + 1 \in 1..n /\ i + 1 \in 0..n
      BY <2>1
    <3>2. c \in {cs[j] : j \in 1..n}
      BY <3>1
    <3>3. AccOK(a) /\ Merge(acc, a) = G(i) /\ b = FeedCall(a, d, c) /\ G(i + 1) = FeedCall(G(i), d, c)
      BY <2>2, <2>3
    <3> HIDE DEF a, b, c, n
    <3>4. AccOK(b)
      BY <2>1, <3>2, <3>3, FeedCallOK DEF n
    <3>5. CASE Ends(c) \/ Len(c.at) > 1
      <4>1. b = a /\ G(i + 1) = G(i)
        BY <3>3, <3>5 DEF FeedCall
      <4> QED BY <3>1, <3>3, <3>4, <4>1 DEF b
    <3>6. CASE ~(Ends(c) \/ Len(c.at) > 1)
      <4>1. k \in Names /\ CandsOK(k, g)
        BY <2>1, <3>2, <3>6, FeedCallIs DEF n
      <4>2. b = Add(a, k, g) /\ G(i + 1) = Add(G(i), k, g)
        BY <3>3, <3>6 DEF FeedCall
      <4> HIDE DEF k, g
      <4>3. Merge(acc, Add(a, k, g)) = Add(Merge(acc, a), k, g)
        BY <3>3, <4>1, MergeAdd
      <4>4. Merge(acc, b) = G(i + 1)
        BY <3>3, <4>2, <4>3
      <4> QED BY <3>1, <3>4, <4>4 DEF b
    <3> QED BY <3>5, <3>6
  <2>7. n \in T
    <3> HIDE DEF T
    <3>1. \A i \in 0..n : i \in T
      BY <2>1, <2>5, <2>6, Climb
    <3> QED BY <2>1, <3>1
  <2> QED BY <2>4, <2>7
<1> QED BY <1>1, <1>2

-----------------------------------------------------------------------------
(* Chunks.                                                                  *)

\* How many rows the first c chunks have.
Upto(rows, k, c) == IF c * k < Len(rows) THEN c * k ELSE Len(rows)

\* The number of chunks, rounded up.
LEMMA Rounded ==
  ASSUME NEW n \in Nat, n # 0, NEW k \in Nat, k # 0
  PROVE  /\ (n + k - 1) \div k \in Nat
         /\ ((n + k - 1) \div k) * k >= n
         /\ ((n + k - 1) \div k) * k < n + k
<1> DEFINE m == n + k - 1
           q == m \div k
           r == m % k
<1>1. m \in Nat /\ m = (n + k) - 1
  OBVIOUS
<1>2. q \in Int /\ r \in 0..(k - 1) /\ m = k * q + r
  <2> HIDE DEF m
  <2> QED BY <1>1
<1>3. k * q = q * k
  <2> HIDE DEF q
  <2> QED BY <1>2
<1> DEFINE p == q * k
<1> HIDE DEF m, r, p
<1>4. p \in Int /\ m = p + r
  <2> HIDE DEF q
  <2> QED BY <1>2, <1>3 DEF p
<1>5. p >= n /\ p < n + k
  BY <1>1, <1>2, <1>4
<1>6. q >= 0
  <2> HIDE DEF q
  <2> QED BY <1>2, <1>5 DEF p
<1> QED BY <1>2, <1>5, <1>6 DEF p, m

\* par_chunks: the chunks are the rows, in order, without gap or overlap.
LEMMA ChunksAre ==
  ASSUME NEW rows, Listed(rows), Len(rows) # 0, NEW k \in Nat, k # 0,
         NEW cs, cs = Chunks(rows, k)
  PROVE  /\ Len(cs) \in Nat /\ cs = [c \in 1..Len(cs) |-> cs[c]]
         /\ Upto(rows, k, 0) = 0 /\ Upto(rows, k, Len(cs)) = Len(rows)
         /\ \A c \in 0..(Len(cs) - 1) :
              /\ Upto(rows, k, c) \in Nat
              /\ Listed(cs[c + 1])
              /\ Upto(rows, k, c + 1) = Upto(rows, k, c) + Len(cs[c + 1])
              /\ Upto(rows, k, c + 1) <= Len(rows)
              /\ \A j \in 1..Len(cs[c + 1]) : cs[c + 1][j] = rows[Upto(rows, k, c) + j]
<1> DEFINE n == Len(rows)
           m == (n + k - 1) \div k
           U(c) == Upto(rows, k, c)
           C(c) == SubSeq(rows, (c - 1) * k + 1, U(c))
<1>1. n \in Nat /\ n # 0 /\ rows = [j \in 1..n |-> rows[j]]
  BY DEF Listed
<1>2. m \in Nat /\ m * k >= n /\ m * k < n + k
  <2> HIDE DEF n
  <2> QED BY <1>1, Rounded
<1>3. cs = [c \in 1..m |-> C(c)]
  BY DEF Chunks, Upto
<1>4. \A c \in Int : U(c) = IF c * k < n THEN c * k ELSE n
  BY DEF Upto
<1> HIDE DEF m, C, U, n
<1>5. Len(cs) = m /\ \A c \in 1..m : cs[c] = C(c)
  <2> DEFINE S == {C(c) : c \in 1..m}
  <2>1. cs \in [1..m -> S]
    BY <1>3
  <2>2. cs \in Seq(S)
    <3> HIDE DEF S
    <3> QED BY <2>1, <1>2
  <2>3. Len(cs) = m
    <3> HIDE DEF S
    <3> QED BY <2>1, <2>2, <1>2
  <2> QED BY <2>3, <1>3
<1>6. U(0) = 0 /\ U(m) = n
  <2>1. 0 * k = 0 /\ ~(m * k < n) /\ 0 < n
    BY <1>1, <1>2
  <2> QED BY <1>2, <1>4, <2>1
<1>7. ASSUME NEW c \in 0..(m - 1)
      PROVE  /\ U(c) \in Nat /\ c * k = U(c) /\ U(c) < n
             /\ U(c + 1) \in Nat /\ U(c) <= U(c + 1) /\ U(c + 1) <= n
  <2>1. c \in Nat /\ m - c \in Nat /\ m - c >= 1 /\ c + 1 \in Nat
    BY <1>2
  <2> DEFINE a == c * k
             b == (m - c) * k
             e == (c + 1) * k
  <2>2. a \in Nat /\ b \in Nat /\ m * k = a + b
    BY <1>2, <2>1
  <2>3. b >= k
    <3> DEFINE d == (m - c) - 1
    <3>1. d \in Nat /\ m - c = d + 1
      BY <1>2, <2>1
    <3> HIDE DEF d
    <3>2. b = d * k + k /\ d * k \in Nat
      BY <3>1
    <3> QED BY <3>2, <2>2
  <2>4. e = a + k
    BY <2>1
  <2> HIDE DEF a, b, e
  <2>5. a < n
    BY <1>1, <1>2, <2>2, <2>3
  <2>6. U(c) = a /\ U(c + 1) = IF e < n THEN e ELSE n
    <3>1. c \in Int /\ c + 1 \in Int
      BY <2>1
    <3>2. U(c) = IF a < n THEN a ELSE n
      BY <1>4, <3>1 DEF a
    <3>3. U(c + 1) = IF e < n THEN e ELSE n
      BY <1>4, <3>1 DEF e
    <3> QED BY <2>5, <3>2, <3>3
  <2>7. U(c + 1) \in Nat /\ U(c) <= U(c + 1) /\ U(c + 1) <= n
    BY <1>1, <2>2, <2>4, <2>5, <2>6
  <2> QED BY <2>2, <2>5, <2>6, <2>7 DEF a
<1>8. ASSUME NEW c \in 0..(m - 1)
      PROVE  /\ Listed(cs[c + 1]) /\ U(c + 1) = U(c) + Len(cs[c + 1])
             /\ \A j \in 1..Len(cs[c + 1]) : cs[c + 1][j] = rows[U(c) + j]
  <2> DEFINE u == U(c)
             v == U(c + 1)
             s == cs[c + 1]
  <2>1. u \in Nat /\ v \in Nat /\ u <= v /\ v <= n /\ c * k = u
    BY <1>7
  <2>2. c + 1 \in 1..m /\ (c + 1) - 1 = c
    BY <1>2
  <2>3. s = SubSeq(rows, u + 1, v)
    <3>1. s = SubSeq(rows, ((c + 1) - 1) * k + 1, U(c + 1))
      BY <1>5, <2>2 DEF C
    <3> QED BY <3>1, <2>1, <2>2
  <2> HIDE DEF u, v, s
  <2> DEFINE S == {rows[j] : j \in 1..n}
             l == v - u
  <2>4. u + 1 \in Int /\ l \in Nat /\ (v - (u + 1)) + 1 = l /\ v = u + l
    BY <2>1
  <2>5. \A i \in (u + 1)..v : rows[i] \in S
    BY <1>1, <2>1
  <2> HIDE DEF S, l
  <2>6. /\ s \in Seq(S)
        /\ Len(s) = IF u + 1 <= v THEN (v - (u + 1)) + 1 ELSE 0
        /\ \A i \in 1..((v - (u + 1)) + 1) : s[i] = rows[(u + 1) + i - 1]
    BY <2>1, <2>3, <2>4, <2>5, SubSeqProperties
  <2>7. Len(s) = l
    <3>1. ~(u + 1 <= v) => l = 0
      BY <2>1, <2>4
    <3> QED BY <2>4, <2>6, <3>1
  <2>8. \A i \in 1..l : s[i] = rows[u + i]
    <3>1. \A i \in 1..l : (u + 1) + i - 1 = u + i
      BY <2>1, <2>4
    <3> QED BY <2>4, <2>6, <3>1
  <2>9. Listed(s)
    BY <2>4, <2>6, <2>7, LenProperties DEF Listed
  <2> QED BY <2>4, <2>7, <2>8, <2>9 DEF u, v, s
<1>9. cs = [c \in 1..Len(cs) |-> cs[c]]
  BY <1>3, <1>5
<1> QED BY <1>2, <1>5, <1>6, <1>7, <1>8, <1>9 DEF U, n

\* Feeding chunks and merging them is feeding the rows.
LEMMA MergingChunksIs ==
  ASSUME NEW rows, Listed(rows), Len(rows) # 0, RowsFine(rows), NEW k \in Nat, k # 0
  PROVE  MergingAll(Chunks(rows, k))[Len(Chunks(rows, k))] = Fed(rows)
<1> DEFINE cs == Chunks(rows, k)
           m == Len(cs)
           n == Len(rows)
           M(c) == MergingAll(cs)[c]
           F(j) == FeedingAll(rows)[j]
           U(c) == Upto(rows, k, c)
           Inner(c, i) == FeedingAll(cs[c + 1])[i]
<1>1. /\ m \in Nat
      /\ U(0) = 0 /\ U(m) = n
      /\ \A c \in 0..(m - 1) :
           /\ U(c) \in Nat
           /\ Listed(cs[c + 1])
           /\ U(c + 1) = U(c) + Len(cs[c + 1])
           /\ U(c + 1) <= n
           /\ \A j \in 1..Len(cs[c + 1]) : cs[c + 1][j] = rows[U(c) + j]
  <2> HIDE DEF cs
  <2> QED BY ChunksAre DEF cs
<1>2. n \in Nat /\ \A j \in 1..n : RowFine(rows[j])
  BY DEF RowsFine
<1>3. F(0) = NoCandidates /\ \A j \in 0..(n - 1) : F(j + 1) = Feed(F(j), rows[j + 1])
  BY <1>2, FeedingAllIs
<1>4. M(0) = NoCandidates /\ \A c \in 0..(m - 1) : M(c + 1) = Merge(M(c), Fed(cs[c + 1]))
  <2> HIDE DEF cs
  <2> QED BY <1>1, MergingAllIs
<1>5. Fed(rows) = F(n)
  BY DEF Fed
<1> HIDE DEF cs, m, n, M, F, U
<1>6. \A j \in 0..n : AccOK(F(j))
  <2> DEFINE T == {j \in 0..n : AccOK(F(j))}
  <2>1. 0 \in T
    BY <1>2, <1>3, NoCandidatesOK
  <2>2. \A j \in 0..(n - 1) : j \in T => j + 1 \in T
    <3> SUFFICES ASSUME NEW j \in 0..(n - 1), j \in T PROVE j + 1 \in T
      OBVIOUS
    <3>1. j + 1 \in 0..n /\ j + 1 \in 1..n
      BY <1>2
    <3>2. AccOK(F(j)) /\ RowFine(rows[j + 1]) /\ F(j + 1) = Feed(F(j), rows[j + 1])
      BY <1>2, <1>3, <3>1
    <3>3. AccOK(Feed(F(j), rows[j + 1]))
      BY <3>2, FeedOK
    <3> QED BY <3>1, <3>2, <3>3
  <2> HIDE DEF T
  <2>3. \A j \in 0..n : j \in T
    BY <1>2, <2>1, <2>2, Climb
  <2> QED BY <2>3 DEF T
<1>7. ASSUME NEW acc, AccOK(acc) PROVE Lists(acc)
  BY <1>7 DEF AccOK, CandsOK, Lists
<1> DEFINE S == {c \in 0..m : M(c) = F(U(c))}
<1>8. 0 \in S
  BY <1>1, <1>3, <1>4
<1>9. \A c \in 0..(m - 1) : c \in S => c + 1 \in S
  <2> SUFFICES ASSUME NEW c \in 0..(m - 1), c \in S PROVE c + 1 \in S
    OBVIOUS
  <2> DEFINE ch == cs[c + 1]
             l == Len(ch)
             u == U(c)
             I(i) == FeedingAll(ch)[i]
             A == F(u)
  <2>1. /\ u \in Nat /\ Listed(ch) /\ U(c + 1) = u + l /\ u + l <= n
        /\ \A j \in 1..l : ch[j] = rows[u + j]
    BY <1>1
  <2>2. l \in Nat
    BY <2>1 DEF Listed
  <2>3. I(0) = NoCandidates /\ \A j \in 0..(l - 1) : I(j + 1) = Feed(I(j), ch[j + 1])
    BY <2>2, FeedingAllIs
  <2>4. M(c + 1) = Merge(A, I(l))
    <3>1. M(c) = A /\ M(c + 1) = Merge(M(c), Fed(ch))
      BY <1>4
    <3>2. Fed(ch) = I(l)
      BY DEF Fed
    <3> HIDE DEF A, I, ch
    <3> QED BY <3>1, <3>2
  <2>5. U(c + 1) = u + l /\ c + 1 \in 0..m
    BY <1>1, <2>1
  <2> HIDE DEF ch, l, u, I, A
  <2>6. AccOK(A) /\ Lists(A)
    <3>1. u \in 0..n
      BY <1>2, <2>1, <2>2
    <3> QED BY <1>6, <1>7, <3>1 DEF A
  <2> DEFINE T == {i \in 0..l : AccOK(I(i)) /\ Merge(A, I(i)) = F(u + i)}
  <2>7. 0 \in T
    <3>1. u + 0 = u
      BY <2>1
    <3> QED BY <2>2, <2>3, <3>1, NoCandidatesOK, MergeNothing DEF A
  <2>8. \A i \in 0..(l - 1) : i \in T => i + 1 \in T
    <3> SUFFICES ASSUME NEW i \in 0..(l - 1), i \in T PROVE i + 1 \in T
      OBVIOUS
    <3> DEFINE row == ch[i + 1]
               a == I(i)
               b == I(i + 1)
    <3>1. /\ i + 1 \in 0..l /\ i + 1 \in 1..l /\ u + (i + 1) = (u + i) + 1
          /\ u + i \in 0..(n - 1) /\ (u + i) + 1 \in 1..n
      BY <1>2, <2>1, <2>2
    <3>2. row = rows[(u + i) + 1]
      BY <2>1, <3>1
    <3>3. RowFine(row) /\ b = Feed(a, row) /\ AccOK(a) /\ Merge(A, a) = F(u + i)
      BY <1>2, <2>3, <3>1, <3>2
    <3>4. F((u + i) + 1) = Feed(F(u + i), row)
      BY <1>3, <3>1, <3>2
    <3> HIDE DEF row, a, b
    <3>5. AccOK(b) /\ Merge(A, Feed(a, row)) = Feed(Merge(A, a), row)
      BY <2>6, <3>3, FeedOK, MergeFeed
    <3>6. Merge(A, b) = F(u + (i + 1))
      BY <3>1, <3>3, <3>4, <3>5
    <3> QED BY <3>1, <3>5, <3>6 DEF b
  <2>9. l \in T
    <3> HIDE DEF T
    <3>1. \A i \in 0..l : i \in T
      BY <2>2, <2>7, <2>8, Climb
    <3> QED BY <2>2, <3>1
  <2> QED BY <2>4, <2>5, <2>9
<1>10. m \in S
  <2> HIDE DEF S
  <2>1. \A c \in 0..m : c \in S
    BY <1>1, <1>8, <1>9, Climb
  <2> QED BY <1>1, <2>1
<1> QED BY <1>1, <1>5, <1>10 DEF M, m, cs

\* What a writer and the writer of a chunk make together.
LEMMA Append1Is ==
  ASSUME NEW s, NEW w, Fits(w, s), NEW v
  PROVE  /\ Fits(Append1(w, v), s)
         /\ Append1(w, v).ok <=> w.ok /\ v.ok
<1> DEFINE x == Append1(w, v)
           D == DOMAIN s.cols
           e(i) == w.columns[i].cells \o v.columns[i].cells
<1>1. /\ x.columns = [i \in DOMAIN w.columns |-> [type |-> w.columns[i].type, cells |-> e(i)]]
      /\ x.filled = w.filled
  BY DEF Append1
<1>2. x.ok <=> w.ok /\ v.ok
  <2>1. x.ok = (w.ok /\ v.ok)
    BY DEF Append1
  <2> HIDE DEF x
  <2> QED BY <2>1
<1>3. DOMAIN w.columns = D /\ \A i \in D : w.columns[i].type = s.cols[i].type
  BY FitsIs
<1>4. w.filled = [i \in D |-> w.filled[i]]
  BY DEF Fits
<1> HIDE DEF x, e
<1>5. x.columns = [i \in D |-> [type |-> s.cols[i].type, cells |-> e(i)]]
  BY <1>1, <1>3
<1>6. \A i \in D : x.columns[i].cells = e(i)
  BY <1>5
<1>7. x.columns = [i \in D |-> [type |-> s.cols[i].type, cells |-> x.columns[i].cells]]
  <2> DEFINE f == x.columns
  <2>1. f = [i \in D |-> [type |-> s.cols[i].type, cells |-> e(i)]] /\ \A i \in D : f[i].cells = e(i)
    BY <1>5, <1>6
  <2> HIDE DEF f
  <2>2. f = [i \in D |-> [type |-> s.cols[i].type, cells |-> f[i].cells]]
    BY <2>1
  <2> QED BY <2>2 DEF f
<1>8. Fits(x, s)
  BY <1>1, <1>4, <1>7 DEF Fits
<1> QED BY <1>2, <1>8 DEF x

\* Filling chunks and appending them is filling the rows.
LEMMA ParFillIs ==
  ASSUME NEW s, Shaped(s), NEW rows, Listed(rows), Len(rows) # 0, RowsFine(rows),
         NEW k \in Nat, k # 0, NEW strict \in BOOLEAN
  PROVE  /\ Fits(ParFillMerge(rows, s, k, strict), s)
         /\ ParFillMerge(rows, s, k, strict).ok <=> \A j \in 1..Len(rows) : RowOK(s, rows[j], strict)
         /\ ParFillMerge(rows, s, k, strict).ok => \A p \in LeavesOf(s.map) :
              ParFillMerge(rows, s, k, strict).columns[s.map[p].start].cells = CellsFor(s, rows, p)
<1> DEFINE cs == Chunks(rows, k)
           m == Len(cs)
           n == Len(rows)
           L == LeavesOf(s.map)
           A(c) == Appending(s, cs, strict)[c]
           U(c) == Upto(rows, k, c)
           W(c) == FillRows(NewWriter(s), s, cs[c], strict)
           Holds(u, w) == \A p \in L : w.columns[s.map[p].start].cells = [i \in 1..u |-> Cell(s, rows[i], p)]
           T == {c \in 0..m : /\ Fits(A(c), s)
                              /\ A(c).ok <=> \A i \in 1..U(c) : RowOK(s, rows[i], strict)
                              /\ A(c).ok => Holds(U(c), A(c))}
<1>1. /\ m \in Nat
      /\ U(0) = 0 /\ U(m) = n
      /\ \A c \in 0..(m - 1) :
           /\ U(c) \in Nat
           /\ Listed(cs[c + 1])
           /\ U(c + 1) = U(c) + Len(cs[c + 1])
           /\ U(c + 1) <= n
           /\ \A j \in 1..Len(cs[c + 1]) : cs[c + 1][j] = rows[U(c) + j]
  <2> HIDE DEF cs
  <2> QED BY ChunksAre DEF cs
<1>2. n \in Nat /\ \A j \in 1..n : RowFine(rows[j])
  BY DEF RowsFine
<1>3. A(0) = NewWriter(s) /\ \A c \in 0..(m - 1) : A(c + 1) = Append1(A(c), W(c + 1))
  <2> HIDE DEF cs
  <2> QED BY <1>1, AppendingIs
<1>4. ParFillMerge(rows, s, k, strict) = A(m)
  BY DEF ParFillMerge
<1> HIDE DEF cs, m, A, U
<1>5. 0 \in T
  <2> DEFINE w0 == NewWriter(s)
  <2>1. Ready(w0, s) /\ \A i \in DOMAIN s.cols : w0.columns[i].cells = <<>>
    BY NewWriterReady
  <2> HIDE DEF w0
  <2>2. \A p \in L : w0.columns[s.map[p].start].cells = <<>>
    BY <2>1, LeavesIn
  <2>3. \A p : <<>> = [i \in 1..0 |-> Cell(s, rows[i], p)]
    <3> TAKE p
    <3> DEFINE f == [i \in 1..0 |-> Cell(s, rows[i], p)]
    <3>1. <<>> = [i \in 1..0 |-> f[i]]
      BY EmptyIs
    <3> QED BY <3>1
  <2>4. Fits(w0, s) /\ w0.ok
    BY <2>1 DEF Ready
  <2>5. A(0) = w0 /\ U(0) = 0
    BY <1>1, <1>3 DEF w0
  <2> QED BY <2>2, <2>3, <2>4, <2>5, <1>1
<1>6. \A c \in 0..(m - 1) : c \in T => c + 1 \in T
  <2> SUFFICES ASSUME NEW c \in 0..(m - 1), c \in T PROVE c + 1 \in T
    OBVIOUS
  <2> DEFINE ch == cs[c + 1]
             l == Len(ch)
             u == U(c)
             w == A(c)
             v == W(c + 1)
             x == A(c + 1)
  <2>1. /\ u \in Nat /\ Listed(ch) /\ U(c + 1) = u + l /\ u + l <= n
        /\ \A j \in 1..l : ch[j] = rows[u + j]
    BY <1>1
  <2>2. l \in Nat /\ c + 1 \in 0..m
    BY <1>1, <2>1 DEF Listed
  <2>3. /\ Fits(w, s)
        /\ w.ok <=> \A i \in 1..u : RowOK(s, rows[i], strict)
        /\ w.ok => Holds(u, w)
    OBVIOUS
  <2>4. x = Append1(w, v)
    BY <1>3
  <2>5. v = FillRows(NewWriter(s), s, ch, strict)
    OBVIOUS
  <2> HIDE DEF l, u, w, v, x, ch
  <2>6. /\ \A j \in 1..l : u + j \in 1..n /\ u + j \in 1..(u + l)
        /\ \A i \in 1..(u + l) : i \in 1..u \/ (i - u \in 1..l /\ i = u + (i - u) /\ ~(i <= u))
        /\ \A i \in 1..u : i \in 1..(u + l) /\ i <= u
    BY <1>2, <2>1, <2>2
  <2>7. RowsFine(ch)
    BY <1>2, <2>1, <2>2, <2>6 DEF RowsFine, l
  <2>8. /\ v.ok <=> \A j \in 1..l : RowOK(s, ch[j], strict)
        /\ v.ok => \A p \in L : v.columns[s.map[p].start].cells = CellsFor(s, ch, p)
    BY <2>5, <2>7, FillRowsIs DEF l
  <2>9. Fits(x, s) /\ (x.ok <=> w.ok /\ v.ok)
    <3>1. Fits(Append1(w, v), s)
      BY <2>3, Append1Is
    <3>2. Append1(w, v).ok <=> w.ok /\ v.ok
      BY <2>3, Append1Is
    <3> QED BY <2>4, <3>1, <3>2
  <2>10. x.ok <=> \A i \in 1..(u + l) : RowOK(s, rows[i], strict)
    <3>1. v.ok <=> \A j \in 1..l : RowOK(s, rows[u + j], strict)
      BY <2>1, <2>8
    <3> QED BY <2>3, <2>6, <2>9, <3>1
  <2>11. ASSUME x.ok PROVE Holds(u + l, x)
    <3> SUFFICES ASSUME NEW p \in L
                 PROVE  x.columns[s.map[p].start].cells = [i \in 1..(u + l) |-> Cell(s, rows[i], p)]
      OBVIOUS
    <3> DEFINE a == s.map[p].start
               f == w.columns[a].cells
               g == v.columns[a].cells
    <3>1. x.columns[a].cells = f \o g
      <4> DEFINE e(i) == w.columns[i].cells \o v.columns[i].cells
                 y == x.columns
      <4>1. y = [i \in DOMAIN w.columns |-> [type |-> w.columns[i].type, cells |-> e(i)]]
        BY <2>4 DEF Append1
      <4>2. a \in DOMAIN w.columns
        BY <2>3, LeavesIn, FitsIs
      <4> HIDE DEF e, y, a
      <4>3. y[a] = [type |-> w.columns[a].type, cells |-> e(a)]
        BY <4>1, <4>2
      <4>4. y[a].cells = e(a)
        BY <4>3
      <4> QED BY <4>4 DEF e, y, a
    <3>2. f = [i \in 1..u |-> Cell(s, rows[i], p)]
      BY <2>3, <2>9, <2>11
    <3>3. g = [j \in 1..l |-> Cell(s, ch[j], p)]
      BY <2>8, <2>9, <2>11 DEF CellsFor, l
    <3> HIDE DEF f, g
    <3>4. f = [i \in 1..u |-> f[i]] /\ g = [i \in 1..l |-> g[i]]
      BY <3>2, <3>3
    <3>5. f \o g = [i \in 1..u + l |-> IF i <= u THEN f[i] ELSE g[i - u]]
      BY <3>4, <2>1, <2>2, ConcatIs
    <3>6. \A i \in 1..(u + l) : (IF i <= u THEN f[i] ELSE g[i - u]) = Cell(s, rows[i], p)
      <4> TAKE i \in 1..(u + l)
      <4>1. CASE i \in 1..u
        BY <4>1, <2>6, <3>2
      <4>2. CASE i - u \in 1..l /\ i = u + (i - u) /\ ~(i <= u)
        <5>1. ch[i - u] = rows[i]
          BY <4>2, <2>1
        <5> QED BY <4>2, <5>1, <3>3
      <4> QED BY <4>1, <4>2, <2>6
    <3> QED BY <3>1, <3>5, <3>6
  <2>12. Fits(A(c + 1), s) /\ U(c + 1) = u + l /\ c + 1 \in 0..m /\ A(c + 1) = x
    BY <2>1, <2>2, <2>9 DEF x
  <2> HIDE DEF Holds
  <2> QED BY <2>10, <2>11, <2>12
<1>7. m \in T
  <2> HIDE DEF T
  <2>1. \A c \in 0..m : c \in T
    BY <1>1, <1>5, <1>6, Climb
  <2> QED BY <1>1, <2>1
<1> DEFINE w == ParFillMerge(rows, s, k, strict)
<1>8. /\ Fits(w, s)
      /\ w.ok <=> \A i \in 1..n : RowOK(s, rows[i], strict)
      /\ w.ok => Holds(n, w)
  <2> HIDE DEF w, Holds
  <2> QED BY <1>1, <1>4, <1>7 DEF w
<1> QED BY <1>8 DEF CellsFor

\* Buffers that fit a schema are the same when their leaves are.
LEMMA SameColumns ==
  ASSUME NEW s, Shaped(s), NEW w, Fits(w, s), NEW v, Fits(v, s),
         \A p \in LeavesOf(s.map) : w.columns[s.map[p].start].cells = v.columns[s.map[p].start].cells
  PROVE  w.columns = v.columns
<1> DEFINE D == DOMAIN s.cols
           f == w.columns
           g == v.columns
<1>1. /\ f = [i \in D |-> [type |-> s.cols[i].type, cells |-> f[i].cells]]
      /\ g = [i \in D |-> [type |-> s.cols[i].type, cells |-> g[i].cells]]
  BY DEF Fits
<1>2. \A i \in D : f[i].cells = g[i].cells
  <2> TAKE i \in D
  <2>1. i \in 1..Len(s.cols) /\ Len(s.cols) \in Nat
    BY LeavesIn
  <2>2. PICK p \in LeavesOf(s.map) : s.map[p].start = 1 + i - 1
    BY <2>1 DEF Shaped, Sound, LeavesFit
  <2>3. 1 + i - 1 = i
    BY <2>1
  <2> QED BY <2>2, <2>3
<1> HIDE DEF D, f, g
<1>3. f = g
  BY <1>1, <1>2
<1> QED BY <1>3 DEF f, g

\* The result of a parallel fill is that of a sequential one.
LEMMA SameResult ==
  ASSUME NEW s, Shaped(s), NEW rows, Listed(rows), Len(rows) # 0, RowsFine(rows),
         NEW k \in Nat, k # 0, NEW strict \in BOOLEAN
  PROVE  Result(s, ParFillMerge(rows, s, k, strict), rows) =
           Result(s, FillRows(NewWriter(s), s, rows, strict), rows)
<1> DEFINE w == ParFillMerge(rows, s, k, strict)
           v == FillRows(NewWriter(s), s, rows, strict)
           all == \A j \in 1..Len(rows) : RowOK(s, rows[j], strict)
<1>1. /\ Fits(w, s)
      /\ w.ok <=> all
      /\ w.ok => \A p \in LeavesOf(s.map) : w.columns[s.map[p].start].cells = CellsFor(s, rows, p)
  BY ParFillIs
<1>2. /\ Fits(v, s)
      /\ v.ok <=> all
      /\ v.ok => \A p \in LeavesOf(s.map) : v.columns[s.map[p].start].cells = CellsFor(s, rows, p)
  BY FillRowsIs
<1> HIDE DEF w, v, all
<1>3. CASE all
  <2>1. w.columns = v.columns
    BY <1>1, <1>2, <1>3, SameColumns
  <2> QED BY <1>1, <1>2, <1>3, <2>1 DEF Result, w, v
<1>4. CASE ~all
  BY <1>1, <1>2, <1>4 DEF Result, w, v
<1> QED BY <1>3, <1>4

\* The invariant gives the third property.
LEMMA ParallelIsRight == IInv => ParallelAgrees
<1> SUFFICES ASSUME IInv, offered # <<>>, NEW k \in 1..MaxPushes
             PROVE  /\ ParIterToDataframe(offered, k) =
                         IF HasList(SchemaOf(<<Head(offered)>>)) THEN Failed ELSE IterToDataframe(offered)
                    /\ ParGrowingToDataframe(offered, k) =
                         IF HasList(SchemaOf(offered)) THEN Failed ELSE VecToDataframe(offered)
  BY DEF ParallelAgrees
<1>1. table \in Tables /\ offered \in Seq(table.rows) /\ k \in Nat /\ k # 0
  BY MaxPushesAssumption DEF IInv
<1>2. Listed(offered) /\ Len(offered) # 0 /\ RowsFine(offered)
  BY <1>1, LenProperties, EmptySeq, RowsOfTable DEF Listed
<1>3. RowsFine(<<Head(offered)>>)
  <2>1. Head(offered) \in table.rows
    BY <1>1, HeadTailProperties
  <2> QED BY <1>1, <2>1, RowOfTable
<1> DEFINE one == SchemaOf(<<Head(offered)>>)
           all == SchemaOf(offered)
           yes == TRUE
           no == FALSE
<1>4. Shaped(one) /\ Shaped(all)
  BY <1>2, <1>3, SchemaOfShaped
<1>5. /\ ParIterToDataframe(offered, k) =
           IF HasList(one) THEN Failed ELSE Result(one, ParFillMerge(offered, one, k, yes), offered)
      /\ IterToDataframe(offered) = Result(one, FillRows(NewWriter(one), one, offered, yes), offered)
  BY DEF ParIterToDataframe, IterToDataframe
<1>6. VecToDataframe(offered) = Result(all, FillRows(NewWriter(all), all, offered, no), offered)
  BY DEF VecToDataframe
<1>7. ParGrowingToDataframe(offered, k) =
        IF HasList(all) THEN Failed ELSE Result(all, ParFillMerge(offered, all, k, no), offered)
  <2>1. MergingAll(Chunks(offered, k))[Len(Chunks(offered, k))] = Fed(offered)
    BY <1>1, <1>2, MergingChunksIs
  <2> QED BY <2>1 DEF ParGrowingToDataframe, SchemaOf
<1>8. yes \in BOOLEAN /\ no \in BOOLEAN
  OBVIOUS
<1> HIDE DEF one, all, yes, no
<1>9. Result(one, ParFillMerge(offered, one, k, yes), offered) =
        Result(one, FillRows(NewWriter(one), one, offered, yes), offered)
  BY <1>1, <1>2, <1>4, <1>8, SameResult
<1>10. Result(all, ParFillMerge(offered, all, k, no), offered) =
         Result(all, FillRows(NewWriter(all), all, offered, no), offered)
  BY <1>1, <1>2, <1>4, <1>8, SameResult
<1>11. ParIterToDataframe(offered, k) = IF HasList(one) THEN Failed ELSE IterToDataframe(offered)
  BY <1>5, <1>9
<1>12. ParGrowingToDataframe(offered, k) = IF HasList(all) THEN Failed ELSE VecToDataframe(offered)
  BY <1>6, <1>7, <1>10
<1> QED BY <1>11, <1>12 DEF one, all

\* For any rows and any size of chunks, par_iter_to_dataframe gives the frame of
\* iter_to_dataframe and the growing conversion that of vec_to_dataframe, or both fail,
\* where there are no list columns (par_fill_merge, SchemaAccumulator::merge).
THEOREM ParallelIsSequential == Spec => []ParallelAgrees
  BY BuiltInvariant, ParallelIsRight, PTL
=============================================================================
