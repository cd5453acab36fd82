-------------------------- MODULE SlotOrderProofs --------------------------
(***************************************************************************)
(* Facts about lists without repetition, for the proofs about both caches, *)
(* about folds (the recursion behind them has a solution) and about the    *)
(* sums of a function over the subsets of a set, about ranks in an order   *)
(* and about flattened sequences.                                          *)
(***************************************************************************)
EXTENDS SlotOrder, SequenceTheorems, FiniteSetTheorems, NaturalsInduction, WellFoundedInduction, TLAPS

(* A non-empty set of naturals has a least element.                        *)
LEMMA LeastNatural ==
  ASSUME NEW E \in SUBSET Nat, E # {}
  PROVE  \E i \in E : \A j \in E : i <= j
<1>1. \E i \in E : \A j \in E : <<j, i>> \notin OpToRel(<, Nat)
  BY NatLessThanWellFounded, WFMin
<1>2. ASSUME NEW i \in Nat, NEW j \in Nat, <<j, i>> \notin OpToRel(<, Nat)
      PROVE  i <= j
  <2>1. ~ (j < i)
    BY <1>2 DEF OpToRel
  <2> QED
    BY <2>1
<1> QED
  BY <1>1, <1>2

(* What holds at 0 and goes on from each number to the next holds up to n. *)
LEMMA Upwards ==
  ASSUME NEW n \in Nat, NEW G, 0 \in G, \A k \in 1 .. n : k - 1 \in G => k \in G
  PROVE  \A k \in 0 .. n : k \in G
<1> DEFINE E == {k \in 0 .. n : k \notin G}
<1>1. SUFFICES ASSUME E # {} PROVE FALSE
  OBVIOUS
<1>2. PICK i \in E : \A j \in E : i <= j
  <2>1. E \in SUBSET Nat
    OBVIOUS
  <2> HIDE DEF E
  <2> QED
    BY <1>1, <2>1, LeastNatural
<1>3. i \in 1 .. n /\ i - 1 \in 0 .. n /\ ~(i <= i - 1)
  <2>1. i \in 0 .. n /\ i # 0
    BY <1>2
  <2> QED
    BY <2>1
<1>4. i - 1 \in G
  BY <1>2, <1>3
<1> QED
  BY <1>2, <1>3, <1>4

(* Recursion over the subsets of a finite set, one element less each time: *)
(* the next one to leave, the steps, and the table of the results.          *)
Picks(pick, S) == \A T \in SUBSET S : T # {} => pick[T] \in T
Advances(step, S, D) == \A x \in S, d \in D : step[<<x, d>>] \in D
Tabulates(h, S, D, base, pick, step) ==
  /\ h \in [SUBSET S -> D]
  /\ \A T \in SUBSET S : h[T] = IF T = {} THEN base ELSE step[<<pick[T], h[T \ {pick[T]}]>>]

(* Such a table exists.                                                    *)
LEMMA SubsetRecursion ==
  ASSUME NEW S, IsFiniteSet(S), NEW D, NEW base \in D,
         NEW pick, Picks(pick, S), NEW step, Advances(step, S, D)
  PROVE  \E h : Tabulates(h, S, D, base, pick, step)
<1> USE DEF Picks, Advances
<1> DEFINE Next(h, T) == IF T = {} THEN base ELSE step[<<pick[T], h[T \ {pick[T]}]>>]
           Solves(h, m) ==
             /\ h \in [SUBSET S -> D]
             /\ \A T \in SUBSET S : Cardinality(T) <= m => h[T] = Next(h, T)
           n == Cardinality(S)
           G == {m \in 0 .. n : \E h \in [SUBSET S -> D] : Solves(h, m)}
<1>1. n \in Nat /\ \A T \in SUBSET S : IsFiniteSet(T) /\ Cardinality(T) \in Nat /\ Cardinality(T) <= n
  BY FS_CardinalityType, FS_Subset
<1>2. 0 \in G
  <2> DEFINE h == [T \in SUBSET S |-> base]
  <2>1. h \in [SUBSET S -> D]
    OBVIOUS
  <2>2. ASSUME NEW T \in SUBSET S, Cardinality(T) <= 0 PROVE h[T] = Next(h, T)
    <3>1. T = {}
      BY <1>1, <2>2, FS_EmptySet
    <3> QED
      BY <3>1
  <2>3. Solves(h, 0)
    BY <2>1, <2>2
  <2> HIDE DEF h, Solves
  <2> QED
    BY <1>1, <2>1, <2>3
<1>3. ASSUME NEW m \in 1 .. n, m - 1 \in G PROVE m \in G
  <2>1. PICK h : Solves(h, m - 1)
    BY <1>3
  <2> DEFINE g == [T \in SUBSET S |-> Next(h, T)]
  <2>2. g \in [SUBSET S -> D]
    <3>1. ASSUME NEW T \in SUBSET S PROVE Next(h, T) \in D
      BY <2>1
    <3> QED
      BY <3>1
  <2>3. ASSUME NEW T \in SUBSET S, Cardinality(T) <= m PROVE g[T] = Next(g, T)
    <3>1. CASE T = {}
      BY <3>1
    <3>2. CASE T # {}
      <4> DEFINE U == T \ {pick[T]}
      <4>1. pick[T] \in T /\ U \in SUBSET S
        BY <3>2
      <4>2. Cardinality(U) = Cardinality(T) - 1
        BY <1>1, <4>1, FS_RemoveElement
      <4>3. Cardinality(U) <= m - 1
        BY <1>1, <2>3, <4>2
      <4>4. h[U] = Next(h, U)
        BY <2>1, <4>1, <4>3
      <4>5. g[U] = h[U]
        BY <4>1, <4>4
      <4>6. Next(h, T) = step[<<pick[T], h[U]>>] /\ Next(g, T) = step[<<pick[T], g[U]>>]
        BY <3>2
      <4>7. g[T] = Next(h, T)
        OBVIOUS
      <4> QED
        BY <4>5, <4>6, <4>7
    <3> QED
      BY <3>1, <3>2
  <2>4. Solves(g, m)
    BY <2>2, <2>3
  <2> HIDE DEF g, Solves
  <2> QED
    BY <2>2, <2>4
<1> HIDE DEF G
<1>4. n \in 0 .. n /\ \A m \in 0 .. n : m \in G
  BY <1>1, <1>2, <1>3, Upwards
<1>5. PICK h : Solves(h, n)
  BY <1>4 DEF G
<1> QED
  BY <1>1, <1>5 DEF Tabulates

(* The greatest of the first numbers.                                      *)
LEMMA MaxOfFirst ==
  ASSUME NEW k \in Nat \ {0}
  PROVE  Max(1 .. k) = k /\ (1 .. k) \ {k} = 1 .. k - 1
BY DEF Max

(* The table a fold over the first numbers refers to: its value at every   *)
(* set of them, the greatest of which comes last.                          *)
FoldTabulates(h, n, D, base, step) ==
  /\ h \in [SUBSET (1 .. n) -> D]
  /\ \A T \in SUBSET (1 .. n) :
       /\ T # {} => Max(T) \in T
       /\ h[T] = IF T = {} THEN base ELSE step[<<Max(T), h[T \ {Max(T)}]>>]

(* It exists.                                                              *)
LEMMA FoldTable ==
  ASSUME NEW n \in Nat, NEW D, NEW base \in D, NEW step, Advances(step, 1 .. n, D)
  PROVE  \E h : FoldTabulates(h, n, D, base, step)
<1>1. ASSUME NEW T \in SUBSET (1 .. n), T # {} PROVE Max(T) \in T
  <2> DEFINE E == {n - x : x \in T}
  <2>1. E \in SUBSET Nat /\ E # {}
    <3>1. \A x \in T : n - x \in Nat
      OBVIOUS
    <3> QED
      BY <1>1, <3>1
  <2> HIDE DEF E
  <2>2. PICK i \in E : \A j \in E : i <= j
    BY <2>1, LeastNatural
  <2>3. PICK x \in T : i = n - x
    BY <2>2 DEF E
  <2>4. \A y \in T : x >= y
    <3> SUFFICES ASSUME NEW y \in T PROVE x >= y
      OBVIOUS
    <3>1. n - y \in E
      BY DEF E
    <3>2. n - x <= n - y /\ x \in Nat /\ y \in Nat
      BY <2>2, <2>3, <3>1
    <3> QED
      BY <3>2
  <2> QED
    BY <2>4 DEF Max
<1> DEFINE pick == [T \in SUBSET (1 .. n) |-> Max(T)]
<1>2. IsFiniteSet(1 .. n)
  BY FS_Interval
<1>3. Picks(pick, 1 .. n)
  BY <1>1 DEF Picks
<1>4. \A T \in SUBSET (1 .. n) : pick[T] = Max(T)
  OBVIOUS
<1> HIDE DEF pick
<1>5. PICK h : Tabulates(h, 1 .. n, D, base, pick, step)
  BY <1>2, <1>3, SubsetRecursion
<1> QED
  <2>1. h \in [SUBSET (1 .. n) -> D]
    BY <1>5 DEF Tabulates
  <2>2. ASSUME NEW T \in SUBSET (1 .. n)
        PROVE  h[T] = IF T = {} THEN base ELSE step[<<Max(T), h[T \ {Max(T)}]>>]
    BY <1>4, <1>5 DEF Tabulates
  <2> QED
    BY <1>1, <2>1, <2>2 DEF FoldTabulates

(* Where the elements of q stand once the i-th is taken out.               *)
LEMMA RemoveAtType ==
  ASSUME NEW S, NEW q \in Seq(S), NEW i \in 1..Len(q)
  PROVE  /\ RemoveAt(q, i) \in Seq(S)
         /\ Len(RemoveAt(q, i)) = Len(q) - 1
         /\ \A j \in 1..(Len(q) - 1) :
              RemoveAt(q, i)[j] = IF j < i THEN q[j] ELSE q[j + 1]
<1> DEFINE a == SubSeq(q, 1, i - 1)
           b == SubSeq(q, i + 1, Len(q))
<1>1. /\ Len(q) \in Nat
      /\ \A j \in 1..Len(q) : q[j] \in S
  BY ElementOfSeq, LenProperties
<1>2. /\ a \in Seq(S)
      /\ Len(a) = i - 1
      /\ \A j \in 1..(i - 1) : a[j] = q[j]
  <2>1. \A j \in 1..(i - 1) : q[j] \in S
    BY <1>1
  <2> QED
    BY <1>1, <2>1, SubSeqProperties
<1>3. /\ b \in Seq(S)
      /\ Len(b) = Len(q) - i
      /\ \A j \in 1..(Len(q) - i) : b[j] = q[i + j]
  <2>1. \A j \in (i + 1)..Len(q) : q[j] \in S
    BY <1>1
  <2>2. /\ b \in Seq(S)
        /\ Len(b) = IF i + 1 <= Len(q) THEN Len(q) - (i + 1) + 1 ELSE 0
        /\ \A j \in 1..(Len(q) - (i + 1) + 1) : b[j] = q[(i + 1) + j - 1]
    BY <1>1, <2>1, SubSeqProperties
  <2> QED
    BY <1>1, <2>2
<1>4. RemoveAt(q, i) = a \o b
  BY DEF RemoveAt
<1> HIDE DEF a, b
<1>5. /\ a \o b \in Seq(S)
      /\ Len(a \o b) = Len(a) + Len(b)
      /\ \A j \in 1..(Len(a) + Len(b)) :
           (a \o b)[j] = IF j <= Len(a) THEN a[j] ELSE b[j - Len(a)]
  BY <1>2, <1>3, ConcatProperties
<1>6. Len(a) + Len(b) = Len(q) - 1
  BY <1>1, <1>2, <1>3
<1>7. ASSUME NEW j \in 1..(Len(q) - 1)
      PROVE  (a \o b)[j] = IF j < i THEN q[j] ELSE q[j + 1]
  <2>1. CASE j < i
    BY <1>1, <1>2, <1>5, <1>6, <2>1
  <2>2. CASE ~ (j < i)
    <3>1. (a \o b)[j] = b[j - (i - 1)]
      BY <1>1, <1>2, <1>5, <1>6, <2>2
    <3>2. j - (i - 1) \in 1..(Len(q) - i)
      BY <1>1, <2>2
    <3> QED
      BY <1>1, <1>3, <2>2, <3>1, <3>2
  <2> QED
    BY <2>1, <2>2
<1> QED
  BY <1>4, <1>5, <1>6, <1>7

(* Without repetition, the element taken out is gone and no other is.      *)
LEMMA RemoveAtInjective ==
  ASSUME NEW S, NEW q \in Seq(S), NEW i \in DOMAIN q, Injective(q)
  PROVE  /\ RemoveAt(q, i) \in Seq(S)
         /\ Injective(RemoveAt(q, i))
         /\ ToSet(RemoveAt(q, i)) = ToSet(q) \ {q[i]}
<1> DEFINE r == RemoveAt(q, i)
<1>1. /\ Len(q) \in Nat /\ DOMAIN q = 1..Len(q) /\ i \in 1..Len(q)
  BY LenProperties
<1>2. /\ r \in Seq(S) /\ Len(r) = Len(q) - 1
      /\ \A j \in 1..(Len(q) - 1) : r[j] = IF j < i THEN q[j] ELSE q[j + 1]
  BY <1>1, RemoveAtType
<1> HIDE DEF r
<1>3. DOMAIN r = 1..(Len(q) - 1)
  BY <1>2, LenProperties
<1>4. Injective(r)
  <2> SUFFICES ASSUME NEW j \in 1..(Len(q) - 1), NEW k \in 1..(Len(q) - 1),
                      r[j] = r[k]
               PROVE  j = k
    BY <1>3 DEF Injective
  <2> DEFINE at(x) == IF x < i THEN x ELSE x + 1
  <2>1. /\ at(j) \in 1..Len(q) /\ at(k) \in 1..Len(q)
        /\ r[j] = q[at(j)] /\ r[k] = q[at(k)]
    BY <1>1, <1>2
  <2>2. at(j) = at(k)
    BY <1>1, <2>1 DEF Injective
  <2> QED
    BY <1>1, <2>2
<1>5. ASSUME NEW j \in 1..(Len(q) - 1)
      PROVE  r[j] \in ToSet(q) \ {q[i]}
  <2> DEFINE at == IF j < i THEN j ELSE j + 1
  <2>1. at \in 1..Len(q) /\ at # i /\ r[j] = q[at]
    BY <1>1, <1>2
  <2> QED
    BY <1>1, <2>1 DEF Injective, ToSet
<1>6. ASSUME NEW k \in 1..Len(q), k # i
      PROVE  q[k] \in ToSet(r)
  <2> DEFINE at == IF k < i THEN k ELSE k - 1
  <2>1. at \in 1..(Len(q) - 1) /\ r[at] = q[k]
    BY <1>1, <1>2, <1>6
  <2> QED
    BY <1>3, <2>1 DEF ToSet
<1>7. ToSet(r) = ToSet(q) \ {q[i]}
  BY <1>1, <1>3, <1>5, <1>6 DEF ToSet
<1> QED
  BY <1>2, <1>4, <1>7 DEF r

(* A new last element.                                                     *)
LEMMA AppendInjectiveSeq ==
  ASSUME NEW S, NEW q \in Seq(S), NEW s \in S, Injective(q), s \notin ToSet(q)
  PROVE  /\ Append(q, s) \in Seq(S)
         /\ Injective(Append(q, s))
         /\ ToSet(Append(q, s)) = ToSet(q) \cup {s}
<1> DEFINE r == Append(q, s)
<1>1. Len(q) \in Nat /\ DOMAIN q = 1..Len(q)
  BY LenProperties
<1>2. /\ r \in Seq(S) /\ Len(r) = Len(q) + 1
      /\ \A i \in 1..Len(q) : r[i] = q[i]
      /\ r[Len(q) + 1] = s
  BY AppendProperties
<1> HIDE DEF r
<1>3. DOMAIN r = 1..(Len(q) + 1)
  BY <1>2, LenProperties
<1>4. Injective(r)
  <2> SUFFICES ASSUME NEW j \in 1..(Len(q) + 1), NEW k \in 1..(Len(q) + 1),
                      r[j] = r[k]
               PROVE  j = k
    BY <1>3 DEF Injective
  <2>1. CASE j \in 1..Len(q) /\ k \in 1..Len(q)
    BY <1>1, <1>2, <2>1 DEF Injective
  <2>2. CASE j \in 1..Len(q) /\ k = Len(q) + 1
    BY <1>1, <1>2, <2>2 DEF ToSet
  <2>3. CASE j = Len(q) + 1 /\ k \in 1..Len(q)
    BY <1>1, <1>2, <2>3 DEF ToSet
  <2>4. CASE j = Len(q) + 1 /\ k = Len(q) + 1
    BY <2>4
  <2> QED
    BY <1>1, <2>1, <2>2, <2>3, <2>4
<1>5. \A j \in 1..(Len(q) + 1) : j \in 1..Len(q) \/ j = Len(q) + 1
  BY <1>1
<1>6. ToSet(r) \subseteq ToSet(q) \cup {s}
  BY <1>1, <1>2, <1>3, <1>5 DEF ToSet
<1>7. ToSet(q) \subseteq ToSet(r)
  <2>1. \A j \in 1..Len(q) : j \in 1..(Len(q) + 1)
    BY <1>1
  <2> QED
    BY <1>1, <1>2, <1>3, <2>1 DEF ToSet
<1>8. s \in ToSet(r)
  <2>1. Len(q) + 1 \in 1..(Len(q) + 1)
    BY <1>1
  <2> QED
    BY <1>2, <1>3, <2>1 DEF ToSet
<1> QED
  BY <1>2, <1>4, <1>6, <1>7, <1>8 DEF r

(* The head is the first entry taken out.                                  *)
LEMMA TailRemovesFirst ==
  ASSUME NEW S, NEW q \in Seq(S), q # << >>
  PROVE  RemoveAt(q, 1) = Tail(q)
<1>1. /\ Len(q) \in Nat \ {0} /\ DOMAIN q = 1..Len(q)
  BY LenProperties, EmptySeq
<1>2. /\ Head(q) = q[1] /\ Head(q) \in S
      /\ Tail(q) \in Seq(S) /\ Len(Tail(q)) = Len(q) - 1
      /\ \A i \in 1..Len(Tail(q)) : Tail(q)[i] = q[i + 1]
  BY HeadTailProperties
<1>3. /\ RemoveAt(q, 1) \in Seq(S) /\ Len(RemoveAt(q, 1)) = Len(q) - 1
      /\ \A j \in 1..(Len(q) - 1) : RemoveAt(q, 1)[j] = q[j + 1]
  <2>1. 1 \in 1..Len(q)
    BY <1>1
  <2>2. /\ RemoveAt(q, 1) \in Seq(S) /\ Len(RemoveAt(q, 1)) = Len(q) - 1
        /\ \A j \in 1..(Len(q) - 1) :
             RemoveAt(q, 1)[j] = IF j < 1 THEN q[j] ELSE q[j + 1]
    BY <2>1, RemoveAtType
  <2>3. \A j \in 1..(Len(q) - 1) : ~ (j < 1)
    BY <1>1
  <2> QED
    BY <2>2, <2>3
<1> QED
  BY <1>1, <1>2, <1>3, SeqEqual

(* Without its head, a sequence without repetition loses just that.        *)
LEMMA TailInjective ==
  ASSUME NEW S, NEW q \in Seq(S), q # << >>, Injective(q)
  PROVE  /\ Head(q) \in S /\ Head(q) \in ToSet(q)
         /\ Tail(q) \in Seq(S)
         /\ Injective(Tail(q))
         /\ ToSet(Tail(q)) = ToSet(q) \ {Head(q)}
<1>1. /\ Len(q) \in Nat \ {0} /\ DOMAIN q = 1..Len(q)
  BY LenProperties, EmptySeq
<1>2. /\ Head(q) = q[1] /\ Head(q) \in S /\ Tail(q) \in Seq(S)
  BY HeadTailProperties
<1>3. Tail(q) = RemoveAt(q, 1)
  BY TailRemovesFirst
<1>4. 1 \in DOMAIN q
  BY <1>1
<1>5. /\ Injective(RemoveAt(q, 1))
      /\ ToSet(RemoveAt(q, 1)) = ToSet(q) \ {q[1]}
  BY <1>4, RemoveAtInjective
<1>6. q[1] \in ToSet(q)
  BY <1>4 DEF ToSet
<1> QED
  BY <1>2, <1>3, <1>5, <1>6

-----------------------------------------------------------------------------

(* The members of S are the most recent entries of q.                      *)
ComeLast(q, S) == \A i, j \in DOMAIN q : (i < j /\ q[i] \in S) => q[j] \in S

(* Moving s to the end keeps the entries, puts s behind what came last, and *)
(* leaves no repetition.                                                   *)
LEMMA MoveToEndKeeps ==
  ASSUME NEW U, NEW q \in Seq(U), Injective(q), NEW s \in ToSet(q)
  PROVE  /\ MoveToEnd(q, s) \in Seq(U)
         /\ Injective(MoveToEnd(q, s))
         /\ ToSet(MoveToEnd(q, s)) = ToSet(q)
         /\ \A S : ComeLast(q, S) => ComeLast(MoveToEnd(q, s), S \cup {s})
<1> DEFINE i == PositionOf(q, s)
           r == RemoveAt(q, i)
           m == MoveToEnd(q, s)
<1>1. /\ Len(q) \in Nat /\ DOMAIN q = 1..Len(q)
      /\ \A j \in DOMAIN q : q[j] \in U
  BY LenProperties, ElementOfSeq
<1>2. i \in DOMAIN q /\ q[i] = s
  <2>1. \E k \in DOMAIN q : q[k] = s
    BY DEF ToSet
  <2> QED
    BY <2>1 DEF PositionOf
<1>3. s \in U
  BY <1>1, <1>2
<1>4. m = Append(r, s)
  BY DEF MoveToEnd
<1> HIDE DEF i, m
<1>5. /\ r \in Seq(U) /\ Injective(r) /\ ToSet(r) = ToSet(q) \ {s}
      /\ Len(r) = Len(q) - 1
      /\ \A j \in 1..(Len(q) - 1) : r[j] = IF j < i THEN q[j] ELSE q[j + 1]
  BY <1>1, <1>2, RemoveAtInjective, RemoveAtType
<1> HIDE DEF r
<1>6. /\ m \in Seq(U) /\ Injective(m) /\ ToSet(m) = ToSet(r) \cup {s}
  BY <1>3, <1>4, <1>5, AppendInjectiveSeq
<1>7. /\ DOMAIN m = 1..Len(q) /\ m[Len(q)] = s
      /\ \A j \in 1..(Len(q) - 1) : m[j] = r[j]
  <2>1. /\ Len(m) = Len(r) + 1 /\ m[Len(r) + 1] = s
        /\ \A j \in 1..Len(r) : m[j] = r[j]
    BY <1>3, <1>4, <1>5, AppendProperties
  <2>2. DOMAIN m = 1..Len(m)
    BY <1>6, LenProperties
  <2>3. Len(q) >= 1
    BY <1>1, <1>2
  <2> QED
    BY <1>1, <1>5, <2>1, <2>2, <2>3
<1>8. ASSUME NEW S, ComeLast(q, S) PROVE ComeLast(m, S \cup {s})
  <2> SUFFICES ASSUME NEW j \in 1..Len(q), NEW k \in 1..Len(q),
                      j < k, m[j] \in S \cup {s}
               PROVE  m[k] \in S \cup {s}
    BY <1>7 DEF ComeLast
  <2>1. CASE k = Len(q)
    BY <1>7, <2>1
  <2>2. CASE k # Len(q)
    <3> DEFINE at(x) == IF x < i THEN x ELSE x + 1
    <3>1. j \in 1..(Len(q) - 1) /\ k \in 1..(Len(q) - 1)
      <4>1. Len(q) \in Nat
        BY <1>1
      <4> QED
        BY <2>2, <4>1
    <3>2. /\ at(j) \in 1..Len(q) /\ at(k) \in 1..Len(q) /\ at(j) < at(k)
          /\ at(j) # i
          /\ m[j] = q[at(j)] /\ m[k] = q[at(k)]
      BY <1>1, <1>2, <1>5, <1>7, <3>1
    <3> HIDE DEF at
    <3>3. q[at(j)] # s
      BY <1>1, <1>2, <3>2 DEF Injective
    <3>4. q[at(k)] \in S
      BY <1>1, <1>8, <3>2, <3>3 DEF ComeLast
    <3> QED
      BY <3>2, <3>4
  <2> QED
    BY <2>1, <2>2
<1>9. ToSet(m) = ToSet(q)
  BY <1>2, <1>5, <1>6
<1> QED
  BY <1>6, <1>8, <1>9 DEF m

(* The oldest entry becomes the most recent.                               *)
LEMMA RotateKeeps ==
  ASSUME NEW U, NEW q \in Seq(U), q # << >>, Injective(q)
  PROVE  LET m == Append(Tail(q), Head(q))
         IN  /\ m \in Seq(U)
             /\ Injective(m)
             /\ ToSet(m) = ToSet(q)
             /\ \A S : ComeLast(q, S) => ComeLast(m, S \cup {Head(q)})
<1> DEFINE h == Head(q)
           t == Tail(q)
           m == Append(t, h)
<1>1. /\ Len(q) \in Nat \ {0} /\ DOMAIN q = 1..Len(q)
  BY LenProperties, EmptySeq
<1>2. /\ h = q[1] /\ h \in U /\ Len(t) = Len(q) - 1
      /\ \A j \in 1..(Len(q) - 1) : t[j] = q[j + 1]
  BY HeadTailProperties
<1>3. /\ h \in ToSet(q) /\ t \in Seq(U) /\ Injective(t)
      /\ ToSet(t) = ToSet(q) \ {h}
  BY TailInjective
<1> HIDE DEF h, t
<1>4. /\ m \in Seq(U) /\ Injective(m) /\ ToSet(m) = ToSet(t) \cup {h}
  BY <1>2, <1>3, AppendInjectiveSeq
<1>5. /\ DOMAIN m = 1..Len(q) /\ m[Len(q)] = h
      /\ \A j \in 1..(Len(q) - 1) : m[j] = q[j + 1]
  <2>1. /\ Len(m) = Len(t) + 1 /\ m[Len(t) + 1] = h
        /\ \A j \in 1..Len(t) : m[j] = t[j]
    BY <1>2, <1>3, AppendProperties
  <2>2. DOMAIN m = 1..Len(m)
    BY <1>4, LenProperties
  <2>3. Len(t) + 1 = Len(q)
    BY <1>1, <1>2
  <2> HIDE DEF m
  <2>4. \A j \in 1..(Len(q) - 1) : m[j] = q[j + 1]
    BY <1>2, <2>1
  <2> QED
    BY <2>1, <2>2, <2>3, <2>4
<1> HIDE DEF m
<1>6. ASSUME NEW S, ComeLast(q, S) PROVE ComeLast(m, S \cup {h})
  <2> SUFFICES ASSUME NEW j \in 1..Len(q), NEW k \in 1..Len(q),
                      j < k, m[j] \in S \cup {h}
               PROVE  m[k] \in S \cup {h}
    BY <1>5 DEF ComeLast
  <2>1. CASE k = Len(q)
    BY <1>5, <2>1
  <2>2. CASE k # Len(q)
    <3>1. /\ j + 1 \in 1..Len(q) /\ k + 1 \in 1..Len(q) /\ j + 1 < k + 1
          /\ m[j] = q[j + 1] /\ m[k] = q[k + 1]
      <4>1. Len(q) \in Nat
        BY <1>1
      <4>2. /\ j + 1 \in 1..Len(q) /\ k + 1 \in 1..Len(q) /\ j + 1 < k + 1
            /\ j \in 1..(Len(q) - 1) /\ k \in 1..(Len(q) - 1)
        BY <2>2, <4>1
      <4> QED
        BY <1>5, <4>2
    <3>2. q[j + 1] # h
      <4>1. 1 \in 1..Len(q) /\ j + 1 # 1
        BY <1>1
      <4> QED
        BY <1>1, <1>2, <3>1, <4>1 DEF Injective
    <3>3. q[k + 1] \in S
      BY <1>1, <1>6, <3>1, <3>2 DEF ComeLast
    <3> QED
      BY <3>1, <3>3
  <2> QED
    BY <2>1, <2>2
<1>7. ToSet(m) = ToSet(q)
  BY <1>3, <1>4
<1> QED
  BY <1>4, <1>6, <1>7 DEF m, h, t

(* Where the oldest entry is among those that come last, all entries are.  *)
LEMMA LastFromFirst ==
  ASSUME NEW U, NEW q \in Seq(U), q # << >>, NEW S, ComeLast(q, S), Head(q) \in S
  PROVE  ToSet(q) \subseteq S
<1>1. /\ Len(q) \in Nat \ {0} /\ DOMAIN q = 1..Len(q) /\ Head(q) = q[1]
  BY LenProperties, EmptySeq, HeadTailProperties
<1>2. \A j \in 1..Len(q) : q[j] \in S
  <2> SUFFICES ASSUME NEW j \in 1..Len(q), j # 1 PROVE q[j] \in S
    BY <1>1
  <2>1. 1 \in 1..Len(q) /\ 1 < j
    BY <1>1
  <2> QED
    BY <1>1, <2>1 DEF ComeLast
<1> QED
  BY <1>1, <1>2 DEF ToSet

(* An appended entry comes last.                                           *)
LEMMA AppendLast ==
  ASSUME NEW U, NEW q \in Seq(U), NEW s \in U, s \notin ToSet(q), NEW S, ComeLast(q, S)
  PROVE  ComeLast(Append(q, s), S \cup {s})
<1> DEFINE r == Append(q, s)
<1>1. /\ r \in Seq(U) /\ Len(r) = Len(q) + 1 /\ DOMAIN r = 1..Len(r)
      /\ DOMAIN q = 1..Len(q) /\ Len(q) \in Nat
  BY LenProperties, AppendProperties
<1>2. /\ \A i \in 1..Len(q) : r[i] = q[i] /\ q[i] # s
      /\ r[Len(q) + 1] = s
  BY <1>1, AppendProperties DEF ToSet
<1> HIDE DEF r
<1>3. ASSUME NEW i \in DOMAIN r, NEW j \in DOMAIN r, i < j, r[i] \in S \cup {s}
      PROVE  r[j] \in S \cup {s}
  <2>1. CASE j = Len(q) + 1
    BY <1>2, <2>1
  <2>2. CASE j # Len(q) + 1
    <3>1. i \in DOMAIN q /\ j \in DOMAIN q
      BY <1>1, <1>3, <2>2
    <3>2. r[i] = q[i] /\ r[j] = q[j] /\ q[i] \in S
      BY <1>1, <1>2, <1>3, <3>1
    <3> QED
      BY <1>3, <3>1, <3>2 DEF ComeLast
  <2> QED
    BY <2>1, <2>2
<1> QED
  BY <1>3 DEF ComeLast, r

-----------------------------------------------------------------------------

(* The entries of q seen through f.                                        *)
Through(f, q) == [i \in DOMAIN q |-> f[q[i]]]

(* What Through keeps.                                                     *)
LEMMA ThroughType ==
  ASSUME NEW S, NEW q \in Seq(S), NEW f, NEW T, \A s \in ToSet(q) : f[s] \in T
  PROVE  /\ Through(f, q) \in Seq(T)
         /\ Len(Through(f, q)) = Len(q)
         /\ DOMAIN Through(f, q) = 1..Len(q)
         /\ \A i \in 1..Len(q) : Through(f, q)[i] = f[q[i]]
<1> DEFINE r == Through(f, q)
<1>1. Len(q) \in Nat /\ DOMAIN q = 1..Len(q)
  BY LenProperties
<1>2. r = [i \in 1..Len(q) |-> f[q[i]]]
  BY <1>1 DEF Through
<1>3. \A i \in 1..Len(q) : f[q[i]] \in T
  BY <1>1 DEF ToSet
<1> HIDE DEF r
<1>4. r \in [1..Len(q) -> T]
  BY <1>2, <1>3
<1>5. r \in Seq(T)
  BY <1>1, <1>4, SeqDef
<1>6. Len(r) = Len(q)
  BY <1>1, <1>4, <1>5, LenProperties
<1> QED
  BY <1>2, <1>5, <1>6 DEF r

(* Taking an entry out before or after looking through f.                  *)
LEMMA ThroughRemove ==
  ASSUME NEW S, NEW q \in Seq(S), NEW f, NEW i \in DOMAIN q
  PROVE  Through(f, RemoveAt(q, i)) = RemoveAt(Through(f, q), i)
<1> DEFINE T == {f[s] : s \in S}
           p == RemoveAt(q, i)
           r == Through(f, q)
<1>1. Len(q) \in Nat /\ DOMAIN q = 1..Len(q) /\ \A j \in 1..Len(q) : q[j] \in S
  BY LenProperties, ElementOfSeq
<1>2. /\ p \in Seq(S) /\ Len(p) = Len(q) - 1
      /\ \A j \in 1..(Len(q) - 1) : p[j] = IF j < i THEN q[j] ELSE q[j + 1]
  BY <1>1, RemoveAtType
<1>3. /\ \A j \in DOMAIN p : p[j] \in S
  BY <1>2, ElementOfSeq, LenProperties
<1> HIDE DEF p
<1>4. \A s \in ToSet(q) \cup ToSet(p) : f[s] \in T
  BY <1>1, <1>3 DEF ToSet
<1> HIDE DEF T
<1>5. /\ r \in Seq(T) /\ Len(r) = Len(q)
      /\ \A j \in 1..Len(q) : r[j] = f[q[j]]
  BY <1>4, ThroughType
<1>6. /\ Through(f, p) \in Seq(T) /\ Len(Through(f, p)) = Len(p)
      /\ \A j \in 1..Len(p) : Through(f, p)[j] = f[p[j]]
  BY <1>2, <1>4, ThroughType
<1> HIDE DEF r
<1>7. /\ RemoveAt(r, i) \in Seq(T) /\ Len(RemoveAt(r, i)) = Len(r) - 1
      /\ \A j \in 1..(Len(r) - 1) :
           RemoveAt(r, i)[j] = IF j < i THEN r[j] ELSE r[j + 1]
  BY <1>1, <1>5, RemoveAtType
<1>8. ASSUME NEW j \in 1..(Len(q) - 1)
      PROVE  Through(f, p)[j] = RemoveAt(r, i)[j]
  <2>1. j \in 1..Len(q) /\ j + 1 \in 1..Len(q) /\ j \in 1..Len(p)
    BY <1>1, <1>2
  <2>2. CASE j < i
    BY <1>2, <1>5, <1>6, <1>7, <2>1, <2>2
  <2>3. CASE ~ (j < i)
    BY <1>2, <1>5, <1>6, <1>7, <2>1, <2>3
  <2> QED
    BY <2>2, <2>3
<1> QED
  BY <1>2, <1>5, <1>6, <1>7, <1>8, SeqEqual DEF p, r

(* A new last entry, seen through a function that may differ from f there. *)
LEMMA ThroughAppend ==
  ASSUME NEW S, NEW q \in Seq(S), NEW s \in S, NEW f, NEW g,
         \A t \in ToSet(q) : g[t] = f[t]
  PROVE  Through(g, Append(q, s)) = Append(Through(f, q), g[s])
<1> DEFINE T == {f[t] : t \in S} \cup {g[t] : t \in S}
           p == Append(q, s)
           r == Through(f, q)
<1>1. Len(q) \in Nat /\ DOMAIN q = 1..Len(q) /\ \A j \in 1..Len(q) : q[j] \in S
  BY LenProperties, ElementOfSeq
<1>2. /\ p \in Seq(S) /\ Len(p) = Len(q) + 1
      /\ \A j \in 1..Len(q) : p[j] = q[j]
      /\ p[Len(q) + 1] = s
  BY AppendProperties
<1> HIDE DEF p
<1>3. \A t \in ToSet(q) : f[t] \in T
  BY <1>1 DEF ToSet
<1>4. \A t \in ToSet(p) : g[t] \in T
  <2>1. \A j \in DOMAIN p : p[j] \in S
    BY <1>2, ElementOfSeq, LenProperties
  <2> QED
    BY <2>1 DEF ToSet
<1>5. g[s] \in T
  OBVIOUS
<1> HIDE DEF T
<1>6. /\ r \in Seq(T) /\ Len(r) = Len(q)
      /\ \A j \in 1..Len(q) : r[j] = f[q[j]]
  BY <1>3, ThroughType
<1>7. /\ Through(g, p) \in Seq(T) /\ Len(Through(g, p)) = Len(p)
      /\ \A j \in 1..Len(p) : Through(g, p)[j] = g[p[j]]
  BY <1>2, <1>4, ThroughType
<1> HIDE DEF r
<1>8. /\ Append(r, g[s]) \in Seq(T) /\ Len(Append(r, g[s])) = Len(r) + 1
      /\ \A j \in 1..Len(r) : Append(r, g[s])[j] = r[j]
      /\ Append(r, g[s])[Len(r) + 1] = g[s]
  BY <1>5, <1>6, AppendProperties
<1>9. ASSUME NEW j \in 1..(Len(q) + 1)
      PROVE  Through(g, p)[j] = Append(r, g[s])[j]
  <2>1. CASE j \in 1..Len(q)
    <3>1. g[q[j]] = f[q[j]]
      BY <1>1, <2>1 DEF ToSet
    <3> QED
      BY <1>2, <1>6, <1>7, <1>8, <2>1, <3>1
  <2>2. CASE j = Len(q) + 1
    <3>1. j \in 1..Len(p) /\ p[j] = s /\ j = Len(r) + 1
      BY <1>1, <1>2, <1>6, <2>2
    <3> QED
      BY <1>7, <1>8, <3>1
  <2>3. j \in 1..Len(q) \/ j = Len(q) + 1
    BY <1>1
  <2> QED
    BY <2>1, <2>2, <2>3
<1> QED
  BY <1>1, <1>2, <1>6, <1>7, <1>8, <1>9, SeqEqual DEF p, r

(* Induction over the subsets of a finite set.                             *)
LEMMA BySubsets ==
  ASSUME NEW S, IsFiniteSet(S), NEW G,
         \A T \in SUBSET S : (\A x \in T : T \ {x} \in G) => T \in G
  PROVE  \A T \in SUBSET S : T \in G
<1> DEFINE n == Cardinality(S)
           H == {m \in 0 .. n : \A T \in SUBSET S : Cardinality(T) <= m => T \in G}
<1>1. n \in Nat /\ \A T \in SUBSET S : IsFiniteSet(T) /\ Cardinality(T) \in Nat /\ Cardinality(T) <= n
  BY FS_CardinalityType, FS_Subset
<1>2. 0 \in H
  <2>1. ASSUME NEW T \in SUBSET S, Cardinality(T) <= 0 PROVE T \in G
    <3>1. T = {}
      BY <1>1, <2>1, FS_EmptySet
    <3> QED
      BY <3>1
  <2> QED
    BY <1>1, <2>1
<1>3. ASSUME NEW m \in 1 .. n, m - 1 \in H PROVE m \in H
  <2>1. ASSUME NEW T \in SUBSET S, Cardinality(T) <= m PROVE T \in G
    <3>1. ASSUME NEW x \in T PROVE T \ {x} \in G
      <4>1. T \ {x} \in SUBSET S /\ IsFiniteSet(T)
        BY <1>1
      <4>2. Cardinality(T \ {x}) = Cardinality(T) - 1
        BY <4>1, FS_RemoveElement
      <4>3. Cardinality(T \ {x}) <= m - 1
        BY <1>1, <2>1, <4>2
      <4> QED
        BY <1>3, <4>1, <4>3
    <3> QED
      BY <3>1
  <2> QED
    BY <2>1
<1> HIDE DEF H
<1>4. \A m \in 0 .. n : m \in H
  BY <1>1, <1>2, <1>3, Upwards
<1>5. n \in 0 .. n /\ n \in H
  BY <1>1, <1>4
<1> QED
  BY <1>1, <1>5 DEF H

(* In a strict order of a finite set, m elements have fewer than m before. *)
LEMMA Ranks ==
  ASSUME NEW T, IsFiniteSet(T), NEW below \in [T -> SUBSET T],
         \A k \in T : k \notin below[k],
         \A j, k \in T : j \in below[k] => below[j] \subseteq below[k],
         \A j, k \in T : j \in below[k] \/ k \in below[j] \/ j = k,
         NEW m \in 0 .. Cardinality(T)
  PROVE  Cardinality({k \in T : Cardinality(below[k]) < m}) = m
<1> DEFINE n == Cardinality(T)
           f(k) == Cardinality(below[k])
           L == {k \in T : f(k) < m}
           U == {k \in T : ~ (f(k) < m)}
<1>1. n \in Nat /\ m \in Nat /\ m <= n
  BY FS_CardinalityType
<1>2. \A k \in T : IsFiniteSet(below[k]) /\ f(k) \in Nat /\ f(k) < n
  <2> SUFFICES ASSUME NEW k \in T
               PROVE  IsFiniteSet(below[k]) /\ f(k) \in Nat /\ f(k) < n
    OBVIOUS
  <2>1. below[k] \in SUBSET T /\ below[k] # T
    OBVIOUS
  <2>2. /\ IsFiniteSet(below[k]) /\ f(k) <= n /\ (n = f(k) => T = below[k])
    BY <2>1, FS_Subset
  <2>3. f(k) \in Nat
    BY <2>2, FS_CardinalityType
  <2> QED
    BY <1>1, <2>1, <2>2, <2>3
<1>3. \A j, k \in T : j \in below[k] => f(j) < f(k)
  <2> SUFFICES ASSUME NEW j \in T, NEW k \in T, j \in below[k] PROVE f(j) < f(k)
    OBVIOUS
  <2>1. below[j] \in SUBSET below[k] /\ below[j] # below[k]
    OBVIOUS
  <2>2. f(j) <= f(k) /\ f(k) # f(j)
    BY <1>2, <2>1, FS_Subset
  <2> QED
    BY <1>2, <2>2
<1>4. \A j, k \in T : f(j) = f(k) => j = k
  <2> SUFFICES ASSUME NEW j \in T, NEW k \in T, f(j) = f(k), j # k PROVE FALSE
    OBVIOUS
  <2>1. f(j) < f(k) \/ f(k) < f(j)
    BY <1>3
  <2> QED
    BY <1>2, <2>1
<1> HIDE DEF f, n
<1>5. IsFiniteSet(L) /\ IsFiniteSet(U) /\ Cardinality(L) + Cardinality(U) = n
  <2>1. L \in SUBSET T /\ U = T \ L /\ T \cap L = L
    OBVIOUS
  <2>2. IsFiniteSet(L)
    BY <2>1, FS_Subset
  <2>3. IsFiniteSet(T \ L) /\ Cardinality(T \ L) = n - Cardinality(L)
    BY <2>1, FS_Difference DEF n
  <2>4. Cardinality(L) \in Nat
    BY <2>2, FS_CardinalityType
  <2> HIDE DEF L, U
  <2> QED
    BY <1>1, <2>1, <2>2, <2>3, <2>4
<1>6. Cardinality(L) <= m
  <2>1. [k \in L |-> f(k)] \in Injection(L, 0 .. m - 1)
    BY <1>1, <1>2, <1>4 DEF Injection, IsInjective
  <2>2. IsFiniteSet(0 .. m - 1) /\ Cardinality(0 .. m - 1) = m
    BY <1>1, FS_Interval
  <2> HIDE DEF L
  <2> QED
    BY <2>1, <2>2, FS_Injection
<1>7. Cardinality(U) <= n - m
  <2>1. [k \in U |-> f(k)] \in Injection(U, m .. n - 1)
    BY <1>1, <1>2, <1>4 DEF Injection, IsInjective
  <2>2. IsFiniteSet(m .. n - 1) /\ Cardinality(m .. n - 1) = n - m
    BY <1>1, FS_Interval
  <2> HIDE DEF U
  <2> QED
    BY <2>1, <2>2, FS_Injection
<1>8. Cardinality(L) \in Nat /\ Cardinality(U) \in Nat
  BY <1>5, FS_CardinalityType
<1> HIDE DEF L, U
<1>9. Cardinality(L) = m
  BY <1>1, <1>5, <1>6, <1>7, <1>8
<1> QED
  BY <1>9 DEF L, f

(* The sums of a function over all subsets of a set.                       *)
Sums(h, f, S) ==
  /\ h \in [SUBSET S -> Int] /\ h[{}] = 0
  /\ \A T \in SUBSET S : \A x \in T : h[T] = f[x] + h[T \ {x}]

LEMMA SumTable ==
  ASSUME NEW S, IsFiniteSet(S), NEW f, \A x \in S : f[x] \in Int
  PROVE  \E h : Sums(h, f, S) /\ FoldFunctionOnSet(+, 0, f, S) = h[S]
<1> DEFINE pick == [T \in SUBSET S |-> CHOOSE x \in T : TRUE]
           turn == [x \in S \X Int |-> f[x[1]] + x[2]]
           Next(g) == [T \in SUBSET S |-> IF T = {} THEN 0 ELSE f[CHOOSE x \in T : TRUE] + g[T \ {CHOOSE x \in T : TRUE}]]
           table == CHOOSE g : g = Next(g)
<1>1. FoldFunctionOnSet(+, 0, f, S) = table[S]
  BY DEF FoldFunctionOnSet, MapThenFoldSet
<1>2. Picks(pick, S)
  BY DEF Picks
<1>3. Advances(turn, S, Int)
  BY DEF Advances
<1>4. \A T \in SUBSET S : pick[T] = CHOOSE x \in T : TRUE
  OBVIOUS
<1>5. \A x \in S, d \in Int : turn[<<x, d>>] = f[x] + d
  OBVIOUS
<1> HIDE DEF pick, turn
<1>6. PICK h : Tabulates(h, S, Int, 0, pick, turn)
  <2>1. PICK D, b : b \in D /\ D = Int /\ b = 0
    OBVIOUS
  <2>2. Advances(turn, S, D)
    BY <1>3, <2>1
  <2>3. \E h : Tabulates(h, S, D, b, pick, turn)
    BY <1>2, <2>1, <2>2, SubsetRecursion
  <2> QED
    BY <2>1, <2>3
<1>7. h \in [SUBSET S -> Int] /\ h[{}] = 0
  BY <1>6 DEF Tabulates
<1>8. ASSUME NEW T \in SUBSET S, T # {}
      PROVE  pick[T] \in T /\ h[T] = f[pick[T]] + h[T \ {pick[T]}]
  <2>1. pick[T] \in T /\ h[T] = turn[<<pick[T], h[T \ {pick[T]}]>>] /\ T \ {pick[T]} \in SUBSET S
    BY <1>2, <1>6, <1>8 DEF Tabulates, Picks
  <2>2. h[T \ {pick[T]}] \in Int
    BY <1>7, <2>1
  <2> QED
    BY <1>5, <2>1, <2>2
<1>9. h = Next(h)
  <2>1. ASSUME NEW T \in SUBSET S PROVE h[T] = Next(h)[T]
    <3>1. CASE T = {}
      BY <1>7, <3>1
    <3>2. CASE T # {}
      BY <1>4, <1>8, <3>2
    <3> QED
      BY <3>1, <3>2
  <2> QED
    BY <1>7, <2>1
<1>10. table = Next(table)
  BY <1>9
<1> HIDE DEF table
<1>11. ASSUME NEW T \in SUBSET S PROVE table[T] = h[T]
  <2> DEFINE G == {U \in SUBSET S : table[U] = h[U]}
  <2>1. ASSUME NEW U \in SUBSET S, \A x \in U : U \ {x} \in G PROVE U \in G
    <3>1. CASE U = {}
      BY <1>7, <1>10, <3>1
    <3>2. CASE U # {}
      <4>1. pick[U] \in U /\ h[U] = f[pick[U]] + h[U \ {pick[U]}]
        BY <1>8, <3>2
      <4>2. table[U] = f[pick[U]] + table[U \ {pick[U]}]
        BY <1>4, <1>10, <3>2
      <4> QED
        BY <2>1, <4>1, <4>2
    <3> QED
      BY <3>1, <3>2
  <2> HIDE DEF G
  <2>2. \A U \in SUBSET S : U \in G
    BY <2>1, BySubsets
  <2> QED
    BY <2>2 DEF G
<1>12. ASSUME NEW T \in SUBSET S, NEW x \in T PROVE h[T] = f[x] + h[T \ {x}]
  <2> DEFINE G == {U \in SUBSET S : \A y \in U : h[U] = f[y] + h[U \ {y}]}
  <2>1. ASSUME NEW U \in SUBSET S, \A y \in U : U \ {y} \in G PROVE U \in G
    <3> SUFFICES ASSUME NEW y \in U PROVE h[U] = f[y] + h[U \ {y}]
      OBVIOUS
    <3>1. PICK p \in U : h[U] = f[p] + h[U \ {p}]
      BY <1>8
    <3>2. CASE p = y
      BY <3>1, <3>2
    <3>3. CASE p # y
      <4>1. U \ {p} \in G /\ U \ {y} \in G
        BY <2>1
      <4>2. h[U \ {p}] = f[y] + h[(U \ {p}) \ {y}] /\ h[U \ {y}] = f[p] + h[(U \ {y}) \ {p}]
        BY <3>3, <4>1
      <4>3. (U \ {p}) \ {y} = (U \ {y}) \ {p} /\ (U \ {p}) \ {y} \in SUBSET S
        OBVIOUS
      <4>4. PICK rest \in Int, fp \in Int, fy \in Int : rest = h[(U \ {p}) \ {y}] /\ fp = f[p] /\ fy = f[y]
        <5>1. h[(U \ {p}) \ {y}] \in Int /\ f[p] \in Int /\ f[y] \in Int
          BY <1>7, <4>3
        <5> QED
          BY <5>1
      <4>5. h[U \ {p}] = fy + rest /\ h[U \ {y}] = fp + rest
        BY <4>2, <4>3, <4>4
      <4>6. h[U] = fp + (fy + rest) /\ f[y] + h[U \ {y}] = fy + (fp + rest)
        BY <3>1, <4>4, <4>5
      <4>7. fp + (fy + rest) = fy + (fp + rest)
        BY <4>4
      <4> QED
        BY <4>6, <4>7
    <3> QED
      BY <3>2, <3>3
  <2> HIDE DEF G
  <2>2. \A U \in SUBSET S : U \in G
    BY <2>1, BySubsets
  <2> QED
    BY <2>2 DEF G
<1>13. Sums(h, f, S)
  BY <1>7, <1>12 DEF Sums
<1> QED
  BY <1>1, <1>11, <1>13

(* Two tables agree where the functions do.                                *)
LEMMA SumsAgree ==
  ASSUME NEW S, IsFiniteSet(S), NEW A, S \subseteq A, NEW B, S \subseteq B, NEW f, NEW g, \A x \in S : f[x] = g[x],
         NEW h, Sums(h, f, A), NEW k, Sums(k, g, B)
  PROVE  h[S] = k[S]
<1> DEFINE G == {U \in SUBSET S : h[U] = k[U]}
<1>1. ASSUME NEW U \in SUBSET S, \A x \in U : U \ {x} \in G PROVE U \in G
  <2>1. CASE U = {}
    BY <2>1 DEF Sums
  <2>2. CASE U # {}
    <3>1. PICK x \in U : x \in S /\ h[U \ {x}] = k[U \ {x}]
      BY <1>1, <2>2
    <3>2. h[U] = f[x] + h[U \ {x}] /\ k[U] = g[x] + k[U \ {x}]
      BY DEF Sums
    <3> QED
      BY <3>1, <3>2
  <2> QED
    BY <2>1, <2>2
<1> HIDE DEF G
<1>2. \A U \in SUBSET S : U \in G
  BY <1>1, BySubsets
<1> QED
  BY <1>2 DEF G

(* Of naturals: a part is no more than the whole.                          *)
LEMMA SumsGrow ==
  ASSUME NEW S, IsFiniteSet(S), NEW f, \A x \in S : f[x] \in Nat, NEW h, Sums(h, f, S), NEW T \in SUBSET S
  PROVE  0 <= h[T] /\ h[T] <= h[S]
<1> DEFINE G == {U \in SUBSET S : \A V \in SUBSET U : 0 <= h[V] /\ h[V] <= h[U]}
<1>1. ASSUME NEW U \in SUBSET S, \A x \in U : U \ {x} \in G PROVE U \in G
  <2>1. ASSUME NEW V \in SUBSET U, U = {} PROVE 0 <= h[V] /\ h[V] <= h[U]
    <3>1. V = {} /\ h[V] = 0 /\ h[U] = 0
      BY <2>1 DEF Sums
    <3> QED
      BY <3>1
  <2>2. ASSUME NEW V \in SUBSET U, U # {} PROVE 0 <= h[V] /\ h[V] <= h[U]
    <3>0. \A x \in U : h[U] = f[x] + h[U \ {x}] /\ f[x] \in Nat /\ h[U \ {x}] \in Int
      BY DEF Sums
    <3>1. CASE V = U
      <4>1. PICK x \in U : TRUE
        BY <2>2
      <4>2. 0 <= h[U \ {x}] /\ h[U \ {x}] \in Int
        BY <1>1, <3>0
      <4> QED
        BY <3>0, <3>1, <4>2
    <3>2. CASE V # U
      <4>1. PICK x \in U : x \notin V
        BY <3>2
      <4>2. U \ {x} \in G /\ V \in SUBSET (U \ {x})
        BY <1>1, <4>1
      <4>3. 0 <= h[V] /\ h[V] <= h[U \ {x}] /\ h[V] \in Int
        BY <4>2 DEF Sums
      <4>4. PICK whole \in Int, less \in Int, fx \in Nat : whole = h[U] /\ less = h[U \ {x}] /\ fx = f[x]
        <5>1. h[U] \in Int /\ h[U \ {x}] \in Int /\ f[x] \in Nat
          BY <3>0 DEF Sums
        <5> QED
          BY <5>1
      <4>5. whole = fx + less
        BY <3>0, <4>4
      <4>6. h[V] <= less /\ less <= whole /\ h[V] \in Int
        BY <4>3, <4>4, <4>5
      <4>7. h[V] <= whole
        BY <4>4, <4>6
      <4> QED
        BY <4>3, <4>4, <4>7
    <3> QED
      BY <3>1, <3>2
  <2> QED
    BY <2>1, <2>2
<1> HIDE DEF G
<1>2. \A U \in SUBSET S : U \in G
  BY <1>1, BySubsets
<1> QED
  BY <1>2 DEF G

(* A property that fails for some number from 1 to n fails for a first one.*)
LEMMA FirstFailure ==
  ASSUME NEW n \in Nat, NEW B \in SUBSET (1..n), B # {}
  PROVE  \E k \in 1..n : k \in B /\ (k # 1 => k - 1 \in (1..n) \ B)
<1>1. B \in SUBSET Nat
  OBVIOUS
<1>2. PICK k \in B : \A j \in B : k <= j
  BY <1>1, LeastNatural
<1>3. k \in 1..n /\ (k # 1 => k - 1 \in 1..n /\ k - 1 \notin B)
  BY <1>2
<1> QED
  BY <1>2, <1>3

(* A concatenation has the entries of both.                                *)
LEMMA ConcatEntries ==
  ASSUME NEW S, NEW a \in Seq(S), NEW b \in Seq(S)
  PROVE  ToSet(a \o b) = ToSet(a) \cup ToSet(b)
<1>1. /\ Len(a) \in Nat /\ Len(b) \in Nat
      /\ DOMAIN a = 1..Len(a) /\ DOMAIN b = 1..Len(b)
  BY LenProperties
<1>2. a \o b \in Seq(S) /\ Len(a \o b) = Len(a) + Len(b)
  BY ConcatProperties
<1>3. DOMAIN (a \o b) = 1..(Len(a) + Len(b))
  BY <1>2, LenProperties
<1>4. /\ \A i \in 1..Len(a) : (a \o b)[i] = a[i] /\ i \in 1..(Len(a) + Len(b))
      /\ \A i \in 1..Len(b) : /\ (a \o b)[Len(a) + i] = b[i]
                              /\ Len(a) + i \in 1..(Len(a) + Len(b))
  <2>1. \A i \in 1..(Len(a) + Len(b)) :
           (a \o b)[i] = IF i <= Len(a) THEN a[i] ELSE b[i - Len(a)]
    BY ConcatProperties
  <2>2. \A i \in 1..Len(a) : i \in 1..(Len(a) + Len(b)) /\ i <= Len(a)
    BY <1>1
  <2>3. \A i \in 1..Len(b) : /\ Len(a) + i \in 1..(Len(a) + Len(b))
                             /\ ~ (Len(a) + i <= Len(a))
                             /\ (Len(a) + i) - Len(a) = i
    BY <1>1
  <2> QED
    BY <2>1, <2>2, <2>3
<1>5. \A i \in 1..(Len(a) + Len(b)) :
        i \in 1..Len(a) \/ \E j \in 1..Len(b) : i = Len(a) + j
  <2> TAKE i \in 1..(Len(a) + Len(b))
  <2>1. i \in 1..Len(a) \/ (i - Len(a) \in 1..Len(b) /\ i = Len(a) + (i - Len(a)))
    BY <1>1
  <2> QED
    BY <2>1
<1>6. ToSet(a \o b) \subseteq ToSet(a) \cup ToSet(b)
  BY <1>1, <1>3, <1>4, <1>5 DEF ToSet
<1>7. ToSet(a) \subseteq ToSet(a \o b)
  BY <1>1, <1>3, <1>4 DEF ToSet
<1>8. ToSet(b) \subseteq ToSet(a \o b)
  BY <1>1, <1>3, <1>4 DEF ToSet
<1> QED
  BY <1>6, <1>7, <1>8

(* FlattenSeq appends the sequences one after the other.  That its         *)
(* recursive function exists, and that its values are sequences, is shown  *)
(* by looking at the first index where that would fail.                    *)
LEMMA FlattenUnfolds ==
  ASSUME NEW S, NEW seqs \in Seq(Seq(S)), seqs # << >>
  PROVE  \E f \in [1..Len(seqs) -> Seq(S)] :
           /\ f[1] = seqs[1]
           /\ \A i \in 2..Len(seqs) : f[i] = f[i - 1] \o seqs[i]
           /\ FlattenSeq(seqs) = f[Len(seqs)]
<1> DEFINE n == Len(seqs)
           V(g, i) == IF i = 1 THEN seqs[i] ELSE g[i - 1] \o seqs[i]
           h == CHOOSE g : g = [i \in 1..n |-> V(g, i)]
<1>1. n \in Nat \ {0} /\ \A i \in 1..n : seqs[i] \in Seq(S)
  BY LenProperties, EmptySeq, ElementOfSeq
<1>2. FlattenSeq(seqs) = h[n]
  <2>1. Len(seqs) # 0
    BY <1>1
  <2> QED
    BY <2>1 DEF FlattenSeq
<1> HIDE DEF n
<1>3. \E g : g = [i \in 1..n |-> V(g, i)]
  <2> DEFINE Bad == {k \in 1..n : \A g : g # [i \in 1..k |-> V(g, i)]}
  <2> SUFFICES ASSUME \A g : g # [i \in 1..n |-> V(g, i)] PROVE FALSE
    OBVIOUS
  <2>1. Bad # {}
    <3>1. n \in 1..n
      BY <1>1
    <3> HIDE DEF V
    <3> QED
      BY <3>1
  <2>2. Bad \in SUBSET (1..n)
    OBVIOUS
  <2> HIDE DEF Bad
  <2>3. PICK k \in 1..n : k \in Bad /\ (k # 1 => k - 1 \in (1..n) \ Bad)
    BY <1>1, <2>1, <2>2, FirstFailure
  <2>4. CASE k = 1
    <3> DEFINE g == [i \in 1..1 |-> seqs[1]]
    <3>1. g = [i \in 1..1 |-> V(g, i)]
      OBVIOUS
    <3> HIDE DEF g
    <3> QED
      BY <2>3, <2>4, <3>1 DEF Bad
  <2>5. CASE k # 1
    <3>1. PICK g : g = [i \in 1..(k - 1) |-> V(g, i)]
      BY <2>3, <2>5 DEF Bad
    <3> DEFINE d == [i \in 1..k |-> V(g, i)]
    <3>2. \A i \in 1..(k - 1) : d[i] = g[i]
      <4> HIDE DEF V
      <4>0. \A i \in 1..(k - 1) : i \in 1..k
        BY <1>1
      <4>1. \A i \in 1..(k - 1) : i \in 1..k /\ g[i] = V(g, i)
        BY <3>1, <4>0
      <4>2. \A i \in 1..k : d[i] = V(g, i)
        OBVIOUS
      <4> HIDE DEF d
      <4> QED
        BY <4>1, <4>2
    <3>3. \A i \in 1..k : V(d, i) = V(g, i)
      <4>1. \A i \in 1..k : i # 1 => i - 1 \in 1..(k - 1)
        OBVIOUS
      <4> HIDE DEF d
      <4> QED
        BY <3>2, <4>1
    <3>4. d = [i \in 1..k |-> V(d, i)]
      <4>1. d = [i \in 1..k |-> V(g, i)]
        OBVIOUS
      <4> HIDE DEF d, V
      <4> QED
        BY <3>3, <4>1
    <3> HIDE DEF d
    <3> QED
      BY <2>3, <3>4 DEF Bad
  <2> QED
    BY <2>4, <2>5
<1>4. h = [i \in 1..n |-> V(h, i)]
  <2> HIDE DEF V
  <2> QED
    BY <1>3
<1> HIDE DEF h
<1>5. \A i \in 1..n : h[i] \in Seq(S)
  <2> DEFINE Bad == {k \in 1..n : h[k] \notin Seq(S)}
  <2>1. SUFFICES ASSUME Bad # {} PROVE FALSE
    OBVIOUS
  <2>2. Bad \in SUBSET (1..n)
    OBVIOUS
  <2> HIDE DEF Bad
  <2>3. PICK k \in 1..n : k \in Bad /\ (k # 1 => k - 1 \in (1..n) \ Bad)
    BY <1>1, <2>1, <2>2, FirstFailure
  <2>4. h[k] = V(h, k) /\ seqs[k] \in Seq(S)
    BY <1>1, <1>4, <2>3
  <2>5. k # 1 => h[k - 1] \in Seq(S)
    BY <2>3 DEF Bad
  <2>6. h[k] \in Seq(S)
    BY <2>4, <2>5, ConcatProperties
  <2> QED
    BY <2>3, <2>6 DEF Bad
<1>6. h \in [1..n -> Seq(S)]
  <2> HIDE DEF V
  <2> QED
    BY <1>4, <1>5
<1>7. h[1] = seqs[1] /\ \A i \in 2..n : h[i] = h[i - 1] \o seqs[i]
  <2>1. 1 \in 1..n /\ \A i \in 2..n : i \in 1..n /\ i # 1
    BY <1>1
  <2> QED
    BY <1>4, <2>1
<1> QED
  BY <1>2, <1>6, <1>7 DEF n

(* What holds of each of the sequences and of the concatenation of any two *)
(* that have it, holds of the flattened whole.                             *)
LEMMA FlattenIn ==
  ASSUME NEW S, NEW L \in SUBSET Seq(S), << >> \in L,
         \A a, b \in L : a \o b \in L,
         NEW seqs \in Seq(L)
  PROVE  FlattenSeq(seqs) \in L
<1>1. CASE seqs = << >>
  <2>1. Len(seqs) = 0
    BY <1>1
  <2> QED
    BY <1>1, <2>1 DEF FlattenSeq
<1>2. CASE seqs # << >>
  <2> DEFINE n == Len(seqs)
  <2>1. n \in Nat \ {0} /\ \A i \in 1..n : seqs[i] \in L
    BY <1>2, LenProperties, EmptySeq, ElementOfSeq
  <2>2. seqs \in Seq(Seq(S))
    <3>1. seqs \in [1..n -> L]
      BY LenProperties
    <3>2. seqs \in [1..n -> Seq(S)]
      BY <3>1
    <3> QED
      BY <2>1, <3>2, SeqDef
  <2>3. PICK f \in [1..n -> Seq(S)] :
           /\ f[1] = seqs[1]
           /\ \A i \in 2..n : f[i] = f[i - 1] \o seqs[i]
           /\ FlattenSeq(seqs) = f[n]
    BY <1>2, <2>2, FlattenUnfolds
  <2> HIDE DEF n
  <2> DEFINE Bad == {k \in 1..n : f[k] \notin L}
  <2> SUFFICES ASSUME f[n] \notin L PROVE FALSE
    BY <2>3
  <2>4. Bad # {}
    <3>1. n \in 1..n
      BY <2>1
    <3> QED
      BY <3>1
  <2>5. Bad \in SUBSET (1..n)
    OBVIOUS
  <2> HIDE DEF Bad
  <2>6. PICK k \in 1..n : k \in Bad /\ (k # 1 => k - 1 \in (1..n) \ Bad)
    BY <2>1, <2>4, <2>5, FirstFailure
  <2>7. CASE k = 1
    BY <2>1, <2>3, <2>6, <2>7 DEF Bad
  <2>8. CASE k # 1
    <3>1. k \in 2..n
      BY <2>1, <2>6, <2>8
    <3>2. f[k - 1] \in L /\ seqs[k] \in L
      BY <2>1, <2>6, <2>8 DEF Bad
    <3> QED
      BY <2>3, <2>6, <3>1, <3>2 DEF Bad
  <2> QED
    BY <2>7, <2>8
<1> QED
  BY <1>1, <1>2

=============================================================================
