-------------------------- MODULE QueueSlicesProofs --------------------------
(***************************************************************************)
(* TLAPS proofs about the operators of QueueSlices: however slices are     *)
(* split, merged, compacted, shrunk and cleared, what comes of them is     *)
(* well formed, in order, and holds every task that is not acknowledged.   *)
(*                                                                         *)
(* Keeps(X, Y) says this of a set of slices X and what has become of it.   *)
(* It composes (KeepsThen, KeepsBoth), so there is one lemma for each      *)
(* operation on a slice, on a list and on a reader.  Folds are taken as    *)
(* functions of the number of elements seen so far, with an invariant of   *)
(* the accumulator.                                                        *)
(***************************************************************************)
EXTENDS QueueSlices, FiniteSetTheorems, WellFoundedInduction, TLAPS

-----------------------------------------------------------------------------
(* Numbers                                                                 *)

LEMMA LeastNumber ==
  ASSUME NEW S \in SUBSET Nat, S # {}
  PROVE  \E x \in S : \A y \in S : x <= y
<1>1. PICK x \in S : \A y \in S : <<y, x>> \notin OpToRel(<, Nat)
  BY NatLessThanWellFounded, WFMin
<1>2. ASSUME NEW y \in S, y < x PROVE FALSE
  <2>1. y \in Nat /\ x \in Nat
    OBVIOUS
  <2>2. <<y, x>> \in OpToRel(<, Nat)
    BY <1>2, <2>1 DEF OpToRel
  <2> QED BY <1>1, <2>2
<1>3. \A y \in S : x \in Nat /\ y \in Nat
  OBVIOUS
<1> QED BY <1>2, <1>3

\* Induction over the numbers up to n, on a set instead of a predicate.
LEMMA UpTo ==
  ASSUME NEW n \in Nat, NEW S, 0 \in S, \A k \in 0..n - 1 : k \in S => k + 1 \in S
  PROVE  \A k \in 0..n : k \in S
<1> DEFINE T == {k \in 0..n : k \notin S}
<1> SUFFICES ASSUME T # {} PROVE FALSE
  OBVIOUS
<1>0. T \in SUBSET Nat
  OBVIOUS
<1>1. PICK x \in T : \A y \in T : x <= y
  <2> HIDE DEF T
  <2> QED BY <1>0, LeastNumber
<1>2. x \in 1..n
  <2>1. x \in 0..n /\ x \notin S
    BY <1>1
  <2>2. x # 0
    BY <2>1
  <2> QED BY <2>1, <2>2
<1>3. x - 1 \in 0..n - 1 /\ x - 1 \in 0..n /\ ~(x <= x - 1) /\ (x - 1) + 1 = x
  BY <1>2
<1>4. x - 1 \in S
  BY <1>1, <1>3
<1> QED BY <1>3, <1>4

\* In a finite set with a strict order, as many elements precede each as its place says; P[x] are
\* those that precede x.
LEMMA Ranking ==
  ASSUME NEW D, IsFiniteSet(D), NEW P,
         \A x \in D : P[x] \in SUBSET D /\ x \notin P[x],
         \A x, y, z \in D : x \in P[y] /\ y \in P[z] => x \in P[z],
         \A x, y \in D : x # y => x \in P[y] \/ y \in P[x]
  PROVE  /\ Cardinality(D) \in Nat
         /\ \A x \in D : Cardinality(P[x]) \in 0..Cardinality(D) - 1
         /\ \A x, y \in D : x \in P[y] <=> Cardinality(P[x]) < Cardinality(P[y])
         /\ \A x, y \in D : Cardinality(P[x]) = Cardinality(P[y]) => x = y
         /\ \A k \in 1..Cardinality(D) : \E x \in D : Cardinality(P[x]) = k - 1
<1> DEFINE c == Cardinality(D)
           r == [x \in D |-> 1 + Cardinality(P[x])]
<1>1. c \in Nat
  BY FS_CardinalityType
<1>2. \A x \in D : IsFiniteSet(P[x]) /\ Cardinality(P[x]) \in Nat
  BY FS_Subset, FS_CardinalityType
<1>3. ASSUME NEW x \in D PROVE Cardinality(P[x]) \in 0..c - 1
  <2>1. Cardinality(P[x]) <= c /\ Cardinality(P[x]) # c
    BY FS_Subset
  <2> QED BY <1>1, <1>2, <2>1
<1>4. ASSUME NEW x \in D, NEW y \in D, x \in P[y] PROVE Cardinality(P[x]) < Cardinality(P[y])
  <2>1. P[x] \in SUBSET P[y] /\ P[x] # P[y]
    BY <1>4
  <2>2. Cardinality(P[x]) <= Cardinality(P[y]) /\ Cardinality(P[x]) # Cardinality(P[y])
    BY <1>2, <2>1, FS_Subset
  <2> QED BY <1>2, <2>2
<1>5. ASSUME NEW x \in D, NEW y \in D, Cardinality(P[x]) = Cardinality(P[y]) PROVE x = y
  <2>1. ~(Cardinality(P[x]) < Cardinality(P[y])) /\ ~(Cardinality(P[y]) < Cardinality(P[x]))
    BY <1>2, <1>5
  <2> QED BY <2>1, <1>4
<1>6. ASSUME NEW x \in D, NEW y \in D, Cardinality(P[x]) < Cardinality(P[y]) PROVE x \in P[y]
  <2>1. x # y /\ ~(Cardinality(P[y]) < Cardinality(P[x]))
    BY <1>2, <1>6
  <2> QED BY <2>1, <1>4
<1>7. \A k \in 1..c : \E x \in D : Cardinality(P[x]) = k - 1
  <2>1. IsFiniteSet(1..c) /\ Cardinality(1..c) = c
    BY <1>1, FS_Interval
  <2>2. \A x \in D : r[x] \in 1..c /\ r[x] = 1 + Cardinality(P[x])
    BY <1>1, <1>3
  <2>3. r \in Injection(D, 1..c)
    BY <1>2, <1>5, <2>2 DEF Injection, IsInjective
  <2>4. r \in Surjection(D, 1..c)
    <3> DEFINE T == 1..c
    <3>1. IsFiniteSet(T) /\ Cardinality(T) = Cardinality(D) /\ r \in Injection(D, T)
      BY <2>1, <2>3
    <3> HIDE DEF T
    <3>2. r \in Surjection(D, T)
      BY <3>1, FS_Injection
    <3> QED BY <3>2 DEF T
  <2>5. \A k \in 1..c : \E x \in D : r[x] = k
    BY <2>4 DEF Surjection
  <2> HIDE DEF r
  <2> QED BY <1>1, <1>2, <2>2, <2>5
<1> QED BY <1>1, <1>3, <1>4, <1>5, <1>6, <1>7

\* Ascending lists each number of a finite set once, in order.
LEMMA AscendingOrder ==
  ASSUME NEW I \in SUBSET Int, IsFiniteSet(I), NEW a, a = Ascending(I)
  PROVE  /\ Cardinality(I) \in Nat
         /\ a \in [1..Cardinality(I) -> I]
         /\ \A k, l \in 1..Cardinality(I) : k < l => a[k] < a[l]
         /\ \A n \in I : \E k \in 1..Cardinality(I) : a[k] = n
<1> DEFINE P == [n \in I |-> {m \in I : m < n}]
           c == Cardinality(I)
<1>1. \A m, n \in I : m \in P[n] <=> m < n
  OBVIOUS
<1>2. \A n \in I : P[n] = {m \in I : m < n}
  OBVIOUS
<1>3. /\ c \in Nat
      /\ \A x \in I : Cardinality(P[x]) \in 0..c - 1
      /\ \A x, y \in I : x \in P[y] <=> Cardinality(P[x]) < Cardinality(P[y])
      /\ \A x, y \in I : Cardinality(P[x]) = Cardinality(P[y]) => x = y
      /\ \A k \in 1..c : \E x \in I : Cardinality(P[x]) = k - 1
  <2>1. /\ \A x \in I : P[x] \in SUBSET I /\ x \notin P[x]
        /\ \A x, y, z \in I : x \in P[y] /\ y \in P[z] => x \in P[z]
        /\ \A x, y \in I : x # y => x \in P[y] \/ y \in P[x]
    OBVIOUS
  <2> HIDE DEF P
  <2> QED BY <2>1, Ranking
<1> HIDE DEF P
<1>4. ASSUME NEW k \in 1..c PROVE a[k] \in I /\ Cardinality(P[a[k]]) = k - 1
  <2>1. a[k] = CHOOSE n \in I : Cardinality({m \in I : m < n}) = k - 1
    BY DEF Ascending
  <2>2. \E n \in I : Cardinality({m \in I : m < n}) = k - 1
    BY <1>2, <1>3
  <2>3. a[k] \in I /\ Cardinality({m \in I : m < a[k]}) = k - 1
    BY <2>1, <2>2
  <2> QED BY <2>3, <1>2
<1>5. a \in [1..c -> I]
  <2> DEFINE f(k) == CHOOSE n \in I : Cardinality({m \in I : m < n}) = k - 1
  <2>1. a = [k \in 1..c |-> f(k)]
    BY DEF Ascending
  <2> HIDE DEF f
  <2> QED BY <2>1, <1>4
<1>6. ASSUME NEW k \in 1..c, NEW l \in 1..c, k < l PROVE a[k] < a[l]
  <2>1. Cardinality(P[a[k]]) < Cardinality(P[a[l]])
    BY <1>3, <1>4, <1>6
  <2> QED BY <1>1, <1>3, <1>4, <2>1
<1>7. ASSUME NEW n \in I PROVE \E k \in 1..c : a[k] = n
  <2> DEFINE k == 1 + Cardinality(P[n])
  <2>0. Cardinality(P[n]) \in 0..c - 1 /\ c \in Nat
    BY <1>3
  <2>1. k \in 1..c /\ Cardinality(P[n]) = k - 1
    BY <2>0
  <2>2. a[k] \in I /\ Cardinality(P[a[k]]) = k - 1
    BY <1>4, <2>1
  <2>3. a[k] = n
    BY <1>3, <2>1, <2>2
  <2> QED BY <2>1, <2>3
<1> QED BY <1>3, <1>5, <1>6, <1>7

-----------------------------------------------------------------------------
(* Sequences                                                               *)

LEMMA FunctionIsSeq ==
  ASSUME NEW n \in Nat, NEW T, NEW f \in [1..n -> T]
  PROVE  f \in Seq(T) /\ Len(f) = n
OBVIOUS

\* The result has the chosen elements in their order; p says where they come from.
Picks(out, seq, I, p) ==
    /\ p \in [1..Len(out) -> I]
    /\ \A k \in 1..Len(out) : out[k] = seq[p[k]]
    /\ \A k, l \in 1..Len(out) : k < l => p[k] < p[l]
    /\ \A n \in I : \E k \in 1..Len(out) : p[k] = n

\* Selected picks the elements at the given places, each once and in order.
LEMMA SelectedPicks ==
  ASSUME NEW T, NEW seq \in Seq(T), NEW I \in SUBSET (1..Len(seq))
  PROVE  /\ Selected(seq, I) \in Seq(T)
         /\ Len(Selected(seq, I)) = Cardinality(I)
         /\ \E p : Picks(Selected(seq, I), seq, I, p)
<1> DEFINE p == Ascending(I)
           c == Cardinality(I)
           out == [k \in 1..c |-> seq[p[k]]]
<1>1. I \in SUBSET Int /\ IsFiniteSet(I)
  <2>1. Len(seq) \in Int
    OBVIOUS
  <2>2. IsFiniteSet(1..Len(seq))
    BY <2>1, FS_Interval
  <2>3. IsFiniteSet(I)
    BY <2>2, FS_Subset
  <2>4. I \in SUBSET Int
    OBVIOUS
  <2> QED BY <2>3, <2>4
<1>2. /\ c \in Nat /\ p \in [1..c -> I]
      /\ \A k, l \in 1..c : k < l => p[k] < p[l]
      /\ \A n \in I : \E k \in 1..c : p[k] = n
  BY <1>1, AscendingOrder
<1>3. Selected(seq, I) = out
  <2>1. DOMAIN p = 1..c
    BY <1>2
  <2> HIDE DEF p
  <2> QED BY <2>1 DEF Selected, p
<1> HIDE DEF p
<1>4. \A k \in 1..c : p[k] \in 1..Len(seq)
  BY <1>2
<1>5. out \in [1..c -> T]
  BY <1>4
<1>6. out \in Seq(T) /\ Len(out) = c
  <2> HIDE DEF out
  <2> QED BY <1>2, <1>5, FunctionIsSeq
<1>7. Picks(out, seq, I, p)
  BY <1>2, <1>6 DEF Picks
<1> QED BY <1>3, <1>6, <1>7

\* The merge of two lists by min; p says which place of the concatenation an element comes from.
Sorts(out, seq, p) ==
    /\ Len(out) = Len(seq)
    /\ p \in [1..Len(seq) -> 1..Len(seq)]
    /\ \A k \in 1..Len(seq) : out[k] = seq[p[k]]
    /\ \A n \in 1..Len(seq) : \E k \in 1..Len(seq) : p[k] = n
    /\ \A k, l \in 1..Len(seq) :
          k < l => out[k].min < out[l].min \/ (out[k].min = out[l].min /\ p[k] < p[l])

\* InMinOrder gives the elements of both sequences, each once, by min.
LEMMA MinOrderSorts ==
  ASSUME NEW T, \A x \in T : x.min \in Nat, NEW s \in Seq(T), NEW t \in Seq(T)
  PROVE  /\ InMinOrder(s, t) \in Seq(T)
         /\ \E p : Sorts(InMinOrder(s, t), s \o t, p)
<1> DEFINE seq == s \o t
           D == 1..Len(seq)
           Before(m, n) == seq[m].min < seq[n].min \/ (seq[m].min = seq[n].min /\ m < n)
           P == [n \in D |-> {m \in D : Before(m, n)}]
           Chosen(k) == CHOOSE n \in D : 1 + Cardinality({m \in D : Before(m, n)}) = k
           p == [k \in D |-> Chosen(k)]
           out == [k \in D |-> seq[Chosen(k)]]
<1>1. seq \in Seq(T) /\ Len(seq) \in Nat /\ DOMAIN seq = D /\ \A n \in D : seq[n] \in T
  OBVIOUS
<1>2. \A n \in D : seq[n].min \in Nat
  BY <1>1
<1>3. InMinOrder(s, t) = out
  BY <1>1 DEF InMinOrder
<1> HIDE DEF seq
<1>4. IsFiniteSet(D) /\ Cardinality(D) = Len(seq)
  <2> DEFINE n == Len(seq)
  <2>1. n \in Nat
    BY <1>1
  <2> HIDE DEF n
  <2>2. IsFiniteSet(1..n) /\ Cardinality(1..n) = n
    BY <2>1, FS_Interval
  <2> QED BY <2>2 DEF n
<1>5. \A m, n \in D : m \in P[n] <=> Before(m, n)
  OBVIOUS
<1>6. \A n \in D : P[n] = {m \in D : Before(m, n)}
  OBVIOUS
<1>7. /\ \A x \in D : Cardinality(P[x]) \in 0..Cardinality(D) - 1
      /\ \A x, y \in D : x \in P[y] <=> Cardinality(P[x]) < Cardinality(P[y])
      /\ \A x, y \in D : Cardinality(P[x]) = Cardinality(P[y]) => x = y
      /\ \A k \in 1..Cardinality(D) : \E x \in D : Cardinality(P[x]) = k - 1
  <2>1. \A x \in D : P[x] \in SUBSET D /\ x \notin P[x]
    BY <1>2
  <2>2. \A x, y, z \in D : x \in P[y] /\ y \in P[z] => x \in P[z]
    BY <1>2, <1>5
  <2>3. \A x, y \in D : x # y => x \in P[y] \/ y \in P[x]
    BY <1>2, <1>5
  <2> HIDE DEF P, D
  <2> QED BY <1>4, <2>1, <2>2, <2>3, Ranking
<1>8. ASSUME NEW k \in D PROVE Chosen(k) \in D /\ Cardinality(P[Chosen(k)]) = k - 1
  <2>1. PICK n \in D : Cardinality(P[n]) = k - 1
    BY <1>4, <1>7
  <2>2. 1 + Cardinality({m \in D : Before(m, n)}) = k
    BY <1>1, <1>6, <2>1
  <2>3. Chosen(k) \in D /\ 1 + Cardinality({m \in D : Before(m, Chosen(k))}) = k
    <3> HIDE DEF Before
    <3> QED BY <2>2
  <2>4. Chosen(k) \in D /\ 1 + Cardinality(P[Chosen(k)]) = k
    <3> HIDE DEF Before, Chosen
    <3> QED BY <2>3, <1>6
  <2>5. Cardinality(P[Chosen(k)]) \in 0..Cardinality(D) - 1
    <3> HIDE DEF Before, Chosen, P
    <3> QED BY <2>4, <1>7
  <2> HIDE DEF Before, Chosen, P
  <2> QED BY <2>4, <2>5, <1>4, <1>1
<1> HIDE DEF Chosen
<1>9. p \in [D -> D] /\ \A k \in D : Cardinality(P[p[k]]) = k - 1
  BY <1>8
<1>10. out \in [D -> T] /\ \A k \in D : out[k] = seq[p[k]]
  BY <1>8, <1>1
<1>11. out \in Seq(T) /\ Len(out) = Len(seq)
  <2> HIDE DEF out
  <2> QED BY <1>1, <1>10, FunctionIsSeq
<1>12. ASSUME NEW n \in D PROVE \E k \in D : p[k] = n
  <2> DEFINE k == 1 + Cardinality(P[n])
  <2>1. k \in D /\ Cardinality(P[n]) = k - 1
    <3>1. Cardinality(P[n]) \in 0..Len(seq) - 1
      BY <1>4, <1>7
    <3> HIDE DEF P
    <3> QED BY <1>1, <3>1
  <2>2. Cardinality(P[p[k]]) = k - 1 /\ p[k] \in D
    BY <1>9, <2>1
  <2>3. p[k] = n
    <3> HIDE DEF P, p, k
    <3> QED BY <1>7, <2>1, <2>2
  <2> QED BY <2>1, <2>3
<1>13. ASSUME NEW k \in D, NEW l \in D, k < l
       PROVE  out[k].min < out[l].min \/ (out[k].min = out[l].min /\ p[k] < p[l])
  <2>1. p[k] \in D /\ p[l] \in D /\ Cardinality(P[p[k]]) < Cardinality(P[p[l]])
    <3>1. k - 1 < l - 1
      BY <1>13, <1>1
    <3> HIDE DEF P, p, D
    <3> QED BY <1>9, <3>1
  <2>2. p[k] \in P[p[l]]
    <3> HIDE DEF P, p
    <3> QED BY <1>7, <2>1
  <2>3. Before(p[k], p[l])
    <3> HIDE DEF P, p, Before
    <3> QED BY <1>5, <2>1, <2>2
  <2> QED BY <1>10, <2>3
<1>14. Sorts(out, seq, p)
  <2> HIDE DEF out, p
  <2> QED BY <1>9, <1>10, <1>11, <1>12, <1>13 DEF Sorts
<1> QED BY <1>3, <1>11, <1>14 DEF seq

\* All elements of the first k sequences: of[p] says from which sequence the element at p comes
\* and at[p] from which place of it.
Flattens(out, seqs, k, of, at) ==
    /\ of \in [1..Len(out) -> 1..k]
    /\ \A p \in 1..Len(out) : at[p] \in 1..Len(seqs[of[p]]) /\ out[p] = seqs[of[p]][at[p]]
    /\ \A n \in 1..k : \A m \in 1..Len(seqs[n]) :
          \E p \in 1..Len(out) : of[p] = n /\ at[p] = m
    /\ \A p, q \in 1..Len(out) : p < q => of[p] < of[q] \/ (of[p] = of[q] /\ at[p] < at[q])

\* A function that is defined by recursion on numbers.
Recursive(f, n, A, b, h) ==
    /\ f \in [0..n -> A]
    /\ f[0] = b
    /\ \A k \in 1..n : f[k] = h[<<k, f[k - 1]>>]

\* A function on 0..n that is defined by recursion exists.
LEMMA Recursion ==
  ASSUME NEW n, n \in Nat, NEW A, NEW b, b \in A, NEW h, h \in [(1..n) \X A -> A]
  PROVE  \E f : Recursive(f, n, A, b, h)
<1> DEFINE Good(f, m) == f[0] = b /\ \A k \in 1..m : f[k] = h[<<k, f[k - 1]>>]
           S == {m \in 0..n : \E f \in [0..m -> A] : Good(f, m)}
<1>1. 0 \in S
  <2>1. [k \in 0..0 |-> b] \in [0..0 -> A] /\ Good([k \in 0..0 |-> b], 0)
    OBVIOUS
  <2>2. 0 \in 0..n
    OBVIOUS
  <2> HIDE DEF Good
  <2> QED BY <2>1, <2>2
<1>2. ASSUME NEW m \in 0..n - 1, m \in S PROVE m + 1 \in S
  <2>1. PICK f \in [0..m -> A] : Good(f, m)
    BY <1>2
  <2> DEFINE g == [k \in 0..m + 1 |-> IF k <= m THEN f[k] ELSE h[<<m + 1, f[m]>>]]
  <2>2. m + 1 \in 1..n /\ m \in 0..m /\ m \in Nat
    OBVIOUS
  <2>3. f[m] \in A /\ <<m + 1, f[m]>> \in (1..n) \X A
    BY <2>2
  <2>4. h[<<m + 1, f[m]>>] \in A
    BY <2>3
  <2>5. g \in [0..m + 1 -> A]
    <3>1. \A k \in 0..m + 1 : k <= m => k \in 0..m
      BY <2>2
    <3> QED BY <2>4, <3>1
  <2>6. Good(g, m + 1)
    <3>1. g[0] = b
      BY <2>1, <2>2
    <3>2. ASSUME NEW k \in 1..m + 1 PROVE g[k] = h[<<k, g[k - 1]>>]
      <4>1. CASE k <= m
        <5>1. k \in 1..m /\ k - 1 \in 0..m /\ k - 1 <= m /\ k - 1 \in 0..m + 1 /\ k \in 0..m + 1
          BY <4>1, <2>2
        <5>2. g[k] = f[k] /\ g[k - 1] = f[k - 1]
          BY <4>1, <5>1
        <5> QED BY <5>1, <5>2, <2>1
      <4>2. CASE ~(k <= m)
        <5>1. k = m + 1 /\ k - 1 = m /\ m \in 0..m + 1 /\ m <= m
          BY <4>2, <2>2
        <5>2. g[m] = f[m] /\ g[m + 1] = h[<<m + 1, f[m]>>]
          BY <5>1, <4>2
        <5> QED BY <5>1, <5>2
      <4> QED BY <4>1, <4>2
    <3> QED BY <3>1, <3>2
  <2>7. m + 1 \in 0..n
    OBVIOUS
  <2> HIDE DEF Good, g
  <2> QED BY <2>5, <2>6, <2>7
<1> HIDE DEF S
<1>3. n \in S
  <2>1. \A k \in 0..n : k \in S
    BY <1>1, <1>2, UpTo
  <2> QED BY <2>1
<1>4. \E f \in [0..n -> A] : Good(f, n)
  BY <1>3 DEF S
<1> QED BY <1>4 DEF Recursive

LEMMA FlattensNext ==
  ASSUME NEW T, NEW n \in Nat, NEW seqs \in [1..n -> Seq(T)], NEW k \in 0..n - 1, NEW s \in Seq(T),
         NEW of, NEW at, Flattens(s, seqs, k, of, at)
  PROVE  \E of1, at1 : Flattens(s \o seqs[k + 1], seqs, k + 1, of1, at1)
<1> DEFINE t == seqs[k + 1]
           out == s \o t
           of1 == [p \in 1..Len(out) |-> IF p <= Len(s) THEN of[p] ELSE k + 1]
           at1 == [p \in 1..Len(out) |-> IF p <= Len(s) THEN at[p] ELSE p - Len(s)]
<1>1. k \in Nat /\ k + 1 \in 1..n /\ t \in Seq(T)
  OBVIOUS
<1>2. /\ out \in Seq(T) /\ Len(out) = Len(s) + Len(t) /\ Len(s) \in Nat /\ Len(t) \in Nat
      /\ \A p \in 1..Len(s) : out[p] = s[p]
      /\ \A p \in 1..Len(out) : ~(p <= Len(s)) => p - Len(s) \in 1..Len(t) /\ out[p] = t[p - Len(s)]
  BY <1>1
<1>3. \A p \in 1..Len(s) : p \in 1..Len(out) /\ of1[p] = of[p] /\ at1[p] = at[p]
  BY <1>2
<1>4. \A p \in 1..Len(out) : ~(p <= Len(s)) => of1[p] = k + 1 /\ at1[p] = p - Len(s)
  BY <1>2
<1>5. \A p \in 1..Len(s) : of[p] \in 1..k /\ at[p] \in 1..Len(seqs[of[p]]) /\ s[p] = seqs[of[p]][at[p]]
  BY DEF Flattens
<1>6. \A p \in 1..Len(out) : p \in 1..Len(s) \/ ~(p <= Len(s))
  BY <1>2
<1>7. of1 \in [1..Len(out) -> 1..k + 1]
  <2>1. \A p \in 1..Len(out) : of1[p] \in 1..k + 1
    BY <1>1, <1>3, <1>4, <1>5, <1>6
  <2> QED BY <2>1
<1>8. \A p \in 1..Len(out) : at1[p] \in 1..Len(seqs[of1[p]]) /\ out[p] = seqs[of1[p]][at1[p]]
  <2> SUFFICES ASSUME NEW p \in 1..Len(out)
               PROVE  at1[p] \in 1..Len(seqs[of1[p]]) /\ out[p] = seqs[of1[p]][at1[p]]
    OBVIOUS
  <2> HIDE DEF of1, at1, out
  <2>1. CASE p \in 1..Len(s)
    BY <1>2, <1>3, <1>5, <2>1
  <2>2. CASE ~(p <= Len(s))
    <3>1. p - Len(s) \in 1..Len(t) /\ out[p] = t[p - Len(s)]
      BY <1>2, <2>2
    <3>2. of1[p] = k + 1 /\ at1[p] = p - Len(s)
      BY <1>4, <2>2
    <3> QED BY <3>1, <3>2
  <2> QED BY <1>6, <2>1, <2>2
<1>9. ASSUME NEW i \in 1..k + 1, NEW m \in 1..Len(seqs[i])
      PROVE  \E p \in 1..Len(out) : of1[p] = i /\ at1[p] = m
  <2>1. CASE i <= k
    <3>1. PICK p \in 1..Len(s) : of[p] = i /\ at[p] = m
      BY <2>1, <1>1 DEF Flattens
    <3> HIDE DEF of1, at1, out
    <3> QED BY <1>3, <3>1
  <2>2. CASE ~(i <= k)
    <3>1. i = k + 1
      BY <2>2, <1>1
    <3>2. m \in 1..Len(t)
      BY <3>1
    <3> HIDE DEF out, t
    <3>3. Len(s) + m \in 1..Len(out) /\ ~(Len(s) + m <= Len(s)) /\ (Len(s) + m) - Len(s) = m
      BY <1>2, <3>2
    <3> HIDE DEF of1, at1
    <3> QED BY <1>4, <3>1, <3>3
  <2> QED BY <2>1, <2>2
<1>10. ASSUME NEW p \in 1..Len(out), NEW q \in 1..Len(out), p < q
       PROVE  of1[p] < of1[q] \/ (of1[p] = of1[q] /\ at1[p] < at1[q])
  <2>1. CASE q <= Len(s)
    <3>1. p \in 1..Len(s) /\ q \in 1..Len(s)
      BY <1>2, <1>10, <2>1
    <3>2. of[p] < of[q] \/ (of[p] = of[q] /\ at[p] < at[q])
      BY <3>1, <1>10 DEF Flattens
    <3> HIDE DEF of1, at1, out
    <3> QED BY <1>3, <3>1, <3>2
  <2>2. CASE ~(q <= Len(s)) /\ p <= Len(s)
    <3>1. p \in 1..Len(s) /\ of1[q] = k + 1 /\ of1[p] = of[p] /\ of[p] \in 1..k
      BY <1>2, <1>3, <1>4, <1>5, <2>2
    <3> HIDE DEF of1, at1, out
    <3> QED BY <3>1, <1>1
  <2>3. CASE ~(p <= Len(s)) /\ ~(q <= Len(s))
    <3>1. of1[p] = of1[q] /\ at1[p] = p - Len(s) /\ at1[q] = q - Len(s)
      BY <1>4, <2>3
    <3>2. p - Len(s) < q - Len(s)
      BY <1>2, <1>10
    <3> HIDE DEF of1, at1, out
    <3> QED BY <3>1, <3>2
  <2>4. q <= Len(s) \/ (~(q <= Len(s)) /\ p <= Len(s)) \/ (~(p <= Len(s)) /\ ~(q <= Len(s)))
    OBVIOUS
  <2> HIDE DEF of1, at1, out
  <2> QED BY <2>1, <2>2, <2>3, <2>4
<1>11. Flattens(out, seqs, k + 1, of1, at1)
  <2> HIDE DEF of1, at1, out
  <2> QED BY <1>7, <1>8, <1>9, <1>10 DEF Flattens
<1> QED BY <1>11

\* FlattenSeq concatenates: every element of every sequence, in order.
LEMMA FlattenSeqFlattens ==
  ASSUME NEW T, NEW n \in Nat, NEW seqs \in [1..n -> Seq(T)]
  PROVE  /\ FlattenSeq(seqs) \in Seq(T)
         /\ \E of, at : Flattens(FlattenSeq(seqs), seqs, n, of, at)
<1> DEFINE A == Seq(T)
           h == [x \in (1..n) \X A |-> x[2] \o seqs[x[1]]]
<1>1. h \in [(1..n) \X A -> A]
  OBVIOUS
<1>2. PICK f \in [0..n -> A] : f[0] = <<>> /\ \A k \in 1..n : f[k] = h[<<k, f[k - 1]>>]
  <2>1. <<>> \in A
    OBVIOUS
  <2> DEFINE b == <<>>
  <2>2. b \in A
    BY <2>1
  <2> HIDE DEF A, h, b
  <2>3. \E f : Recursive(f, n, A, b, h)
    BY <1>1, <2>2, Recursion
  <2> QED BY <2>3 DEF b, Recursive
<1>3. \A k \in 1..n : f[k - 1] \in A /\ f[k] = f[k - 1] \o seqs[k]
  <2> SUFFICES ASSUME NEW k \in 1..n PROVE f[k - 1] \in A /\ f[k] = f[k - 1] \o seqs[k]
    OBVIOUS
  <2>1. k - 1 \in 0..n
    OBVIOUS
  <2>2. f[k - 1] \in A
    BY <2>1
  <2>3. f[k] = h[<<k, f[k - 1]>>]
    BY <1>2
  <2> QED BY <2>2, <2>3
<1> HIDE DEF h
<1>4. FlattenSeq(seqs) = f[n]
  <2>1. seqs \in Seq(Seq(T)) /\ Len(seqs) = n
    BY FunctionIsSeq
  <2>2. CASE n = 0
    <3>1. seqs = <<>>
      BY <2>1, <2>2
    <3> QED BY <3>1, <2>2, <1>2 DEF FlattenSeq
  <2>3. CASE n # 0
    <3> DEFINE Rec(c) == c = [i \in 1..n |-> IF i = 1 THEN seqs[i] ELSE c[i - 1] \o seqs[i]]
               c == CHOOSE c : Rec(c)
               g == [i \in 1..n |-> f[i]]
    <3>1. FlattenSeq(seqs) = c[n]
      BY <2>1, <2>3 DEF FlattenSeq
    <3>2. ASSUME NEW i \in 1..n PROVE g[i] = IF i = 1 THEN seqs[i] ELSE g[i - 1] \o seqs[i]
      <4>1. CASE i = 1
        <5>1. f[i] = f[0] \o seqs[1]
          BY <1>3, <4>1
        <5>2. seqs[1] \in Seq(T)
          BY <4>1
        <5>3. <<>> \o seqs[1] = seqs[1]
          BY <5>2
        <5> QED BY <5>1, <5>3, <4>1, <1>2
      <4>2. CASE i # 1
        <5>1. i - 1 \in 1..n
          BY <4>2
        <5> QED BY <5>1, <1>3, <4>2
      <4> QED BY <4>1, <4>2
    <3>3. Rec(g)
      <4>1. g = [i \in 1..n |-> g[i]]
        OBVIOUS
      <4> QED BY <3>2, <4>1
    <3>4. Rec(c)
      <4> HIDE DEF Rec, g
      <4> QED BY <3>3
    <3>5. c[1] = seqs[1] /\ \A i \in 1..n : i # 1 => c[i] = c[i - 1] \o seqs[i]
      <4> HIDE DEF c
      <4>1. c = [i \in 1..n |-> IF i = 1 THEN seqs[i] ELSE c[i - 1] \o seqs[i]]
        BY <3>4
      <4>2. \A i \in 1..n : c[i] = IF i = 1 THEN seqs[i] ELSE c[i - 1] \o seqs[i]
        BY <4>1
      <4>3. 1 \in 1..n
        BY <2>3
      <4> QED BY <4>2, <4>3
    <3> HIDE DEF c, Rec
    <3> DEFINE S == {k \in 0..n : k = 0 \/ c[k] = f[k]}
    <3>6. \A k \in 0..n - 1 : k \in S => k + 1 \in S
      <4> SUFFICES ASSUME NEW k \in 0..n - 1, k \in S PROVE k + 1 \in S
        OBVIOUS
      <4>0. k + 1 \in 1..n /\ k + 1 \in 0..n /\ (k + 1) - 1 = k
        OBVIOUS
      <4>1. CASE k = 0
        <5>0. 1 \in 1..n
          BY <4>0, <4>1
        <5>1. g[1] = seqs[1] /\ g[1] = f[1]
          BY <3>2, <5>0
        <5> QED BY <3>5, <4>0, <4>1, <5>1
      <4>2. CASE k # 0
        <5>1. c[k] = f[k] /\ k + 1 # 1
          BY <4>2
        <5>2. c[k + 1] = f[k] \o seqs[k + 1] /\ f[k + 1] = f[k] \o seqs[k + 1]
          BY <1>3, <3>5, <4>0, <5>1
        <5> QED BY <4>0, <5>2
      <4> QED BY <4>1, <4>2
    <3>7. 0 \in S
      OBVIOUS
    <3>8. n \in S
      <4> HIDE DEF S
      <4>1. \A k \in 0..n : k \in S
        BY <3>6, <3>7, UpTo
      <4> QED BY <4>1
    <3> QED BY <3>1, <3>8, <2>3
  <2> QED BY <2>2, <2>3
<1> DEFINE S == {k \in 0..n : \E of, at : Flattens(f[k], seqs, k, of, at)}
<1>5. 0 \in S
  <2>1. Flattens(<<>>, seqs, 0, [p \in 1..0 |-> 0], <<>>)
    BY DEF Flattens
  <2> QED BY <1>2, <2>1
<1>6. \A k \in 0..n - 1 : k \in S => k + 1 \in S
  <2> SUFFICES ASSUME NEW k \in 0..n - 1, k \in S PROVE k + 1 \in S
    OBVIOUS
  <2>1. PICK of, at : Flattens(f[k], seqs, k, of, at)
    OBVIOUS
  <2>2. k + 1 \in 1..n /\ k + 1 \in 0..n /\ (k + 1) - 1 = k
    OBVIOUS
  <2>3. f[k] \in Seq(T) /\ f[k + 1] = f[k] \o seqs[k + 1]
    BY <1>3, <2>2
  <2>4. \E of1, at1 : Flattens(f[k] \o seqs[k + 1], seqs, k + 1, of1, at1)
    BY <2>1, <2>3, FlattensNext
  <2> QED BY <2>2, <2>3, <2>4
<1>7. n \in S
  <2> HIDE DEF S
  <2>1. \A k \in 0..n : k \in S
    BY <1>5, <1>6, UpTo
  <2> QED BY <2>1
<1>8. f[n] \in Seq(T)
  OBVIOUS
<1> QED BY <1>4, <1>7, <1>8

\* Folds of the community modules recur on sets of places, from the greatest one down.
LEMMA GreatestPlace ==
  ASSUME NEW n \in Nat, NEW s \in SUBSET (1..n), s # {}
  PROVE  Max(s) \in s /\ \A y \in s : y <= Max(s)
<1> DEFINE D == {n - x : x \in s}
<1>1. D \in SUBSET Nat /\ D # {}
  <2>1. \A x \in s : n - x \in Nat
    OBVIOUS
  <2> QED BY <2>1
<1>2. PICK d \in D : \A e \in D : d <= e
  <2> HIDE DEF D
  <2> QED BY <1>1, LeastNumber
<1>3. PICK x \in s : d = n - x
  OBVIOUS
<1>4. ASSUME NEW y \in s PROVE x >= y
  <2>1. n - x <= n - y
    BY <1>2, <1>3
  <2>2. x \in Int /\ y \in Int
    OBVIOUS
  <2> QED BY <2>1, <2>2
<1>5. Max(s) \in s /\ \A y \in s : Max(s) >= y
  BY <1>4 DEF Max
<1>6. \A y \in s : y \in Int
  OBVIOUS
<1> QED BY <1>5, <1>6

LEMMA GreatestUpTo ==
  ASSUME NEW n \in Nat, NEW k \in 1..n
  PROVE  1..k \in SUBSET (1..n) /\ 1..k # {} /\ Max(1..k) = k /\ (1..k) \ {k} = 1..k - 1
<1>1. 1..k \in SUBSET (1..n) /\ k \in 1..k
  OBVIOUS
<1>2. Max(1..k) \in 1..k /\ k <= Max(1..k)
  BY <1>1, GreatestPlace
<1> QED BY <1>1, <1>2

Folding(f, n, b, h) ==
    f = [s \in SUBSET (1..n) |-> IF s = {} THEN b ELSE h[<<Max(s), f[s \ {Max(s)}]>>]]

\* The fold of the community modules over 1..n, as a function, exists.
LEMMA FoldExists ==
  ASSUME NEW n, n \in Nat, NEW A, NEW b, b \in A, NEW h, h \in [(1..n) \X A -> A]
  PROVE  \E f : Folding(f, n, b, h) /\ f \in [SUBSET (1..n) -> A]
<1> DEFINE Step(f, s) == IF s = {} THEN b ELSE h[<<Max(s), f[s \ {Max(s)}]>>]
           Good(f, k) == f \in [SUBSET (1..k) -> A] /\ \A s \in SUBSET (1..k) : f[s] = Step(f, s)
           S == {k \in 0..n : \E f : Good(f, k)}
<1>1. 0 \in S
  <2>1. SUBSET (1..0) = {{}}
    OBVIOUS
  <2>2. Good([s \in SUBSET (1..0) |-> b], 0)
    BY <2>1
  <2>3. 0 \in 0..n
    OBVIOUS
  <2> HIDE DEF Good
  <2> QED BY <2>2, <2>3
<1>2. ASSUME NEW k \in 0..n - 1, k \in S PROVE k + 1 \in S
  <2>1. PICK f : Good(f, k)
    BY <1>2
  <2> DEFINE g == [s \in SUBSET (1..k + 1) |-> IF k + 1 \in s THEN h[<<k + 1, f[s \ {k + 1}]>>] ELSE f[s]]
  <2>2. k \in Nat /\ k + 1 \in 1..n /\ k + 1 \in Nat /\ k + 1 \in 0..n
    OBVIOUS
  <2>3. \A s \in SUBSET (1..k + 1) : s \ {k + 1} \in SUBSET (1..k) /\ (k + 1 \notin s => s \in SUBSET (1..k))
    OBVIOUS
  <2>4. \A s \in SUBSET (1..k) : s \in SUBSET (1..k + 1) /\ k + 1 \notin s
    OBVIOUS
  <2>5. \A s \in SUBSET (1..k) : g[s] = f[s] /\ f[s] \in A
    BY <2>1, <2>4
  <2>6. g \in [SUBSET (1..k + 1) -> A]
    <3>1. ASSUME NEW s \in SUBSET (1..k + 1) PROVE g[s] \in A
      <4>1. CASE k + 1 \in s
        <5>1. f[s \ {k + 1}] \in A
          BY <2>3, <2>5
        <5>2. h[<<k + 1, f[s \ {k + 1}]>>] \in A
          BY <2>2, <5>1
        <5> QED BY <4>1, <5>2
      <4>2. CASE k + 1 \notin s
        BY <2>3, <2>5, <4>2
      <4> QED BY <4>1, <4>2
    <3> QED BY <3>1
  <2>7. ASSUME NEW s \in SUBSET (1..k + 1) PROVE g[s] = Step(g, s)
    <3>1. CASE k + 1 \in s
      <4>1. Max(s) \in s /\ k + 1 <= Max(s)
        BY <2>2, <3>1, GreatestPlace
      <4>2. Max(s) = k + 1
        <5>1. Max(s) \in 1..k + 1
          BY <4>1
        <5> QED BY <2>2, <4>1, <5>1
      <4>3. g[s \ {k + 1}] = f[s \ {k + 1}]
        BY <2>3, <2>5
      <4>4. g[s] = h[<<k + 1, f[s \ {k + 1}]>>]
        BY <3>1
      <4> HIDE DEF g
      <4> QED BY <3>1, <4>2, <4>3, <4>4
    <3>2. CASE k + 1 \notin s
      <4>1. s \in SUBSET (1..k) /\ s \ {Max(s)} \in SUBSET (1..k)
        BY <2>3, <3>2
      <4>2. g[s] = f[s] /\ g[s \ {Max(s)}] = f[s \ {Max(s)}]
        <5> HIDE DEF g
        <5> QED BY <2>5, <4>1
      <4>3. f[s] = Step(f, s)
        BY <2>1, <4>1
      <4> HIDE DEF g
      <4> QED BY <4>2, <4>3
    <3> QED BY <3>1, <3>2
  <2>8. Good(g, k + 1)
    <3> HIDE DEF g, Step
    <3> QED BY <2>6, <2>7
  <2> HIDE DEF Good
  <2> QED BY <2>2, <2>8
<1>3. n \in S
  <2> HIDE DEF S
  <2>1. \A k \in 0..n : k \in S
    BY <1>1, <1>2, UpTo
  <2> QED BY <2>1
<1>4. PICK f : Good(f, n)
  BY <1>3
<1>5. Folding(f, n, b, h)
  <2>1. f = [s \in SUBSET (1..n) |-> f[s]]
    BY <1>4
  <2>2. \A s \in SUBSET (1..n) : f[s] = Step(f, s)
    BY <1>4
  <2>3. f = [s \in SUBSET (1..n) |-> Step(f, s)]
    <3> HIDE DEF Step
    <3> QED BY <2>1, <2>2
  <2> QED BY <2>3 DEF Folding
<1> QED BY <1>4, <1>5

-----------------------------------------------------------------------------
(* Slices                                                                  *)

AnyTask == [key : Nat, group : Groups]
AnyRange == [min : Nat, max : Nat]

\* Iterators are in order, do not touch, and are in the range from lo to hi.
IteratorsOK(its, lo, hi) ==
    /\ its \in Seq(AnyRange)
    /\ \A n \in 1..Len(its) : lo <= its[n].min /\ its[n].min <= its[n].max /\ its[n].max <= hi
    /\ \A m, n \in 1..Len(its) : m < n => its[m].max < its[n].min

\* Executables are counted, some of them maybe twice.
TrackerOK(s) ==
    /\ s.pending \in SUBSET AnyTask /\ IsFiniteSet(s.pending)
    /\ s.acked \in SUBSET AnyTask /\ IsFiniteSet(s.acked)
    /\ s.pending \cap s.acked = {}
    /\ s.pendingPerKey \in [Groups -> Nat]
    /\ \A g \in Groups : CountOf(Tracked(s), g) <= s.pendingPerKey[g]

SliceRecords == [min : Nat, max : Nat, predicate : SUBSET Universal, iterators : Seq(AnyRange),
                 pending : SUBSET AnyTask, acked : SUBSET AnyTask, pendingPerKey : [Groups -> Nat]]

SliceOK(s) ==
    /\ s.min <= s.max
    /\ IteratorsOK(s.iterators, s.min, s.max)
    /\ TrackerOK(s)
    /\ \A t \in Tracked(s) : ScopeContains(s, t)

GoodSlices == {s \in SliceRecords : SliceOK(s)}

\* A key that is to be read, a task that is tracked and not done, or to be read.
Reads(its, key) == \E n \in 1..Len(its) : ContainsKey(its[n], key)
Holds(s, t) == t \in s.pending \/ (t.group \in s.predicate /\ Reads(s.iterators, t.key))

\* What has become of the slices X: well-formed slices Y in no more than their ranges, which track
\* nothing else, and hold what X held and had not acknowledged.
Keeps(X, Y) ==
    /\ Y \in SUBSET GoodSlices
    /\ \A y \in Y : (\E x \in X : x.min <= y.min) /\ (\E x \in X : y.max <= x.max)
    /\ \A y \in Y : \A t \in y.pending : \E x \in X : t \in x.pending
    /\ \A y \in Y : \A t \in y.acked : \E x \in X : t \in x.acked
    /\ \A t \in AnyTask :
          (\A x \in X : t \notin x.acked) /\ (\E x \in X : Holds(x, t)) => \E y \in Y : Holds(y, t)

LEMMA KeepsSame == ASSUME NEW X \in SUBSET GoodSlices PROVE Keeps(X, X)
<1>1. \A x \in X : x.min \in Nat /\ x.max \in Nat
  BY DEF GoodSlices, SliceRecords
<1>2. \A x \in X : x.min <= x.min /\ x.max <= x.max
  BY <1>1
<1> QED BY <1>2 DEF Keeps

\* Keeps is transitive and goes through unions, so that the steps of an operation compose.
LEMMA KeepsThen ==
  ASSUME NEW X \in SUBSET GoodSlices, NEW Y, NEW Z, Keeps(X, Y), Keeps(Y, Z)
  PROVE  Keeps(X, Z)
<1>1. Y \in SUBSET GoodSlices /\ Z \in SUBSET GoodSlices
  BY DEF Keeps
<1>2. \A x \in GoodSlices : x.min \in Nat /\ x.max \in Nat
  BY DEF GoodSlices, SliceRecords
<1>3. ASSUME NEW z \in Z PROVE (\E x \in X : x.min <= z.min) /\ (\E x \in X : z.max <= x.max)
  <2>1. PICK y \in Y : y.min <= z.min
    BY DEF Keeps
  <2>2. PICK x \in X : x.min <= y.min
    BY DEF Keeps
  <2>3. PICK y1 \in Y : z.max <= y1.max
    BY DEF Keeps
  <2>4. PICK x1 \in X : y1.max <= x1.max
    BY DEF Keeps
  <2>5. x.min <= z.min
    BY <1>1, <1>2, <2>1, <2>2
  <2>6. z.max <= x1.max
    BY <1>1, <1>2, <2>3, <2>4
  <2> QED BY <2>5, <2>6
<1>4. ASSUME NEW z \in Z, NEW t \in z.pending PROVE \E x \in X : t \in x.pending
  <2>1. PICK y \in Y : t \in y.pending
    BY DEF Keeps
  <2> QED BY <2>1 DEF Keeps
<1>5. ASSUME NEW z \in Z, NEW t \in z.acked PROVE \E x \in X : t \in x.acked
  <2>1. PICK y \in Y : t \in y.acked
    BY DEF Keeps
  <2> QED BY <2>1 DEF Keeps
<1>6. ASSUME NEW t \in AnyTask, \A x \in X : t \notin x.acked, \E x \in X : Holds(x, t)
      PROVE  \E z \in Z : Holds(z, t)
  <2>1. \E y \in Y : Holds(y, t)
    BY <1>6 DEF Keeps
  <2>2. \A y \in Y : t \notin y.acked
    BY <1>6 DEF Keeps
  <2> QED BY <2>1, <2>2 DEF Keeps
<1> QED BY <1>1, <1>3, <1>4, <1>5, <1>6 DEF Keeps

LEMMA KeepsBoth ==
  ASSUME NEW X, NEW Y, NEW V, NEW W, Keeps(X, Y), Keeps(V, W)
  PROVE  Keeps(X \cup V, Y \cup W)
<1>1. Y \cup W \in SUBSET GoodSlices
  BY DEF Keeps
<1>2. ASSUME NEW y \in Y \cup W
      PROVE  /\ \E x \in X \cup V : x.min <= y.min
             /\ \E x \in X \cup V : y.max <= x.max
             /\ \A t \in y.pending : \E x \in X \cup V : t \in x.pending
             /\ \A t \in y.acked : \E x \in X \cup V : t \in x.acked
  BY DEF Keeps
<1>3. ASSUME NEW t \in AnyTask, \A x \in X \cup V : t \notin x.acked, \E x \in X \cup V : Holds(x, t)
      PROVE  \E y \in Y \cup W : Holds(y, t)
  BY <1>3 DEF Keeps
<1> QED BY <1>1, <1>2, <1>3 DEF Keeps

\* What is to be read is between the bounds of the iterators.
LEMMA ReadsInRange ==
  ASSUME NEW its, NEW lo \in Nat, NEW hi \in Nat, IteratorsOK(its, lo, hi), NEW key \in Nat, Reads(its, key)
  PROVE  lo <= key /\ key < hi
<1>1. PICK n \in 1..Len(its) : its[n].min <= key /\ key < its[n].max
  BY DEF Reads, ContainsKey
<1>2. its[n].min \in Nat /\ its[n].max \in Nat
  <2>1. its[n] \in AnyRange
    BY DEF IteratorsOK
  <2> QED BY <2>1 DEF AnyRange
<1>3. lo <= its[n].min /\ its[n].max <= hi
  BY DEF IteratorsOK
<1> QED BY <1>1, <1>2, <1>3

\* What a slice holds is in its scope.
LEMMA HoldsInScope ==
  ASSUME NEW s \in GoodSlices, NEW t \in AnyTask, Holds(s, t)
  PROVE  s.min <= t.key /\ t.key < s.max /\ t.group \in s.predicate
<1>1. SliceOK(s) /\ s.min \in Nat /\ s.max \in Nat /\ t.key \in Nat
  BY DEF GoodSlices, SliceRecords, AnyTask
<1>2. CASE t \in s.pending
  BY <1>1, <1>2 DEF SliceOK, Tracked, ScopeContains, ContainsKey
<1>3. CASE t.group \in s.predicate /\ Reads(s.iterators, t.key)
  BY <1>1, <1>3, ReadsInRange DEF SliceOK
<1> QED BY <1>2, <1>3 DEF Holds

LEMMA SliceFields ==
  ASSUME NEW s \in GoodSlices
  PROVE  /\ s \in SliceRecords
         /\ s.min \in Nat /\ s.max \in Nat /\ s.min <= s.max
         /\ s.predicate \in SUBSET Universal
         /\ s.iterators \in Seq(AnyRange) /\ IteratorsOK(s.iterators, s.min, s.max)
         /\ TrackerOK(s)
         /\ \A t \in Tracked(s) : s.min <= t.key /\ t.key < s.max /\ t.group \in s.predicate
BY DEF GoodSlices, SliceRecords, SliceOK, ScopeContains, ContainsKey

\* A predicate is only ever widened by the limit on its size.
LEMMA SizeLimits ==
  ASSUME NEW P \in SUBSET Universal
  PROVE  P \subseteq SizeLimited(P) /\ SizeLimited(P) \in SUBSET Universal
BY DEF SizeLimited

LEMMA CountFinite ==
  ASSUME NEW A, IsFiniteSet(A), NEW g
  PROVE  CountOf(A, g) \in Nat
<1>1. IsFiniteSet({t \in A : t.group = g})
  BY FS_Subset
<1> QED BY <1>1, FS_CardinalityType DEF CountOf

\* Executables of a group in two sets are counted as often as they occur, or less.
LEMMA CountUnion ==
  ASSUME NEW A, IsFiniteSet(A), NEW B, IsFiniteSet(B), NEW g
  PROVE  /\ CountOf(A \cup B, g) <= CountOf(A, g) + CountOf(B, g)
         /\ A \cap B = {} => CountOf(A \cup B, g) = CountOf(A, g) + CountOf(B, g)
<1> DEFINE AA == {t \in A : t.group = g}
           BB == {t \in B : t.group = g}
<1>1. IsFiniteSet(AA) /\ IsFiniteSet(BB)
  BY FS_Subset
<1>2. {t \in A \cup B : t.group = g} = AA \cup BB
  OBVIOUS
<1>3. /\ Cardinality(AA \cup BB) = Cardinality(AA) + Cardinality(BB) - Cardinality(AA \cap BB)
      /\ IsFiniteSet(AA \cap BB)
  <2> HIDE DEF AA, BB
  <2>1. IsFiniteSet(AA \cap BB)
    BY <1>1, FS_Subset
  <2> QED BY <1>1, <2>1, FS_Union
<1>4. A \cap B = {} => Cardinality(AA \cap BB) = 0
  <2>1. A \cap B = {} => AA \cap BB = {}
    OBVIOUS
  <2> HIDE DEF AA, BB
  <2> QED BY <2>1, FS_EmptySet
<1>5. Cardinality(AA) \in Nat /\ Cardinality(BB) \in Nat /\ Cardinality(AA \cap BB) \in Nat
  <2> HIDE DEF AA, BB
  <2> QED BY <1>1, <1>3, FS_CardinalityType
<1>6. CountOf(A, g) = Cardinality(AA) /\ CountOf(B, g) = Cardinality(BB)
      /\ CountOf(A \cup B, g) = Cardinality(AA \cup BB)
  BY <1>2 DEF CountOf
<1> HIDE DEF AA, BB
<1> QED BY <1>3, <1>4, <1>5, <1>6

LEMMA CountDifference ==
  ASSUME NEW A, IsFiniteSet(A), NEW B \in SUBSET A, NEW g
  PROVE  /\ CountOf(A, g) \in Nat /\ CountOf(B, g) \in Nat /\ CountOf(A \ B, g) \in Nat
         /\ CountOf(A, g) = CountOf(B, g) + CountOf(A \ B, g)
<1> DEFINE C == A \ B
<1>1. IsFiniteSet(B) /\ IsFiniteSet(C) /\ B \cap C = {} /\ B \cup C = A
  BY FS_Subset
<1> HIDE DEF C
<1>2. CountOf(B \cup C, g) = CountOf(B, g) + CountOf(C, g)
  BY <1>1, CountUnion
<1>3. CountOf(A, g) \in Nat /\ CountOf(B, g) \in Nat /\ CountOf(C, g) \in Nat
  BY <1>1, CountFinite
<1> QED BY <1>1, <1>2, <1>3 DEF C

\* A group that is not counted has no executable.
LEMMA CountPositive ==
  ASSUME NEW A, IsFiniteSet(A), NEW t \in A
  PROVE  CountOf(A, t.group) # 0
<1> DEFINE AA == {u \in A : u.group = t.group}
<1>1. IsFiniteSet(AA) /\ t \in AA
  BY FS_Subset
<1>2. Cardinality(AA) # 0
  <2> HIDE DEF AA
  <2> QED BY <1>1, FS_EmptySet
<1> QED BY <1>2 DEF CountOf

\* A tracker that is split is divided, and both parts count what they have (tracker.go).
LEMMA SplitTrackerOK ==
  ASSUME NEW s, TrackerOK(s), NEW scope, NEW x, x = SplitTracker(s, scope)
  PROVE  /\ TrackerOK(x[1]) /\ TrackerOK(x[2])
         /\ x[1].pending = {t \in s.pending : ScopeContains(scope, t)}
         /\ x[1].acked = {t \in s.acked : ScopeContains(scope, t)}
         /\ x[2].pending = {t \in s.pending : ~ScopeContains(scope, t)}
         /\ x[2].acked = {t \in s.acked : ~ScopeContains(scope, t)}
<1> DEFINE M == {t \in Tracked(s) : ~ScopeContains(scope, t)}
<1>0. /\ x[1].pending = s.pending \ M /\ x[1].acked = s.acked \ M
      /\ x[2].pending = s.pending \cap M /\ x[2].acked = s.acked \cap M
      /\ x[1].pendingPerKey = [g \in Groups |-> s.pendingPerKey[g] - CountOf(M, g)]
      /\ x[2].pendingPerKey = [g \in Groups |-> CountOf(M, g)]
  BY DEF SplitTracker
<1>1. M \in SUBSET Tracked(s) /\ IsFiniteSet(Tracked(s)) /\ IsFiniteSet(M)
  <2>1. IsFiniteSet(Tracked(s))
    BY FS_Union DEF TrackerOK, Tracked
  <2> QED BY <2>1, FS_Subset
<1>2. /\ Tracked(x[1]) = Tracked(s) \ M /\ Tracked(x[2]) = M
      /\ x[1].pending = {t \in s.pending : ScopeContains(scope, t)}
      /\ x[1].acked = {t \in s.acked : ScopeContains(scope, t)}
      /\ x[2].pending = {t \in s.pending : ~ScopeContains(scope, t)}
      /\ x[2].acked = {t \in s.acked : ~ScopeContains(scope, t)}
  <2>1. Tracked(s) = s.pending \cup s.acked /\ Tracked(x[1]) = x[1].pending \cup x[1].acked
        /\ Tracked(x[2]) = x[2].pending \cup x[2].acked
    BY DEF Tracked
  <2> QED BY <1>0, <2>1
<1> HIDE DEF M
<1>3. ASSUME NEW g \in Groups
      PROVE  /\ s.pendingPerKey[g] - CountOf(M, g) \in Nat /\ CountOf(M, g) \in Nat
             /\ CountOf(Tracked(x[1]), g) <= s.pendingPerKey[g] - CountOf(M, g)
  <2>1. CountOf(Tracked(s), g) <= s.pendingPerKey[g] /\ s.pendingPerKey[g] \in Nat
    BY DEF TrackerOK
  <2>2. /\ CountOf(Tracked(s), g) \in Nat /\ CountOf(M, g) \in Nat /\ CountOf(Tracked(s) \ M, g) \in Nat
        /\ CountOf(Tracked(s), g) = CountOf(M, g) + CountOf(Tracked(s) \ M, g)
    <3> DEFINE T == Tracked(s)
    <3>1. IsFiniteSet(T) /\ M \in SUBSET T
      BY <1>1
    <3> HIDE DEF T
    <3>2. /\ CountOf(T, g) \in Nat /\ CountOf(M, g) \in Nat /\ CountOf(T \ M, g) \in Nat
          /\ CountOf(T, g) = CountOf(M, g) + CountOf(T \ M, g)
      BY <3>1, CountDifference
    <3> QED BY <3>2 DEF T
  <2> QED BY <2>1, <2>2, <1>2
<1>4. /\ IsFiniteSet(x[1].pending) /\ IsFiniteSet(x[1].acked)
      /\ IsFiniteSet(x[2].pending) /\ IsFiniteSet(x[2].acked)
  BY <1>2, FS_Subset DEF TrackerOK
<1>5. /\ x[1].pendingPerKey \in [Groups -> Nat] /\ x[2].pendingPerKey \in [Groups -> Nat]
      /\ \A g \in Groups : x[1].pendingPerKey[g] = s.pendingPerKey[g] - CountOf(M, g)
      /\ \A g \in Groups : x[2].pendingPerKey[g] = CountOf(M, g)
  <2>1. x[1].pendingPerKey \in [Groups -> Nat]
    BY <1>0, <1>3
  <2>2. x[2].pendingPerKey \in [Groups -> Nat]
    BY <1>0, <1>3
  <2> QED BY <1>0, <2>1, <2>2
<1>6. TrackerOK(x[1])
  <2>1. \A g \in Groups : CountOf(Tracked(x[1]), g) <= x[1].pendingPerKey[g]
    BY <1>3, <1>5
  <2> QED BY <1>2, <1>4, <1>5, <2>1 DEF TrackerOK
<1>7. TrackerOK(x[2])
  <2>1. \A g \in Groups : CountOf(Tracked(x[2]), g) <= x[2].pendingPerKey[g]
    BY <1>2, <1>3, <1>5
  <2> QED BY <1>2, <1>4, <1>5, <2>1 DEF TrackerOK
<1> QED BY <1>2, <1>6, <1>7

LEMMA NothingPendingOK == TrackerOK(NothingPending) /\ Tracked(NothingPending) = {}
<1>1. \A g \in Groups : CountOf({}, g) = 0
  <2>1. \A g : {t \in {} : t.group = g} = {}
    OBVIOUS
  <2> QED BY <2>1, FS_EmptySet DEF CountOf
<1> QED BY <1>1, FS_EmptySet DEF TrackerOK, NothingPending, Tracked

LEMMA SliceOfGood ==
  ASSUME NEW lo \in Nat, NEW hi \in Nat, lo <= hi, NEW P \in SUBSET Universal,
         NEW its, IteratorsOK(its, lo, hi), NEW tr, TrackerOK(tr),
         \A t \in Tracked(tr) : lo <= t.key /\ t.key < hi /\ t.group \in P,
         NEW s, s = SliceOf(NewScope(lo, hi, P), its, tr)
  PROVE  /\ s \in GoodSlices
         /\ s.min = lo /\ s.max = hi /\ P \subseteq s.predicate
         /\ s.iterators = its /\ s.pending = tr.pending /\ s.acked = tr.acked
<1>1. /\ s.min = lo /\ s.max = hi /\ s.predicate = SizeLimited(P)
      /\ s.iterators = its /\ s.pending = tr.pending /\ s.acked = tr.acked
      /\ s.pendingPerKey = tr.pendingPerKey
      /\ s = [min |-> lo, max |-> hi, predicate |-> SizeLimited(P), iterators |-> its,
              pending |-> tr.pending, acked |-> tr.acked, pendingPerKey |-> tr.pendingPerKey]
  BY DEF SliceOf, NewScope
<1>2. P \subseteq SizeLimited(P) /\ SizeLimited(P) \in SUBSET Universal
  BY SizeLimits
<1>3. Tracked(s) = Tracked(tr)
  BY <1>1 DEF Tracked
<1>4. TrackerOK(s)
  BY <1>1, <1>3 DEF TrackerOK
<1>5. s \in SliceRecords
  <2>1. its \in Seq(AnyRange)
    BY DEF IteratorsOK
  <2>2. tr.pending \in SUBSET AnyTask /\ tr.acked \in SUBSET AnyTask
        /\ tr.pendingPerKey \in [Groups -> Nat]
    BY DEF TrackerOK
  <2> QED BY <1>1, <1>2, <2>1, <2>2 DEF SliceRecords
<1>6. SliceOK(s)
  <2>1. \A t \in Tracked(s) : ScopeContains(s, t)
    BY <1>1, <1>2, <1>3 DEF ScopeContains, ContainsKey
  <2> QED BY <1>1, <1>4, <2>1 DEF SliceOK
<1> QED BY <1>1, <1>2, <1>5, <1>6 DEF GoodSlices

LEMMA IteratorFields ==
  ASSUME NEW its, NEW lo \in Nat, NEW hi \in Nat, IteratorsOK(its, lo, hi)
  PROVE  /\ its \in Seq(AnyRange) /\ Len(its) \in Nat /\ DOMAIN its = 1..Len(its)
         /\ \A n \in 1..Len(its) : /\ its[n].min \in Nat /\ its[n].max \in Nat
                                   /\ lo <= its[n].min /\ its[n].min <= its[n].max /\ its[n].max <= hi
         /\ \A m, n \in 1..Len(its) : m < n => its[m].max < its[n].min
<1>1. its \in Seq(AnyRange)
  BY DEF IteratorsOK
<1>2. \A n \in 1..Len(its) : its[n] \in AnyRange
  BY <1>1
<1>3. \A n \in 1..Len(its) : its[n].min \in Nat /\ its[n].max \in Nat
  BY <1>2 DEF AnyRange
<1> QED BY <1>1, <1>3 DEF IteratorsOK

\* What is cut out of the chosen iterators is in order again.
LEMMA CutIterators ==
  ASSUME NEW its, NEW lo \in Nat, NEW hi \in Nat, IteratorsOK(its, lo, hi),
         NEW I \in SUBSET (1..Len(its)), NEW p, NEW sel, Picks(sel, its, I, p), Len(sel) \in Nat,
         NEW l \in Nat, NEW h \in Nat, NEW out \in Seq(AnyRange), Len(out) = Len(sel),
         \A n \in 1..Len(sel) :
            /\ sel[n].min <= out[n].min /\ out[n].max <= sel[n].max
            /\ out[n].min <= out[n].max /\ l <= out[n].min /\ out[n].max <= h
  PROVE  IteratorsOK(out, l, h)
<1>2. ASSUME NEW m \in 1..Len(sel), NEW n \in 1..Len(sel), m < n PROVE out[m].max < out[n].min
  <2>1. p[m] \in 1..Len(its) /\ p[n] \in 1..Len(its) /\ p[m] < p[n]
        /\ sel[m] = its[p[m]] /\ sel[n] = its[p[n]]
    BY <1>2 DEF Picks
  <2>2. sel[m].max < sel[n].min /\ sel[m].max \in Nat /\ sel[n].min \in Nat
    BY <2>1, IteratorFields
  <2>3. out[m] \in AnyRange /\ out[n] \in AnyRange
    <3>1. m \in 1..Len(out) /\ n \in 1..Len(out)
      OBVIOUS
    <3> QED BY <3>1
  <2>4. out[m].max \in Nat /\ out[n].min \in Nat
    BY <2>3 DEF AnyRange
  <2>5. out[m].max <= sel[m].max /\ sel[n].min <= out[n].min
    OBVIOUS
  <2> DEFINE a == out[m].max
             b == sel[m].max
             c == sel[n].min
             d == out[n].min
  <2>6. a \in Nat /\ b \in Nat /\ c \in Nat /\ d \in Nat /\ a <= b /\ b < c /\ c <= d
    BY <2>2, <2>4, <2>5
  <2> HIDE DEF a, b, c, d
  <2>7. a < d
    BY <2>6
  <2> QED BY <2>7 DEF a, d
<1> QED BY <1>2 DEF IteratorsOK

\* The iterators below and from a key on read what the iterators read there (iterator.go).
LEMMA BelowOK ==
  ASSUME NEW its, NEW lo \in Nat, NEW hi \in Nat, IteratorsOK(its, lo, hi), NEW key \in Nat, lo <= key,
         NEW out, out = IteratorsBelow(its, key)
  PROVE  /\ IteratorsOK(out, lo, key)
         /\ \A k \in Nat : Reads(its, k) /\ k < key => Reads(out, k)
<1> DEFINE I == {n \in DOMAIN its : its[n].max <= key \/ its[n].min < key}
           sel == Selected(its, I)
<1>1. /\ its \in Seq(AnyRange) /\ DOMAIN its = 1..Len(its)
      /\ \A n \in 1..Len(its) : /\ its[n].min \in Nat /\ its[n].max \in Nat
                                /\ lo <= its[n].min /\ its[n].min <= its[n].max /\ its[n].max <= hi
  BY IteratorFields
<1>2. I \in SUBSET (1..Len(its))
  BY <1>1
<1>3. \A n \in 1..Len(its) : n \in I <=> its[n].max <= key \/ its[n].min < key
  BY <1>1
<1>4. out = [n \in DOMAIN sel |-> NewRange(sel[n].min, MinOf(sel[n].max, key))]
  BY DEF IteratorsBelow
<1> HIDE DEF I
<1>5. sel \in Seq(AnyRange) /\ \E p : Picks(sel, its, I, p)
  BY <1>1, <1>2, SelectedPicks
<1> HIDE DEF sel
<1>6. PICK p : Picks(sel, its, I, p)
  BY <1>5
<1>7. Len(sel) \in Nat /\ DOMAIN sel = 1..Len(sel)
  BY <1>5
<1>8. ASSUME NEW n \in 1..Len(sel)
      PROVE  /\ out[n] \in AnyRange
             /\ out[n].min = sel[n].min /\ out[n].max = MinOf(sel[n].max, key)
             /\ out[n].max <= sel[n].max /\ out[n].min <= out[n].max /\ lo <= out[n].min /\ out[n].max <= key
             /\ sel[n].min <= out[n].min
  <2>1. p[n] \in I /\ sel[n] = its[p[n]]
    BY <1>6 DEF Picks
  <2>2. sel[n].min \in Nat /\ sel[n].max \in Nat /\ lo <= sel[n].min /\ sel[n].min <= sel[n].max
        /\ (sel[n].max <= key \/ sel[n].min < key)
    BY <1>1, <1>2, <1>3, <2>1
  <2>3. out[n] = [min |-> sel[n].min, max |-> MinOf(sel[n].max, key)]
    BY <1>4, <1>7 DEF NewRange
  <2>4. MinOf(sel[n].max, key) \in Nat /\ MinOf(sel[n].max, key) <= sel[n].max
        /\ MinOf(sel[n].max, key) <= key /\ sel[n].min <= MinOf(sel[n].max, key)
    BY <2>2 DEF MinOf
  <2> QED BY <2>2, <2>3, <2>4 DEF AnyRange
<1>9. out \in [1..Len(sel) -> AnyRange]
  <2> DEFINE g(n) == NewRange(sel[n].min, MinOf(sel[n].max, key))
  <2>1. out = [n \in 1..Len(sel) |-> g(n)]
    BY <1>4, <1>7
  <2> HIDE DEF g
  <2>2. \A n \in 1..Len(sel) : out[n] = g(n)
    BY <2>1
  <2>3. \A n \in 1..Len(sel) : g(n) \in AnyRange
    BY <2>2, <1>8
  <2> HIDE DEF AnyRange
  <2> QED BY <2>1, <2>3
<1>10. IteratorsOK(out, lo, key) /\ Len(out) = Len(sel)
  <2>1. out \in Seq(AnyRange) /\ Len(out) = Len(sel)
    BY <1>7, <1>9, FunctionIsSeq
  <2>2. \A n \in 1..Len(sel) :
            /\ sel[n].min <= out[n].min /\ out[n].max <= sel[n].max
            /\ out[n].min <= out[n].max /\ lo <= out[n].min /\ out[n].max <= key
    BY <1>8
  <2> HIDE DEF AnyRange
  <2> QED BY <1>2, <1>6, <1>7, <2>1, <2>2, CutIterators
<1>11. ASSUME NEW k \in Nat, Reads(its, k), k < key PROVE Reads(out, k)
  <2>1. PICK m \in 1..Len(its) : its[m].min <= k /\ k < its[m].max
    BY <1>11 DEF Reads, ContainsKey
  <2>2. m \in I
    BY <2>1, <1>1, <1>3, <1>11
  <2>3. PICK n \in 1..Len(sel) : p[n] = m
    BY <2>2, <1>6 DEF Picks
  <2>4. sel[n] = its[m]
    BY <2>3, <1>6 DEF Picks
  <2>5. out[n].min <= k /\ k < out[n].max
    BY <1>8, <1>11, <2>1, <2>4, <1>1 DEF MinOf
  <2> QED BY <2>5, <1>10 DEF Reads, ContainsKey
<1> QED BY <1>10, <1>11

LEMMA FromOK ==
  ASSUME NEW its, NEW lo \in Nat, NEW hi \in Nat, IteratorsOK(its, lo, hi), NEW key \in Nat, key <= hi,
         NEW out, out = IteratorsFrom(its, key)
  PROVE  /\ IteratorsOK(out, key, hi)
         /\ \A k \in Nat : Reads(its, k) /\ key <= k => Reads(out, k)
<1> DEFINE I == {n \in DOMAIN its : its[n].max > key}
           sel == Selected(its, I)
<1>1. /\ its \in Seq(AnyRange) /\ DOMAIN its = 1..Len(its)
      /\ \A n \in 1..Len(its) : /\ its[n].min \in Nat /\ its[n].max \in Nat
                                /\ lo <= its[n].min /\ its[n].min <= its[n].max /\ its[n].max <= hi
  BY IteratorFields
<1>2. I \in SUBSET (1..Len(its))
  BY <1>1
<1>3. \A n \in 1..Len(its) : n \in I <=> its[n].max > key
  BY <1>1
<1>4. out = [n \in DOMAIN sel |-> NewRange(MaxOf(sel[n].min, key), sel[n].max)]
  BY DEF IteratorsFrom
<1> HIDE DEF I
<1>5. sel \in Seq(AnyRange) /\ \E p : Picks(sel, its, I, p)
  BY <1>1, <1>2, SelectedPicks
<1> HIDE DEF sel
<1>6. PICK p : Picks(sel, its, I, p)
  BY <1>5
<1>7. Len(sel) \in Nat /\ DOMAIN sel = 1..Len(sel)
  BY <1>5
<1>8. ASSUME NEW n \in 1..Len(sel)
      PROVE  /\ out[n] \in AnyRange
             /\ out[n].min = MaxOf(sel[n].min, key) /\ out[n].max = sel[n].max
             /\ out[n].max <= sel[n].max /\ out[n].min <= out[n].max /\ key <= out[n].min /\ out[n].max <= hi
             /\ sel[n].min <= out[n].min
  <2>1. p[n] \in I /\ sel[n] = its[p[n]]
    BY <1>6 DEF Picks
  <2>2. sel[n].min \in Nat /\ sel[n].max \in Nat /\ sel[n].max <= hi /\ sel[n].min <= sel[n].max
        /\ sel[n].max > key
    BY <1>1, <1>2, <1>3, <2>1
  <2>3. out[n] = [min |-> MaxOf(sel[n].min, key), max |-> sel[n].max]
    BY <1>4, <1>7 DEF NewRange
  <2>4. MaxOf(sel[n].min, key) \in Nat /\ sel[n].min <= MaxOf(sel[n].min, key)
        /\ key <= MaxOf(sel[n].min, key) /\ MaxOf(sel[n].min, key) <= sel[n].max
    BY <2>2 DEF MaxOf
  <2> QED BY <2>2, <2>3, <2>4 DEF AnyRange
<1>9. out \in [1..Len(sel) -> AnyRange]
  <2> DEFINE g(n) == NewRange(MaxOf(sel[n].min, key), sel[n].max)
  <2>1. out = [n \in 1..Len(sel) |-> g(n)]
    BY <1>4, <1>7
  <2> HIDE DEF g
  <2>2. \A n \in 1..Len(sel) : out[n] = g(n)
    BY <2>1
  <2>3. \A n \in 1..Len(sel) : g(n) \in AnyRange
    BY <2>2, <1>8
  <2> HIDE DEF AnyRange
  <2> QED BY <2>1, <2>3
<1>10. IteratorsOK(out, key, hi) /\ Len(out) = Len(sel)
  <2>1. out \in Seq(AnyRange) /\ Len(out) = Len(sel)
    BY <1>7, <1>9, FunctionIsSeq
  <2>2. \A n \in 1..Len(sel) :
            /\ sel[n].min <= out[n].min /\ out[n].max <= sel[n].max
            /\ out[n].min <= out[n].max /\ key <= out[n].min /\ out[n].max <= hi
    BY <1>8
  <2> HIDE DEF AnyRange
  <2> QED BY <1>2, <1>6, <1>7, <2>1, <2>2, CutIterators
<1>11. ASSUME NEW k \in Nat, Reads(its, k), key <= k PROVE Reads(out, k)
  <2>1. PICK m \in 1..Len(its) : its[m].min <= k /\ k < its[m].max
    BY <1>11 DEF Reads, ContainsKey
  <2>2. m \in I
    BY <2>1, <1>1, <1>3, <1>11
  <2>3. PICK n \in 1..Len(sel) : p[n] = m
    BY <2>2, <1>6 DEF Picks
  <2>4. sel[n] = its[m]
    BY <2>3, <1>6 DEF Picks
  <2>5. out[n].min <= k /\ k < out[n].max
    BY <1>8, <1>11, <2>1, <2>4, <1>1 DEF MaxOf
  <2> QED BY <2>5, <1>10 DEF Reads, ContainsKey
<1> QED BY <1>10, <1>11

\* x[1] has what s has below the key, x[2] the rest.
SplitsAt(s, key, x) ==
    /\ x[1] \in GoodSlices /\ x[2] \in GoodSlices
    /\ x[1].min = s.min /\ x[1].max = key /\ x[2].min = key /\ x[2].max = s.max
    /\ s.predicate \subseteq x[1].predicate /\ s.predicate \subseteq x[2].predicate
    /\ Keeps({s}, {x[1], x[2]})

\* Splitting a slice at a key keeps all that it holds (slice.go).
LEMMA SplitByRangeOK ==
  ASSUME NEW s \in GoodSlices, NEW key \in Nat, s.min <= key, key <= s.max,
         NEW x, x = SplitByRange(s, key)
  PROVE  SplitsAt(s, key, x)
<1> DEFINE left  == NewScope(s.min, key, s.predicate)
           right == NewScope(key, s.max, s.predicate)
           tracker == SplitTracker(s, left)
           below == IteratorsBelow(s.iterators, key)
           from  == IteratorsFrom(s.iterators, key)
<1>1. /\ s.min \in Nat /\ s.max \in Nat /\ s.predicate \in SUBSET Universal
      /\ IteratorsOK(s.iterators, s.min, s.max) /\ TrackerOK(s)
      /\ \A t \in Tracked(s) : s.min <= t.key /\ t.key < s.max /\ t.group \in s.predicate
  BY SliceFields
<1>2. x[1] = SliceOf(left, below, tracker[1]) /\ x[2] = SliceOf(right, from, tracker[2])
  BY DEF SplitByRange
<1>3. /\ TrackerOK(tracker[1]) /\ TrackerOK(tracker[2])
      /\ tracker[1].pending = {t \in s.pending : ScopeContains(left, t)}
      /\ tracker[1].acked = {t \in s.acked : ScopeContains(left, t)}
      /\ tracker[2].pending = {t \in s.pending : ~ScopeContains(left, t)}
      /\ tracker[2].acked = {t \in s.acked : ~ScopeContains(left, t)}
  BY <1>1, SplitTrackerOK
<1>4. /\ IteratorsOK(below, s.min, key)
      /\ \A k \in Nat : Reads(s.iterators, k) /\ k < key => Reads(below, k)
  BY <1>1, BelowOK
<1>5. /\ IteratorsOK(from, key, s.max)
      /\ \A k \in Nat : Reads(s.iterators, k) /\ key <= k => Reads(from, k)
  BY <1>1, FromOK
<1>6. \A t \in Tracked(s) : ScopeContains(left, t) <=> t.key < key
  BY <1>1 DEF ScopeContains, ContainsKey, NewScope
<1>7. \A t \in Tracked(s) : t.key \in Nat
  BY <1>1 DEF TrackerOK, Tracked, AnyTask
<1>8. \A t \in Tracked(tracker[1]) : s.min <= t.key /\ t.key < key /\ t.group \in s.predicate
  <2>1. Tracked(tracker[1]) = {t \in Tracked(s) : ScopeContains(left, t)}
    BY <1>3 DEF Tracked
  <2> HIDE DEF tracker, left
  <2> QED BY <1>1, <1>6, <2>1
<1>9. \A t \in Tracked(tracker[2]) : key <= t.key /\ t.key < s.max /\ t.group \in s.predicate
  <2>1. Tracked(tracker[2]) = {t \in Tracked(s) : ~ScopeContains(left, t)}
    BY <1>3 DEF Tracked
  <2> HIDE DEF tracker, left
  <2> QED BY <1>1, <1>6, <1>7, <2>1
<1> HIDE DEF tracker, below, from
<1>10. /\ x[1] \in GoodSlices /\ x[1].min = s.min /\ x[1].max = key /\ s.predicate \subseteq x[1].predicate
       /\ x[1].iterators = below /\ x[1].pending = tracker[1].pending /\ x[1].acked = tracker[1].acked
  BY <1>1, <1>2, <1>3, <1>4, <1>8, SliceOfGood
<1>11. /\ x[2] \in GoodSlices /\ x[2].min = key /\ x[2].max = s.max /\ s.predicate \subseteq x[2].predicate
       /\ x[2].iterators = from /\ x[2].pending = tracker[2].pending /\ x[2].acked = tracker[2].acked
  BY <1>1, <1>2, <1>3, <1>5, <1>9, SliceOfGood
<1>12. ASSUME NEW t \in AnyTask, Holds(s, t) PROVE Holds(x[1], t) \/ Holds(x[2], t)
  <2>1. CASE t \in s.pending
    BY <2>1, <1>3, <1>10, <1>11 DEF Holds
  <2>2. CASE t.group \in s.predicate /\ Reads(s.iterators, t.key)
    <3>1. t.key \in Nat
      BY DEF AnyTask
    <3>2. t.key < key \/ key <= t.key
      BY <3>1
    <3> QED BY <2>2, <3>1, <3>2, <1>4, <1>5, <1>10, <1>11 DEF Holds
  <2> QED BY <1>12, <2>1, <2>2 DEF Holds
<1>13. Keeps({s}, {x[1], x[2]})
  <2>1. ASSUME NEW y \in {x[1], x[2]}
        PROVE  s.min <= y.min /\ y.max <= s.max /\ y.pending \subseteq s.pending /\ y.acked \subseteq s.acked
    BY <1>1, <1>3, <1>10, <1>11
  <2> QED BY <1>10, <1>11, <1>12, <2>1 DEF Keeps
<1> QED BY <1>10, <1>11, <1>13 DEF SplitsAt

\* Splitting a slice by a predicate keeps all that it holds: both parts read on.
LEMMA SplitByPredicateOK ==
  ASSUME NEW s \in GoodSlices, NEW P, NEW x, x = SplitByPredicate(s, P)
  PROVE  /\ x[1] \in GoodSlices /\ x[2] \in GoodSlices
         /\ x[1].min = s.min /\ x[1].max = s.max /\ x[2].min = s.min /\ x[2].max = s.max
         /\ Keeps({s}, {x[1], x[2]})
<1> DEFINE A == s.predicate \cap P
           B == s.predicate \ P
           pass == NewScope(s.min, s.max, A)
           fail == NewScope(s.min, s.max, B)
           tracker == SplitTracker(s, pass)
<1>1. /\ s.min \in Nat /\ s.max \in Nat /\ s.min <= s.max /\ s.predicate \in SUBSET Universal
      /\ IteratorsOK(s.iterators, s.min, s.max) /\ TrackerOK(s)
      /\ \A t \in Tracked(s) : s.min <= t.key /\ t.key < s.max /\ t.group \in s.predicate
  BY SliceFields
<1>2. x[1] = SliceOf(pass, s.iterators, tracker[1]) /\ x[2] = SliceOf(fail, s.iterators, tracker[2])
  BY DEF SplitByPredicate, RemainingIterators
<1>3. /\ TrackerOK(tracker[1]) /\ TrackerOK(tracker[2])
      /\ tracker[1].pending = {t \in s.pending : ScopeContains(pass, t)}
      /\ tracker[1].acked = {t \in s.acked : ScopeContains(pass, t)}
      /\ tracker[2].pending = {t \in s.pending : ~ScopeContains(pass, t)}
      /\ tracker[2].acked = {t \in s.acked : ~ScopeContains(pass, t)}
  <2> HIDE DEF pass
  <2> QED BY <1>1, SplitTrackerOK
<1>4. \A t \in Tracked(s) : ScopeContains(pass, t) <=> t.group \in P
  BY <1>1 DEF ScopeContains, ContainsKey, NewScope
<1>5. \A t \in Tracked(tracker[1]) : s.min <= t.key /\ t.key < s.max /\ t.group \in A
  <2>1. Tracked(tracker[1]) = {t \in Tracked(s) : ScopeContains(pass, t)}
    BY <1>3 DEF Tracked
  <2> HIDE DEF tracker, pass
  <2> QED BY <1>1, <1>4, <2>1
<1>6. \A t \in Tracked(tracker[2]) : s.min <= t.key /\ t.key < s.max /\ t.group \in B
  <2>1. Tracked(tracker[2]) = {t \in Tracked(s) : ~ScopeContains(pass, t)}
    BY <1>3 DEF Tracked
  <2> HIDE DEF tracker, pass
  <2> QED BY <1>1, <1>4, <2>1
<1>7. A \in SUBSET Universal /\ B \in SUBSET Universal /\ \A g \in s.predicate : g \in A \/ g \in B
  BY <1>1
<1> HIDE DEF tracker, A, B
<1>10. /\ x[1] \in GoodSlices /\ x[1].min = s.min /\ x[1].max = s.max
       /\ A \subseteq x[1].predicate
       /\ x[1].iterators = s.iterators /\ x[1].pending = tracker[1].pending /\ x[1].acked = tracker[1].acked
  BY <1>1, <1>2, <1>3, <1>5, <1>7, SliceOfGood
<1>11. /\ x[2] \in GoodSlices /\ x[2].min = s.min /\ x[2].max = s.max
       /\ B \subseteq x[2].predicate
       /\ x[2].iterators = s.iterators /\ x[2].pending = tracker[2].pending /\ x[2].acked = tracker[2].acked
  BY <1>1, <1>2, <1>3, <1>6, <1>7, SliceOfGood
<1>12. ASSUME NEW t \in AnyTask, Holds(s, t) PROVE Holds(x[1], t) \/ Holds(x[2], t)
  BY <1>12, <1>3, <1>7, <1>10, <1>11 DEF Holds
<1>13. Keeps({s}, {x[1], x[2]})
  <2>1. ASSUME NEW y \in {x[1], x[2]}
        PROVE  s.min <= y.min /\ y.max <= s.max /\ y.pending \subseteq s.pending /\ y.acked \subseteq s.acked
    BY <1>1, <1>3, <1>10, <1>11
  <2> QED BY <1>10, <1>11, <1>12, <2>1 DEF Keeps
<1> QED BY <1>10, <1>11, <1>13

\* A new slice is to read everything in its scope.
LEMMA NewSliceOK ==
  ASSUME NEW lo \in Nat, NEW hi \in Nat, lo <= hi, NEW P \in SUBSET Universal,
         NEW s, s = NewSlice(NewScope(lo, hi, P))
  PROVE  /\ s \in GoodSlices /\ s.min = lo /\ s.max = hi /\ P \subseteq s.predicate
         /\ s.pending = {} /\ s.acked = {}
         /\ \A t \in AnyTask : lo <= t.key /\ t.key < hi /\ t.group \in P => Holds(s, t)
<1> DEFINE its == <<NewRange(lo, hi)>>
<1>1. s = SliceOf(NewScope(lo, hi, P), its, NothingPending)
  BY DEF NewSlice, NewScope
<1>2. IteratorsOK(its, lo, hi) /\ Len(its) = 1 /\ its[1].min = lo /\ its[1].max = hi
  BY DEF IteratorsOK, NewRange, AnyRange
<1> HIDE DEF its
<1>3. /\ s \in GoodSlices /\ s.min = lo /\ s.max = hi /\ P \subseteq s.predicate /\ s.iterators = its
      /\ s.pending = NothingPending.pending /\ s.acked = NothingPending.acked
  BY <1>1, <1>2, NothingPendingOK, SliceOfGood
<1>4. ASSUME NEW t \in AnyTask, lo <= t.key, t.key < hi, t.group \in P PROVE Holds(s, t)
  <2>1. Reads(its, t.key)
    BY <1>2, <1>4 DEF Reads, ContainsKey
  <2> QED BY <1>3, <1>4, <2>1 DEF Holds
<1> QED BY <1>3, <1>4 DEF NothingPending

\* What a shrunk slice forgets is done.
LEMMA ShrinkScopeOK ==
  ASSUME NEW s \in GoodSlices, NEW x, x = ShrinkScope(s)
  PROVE  /\ x \in GoodSlices /\ s.min <= x.min /\ x.max = s.max
         /\ x.acked = {} /\ x.pending = s.pending /\ x.iterators = s.iterators
         /\ Keeps({s}, {x})
<1> DEFINE perKey == [g \in Groups |-> s.pendingPerKey[g] - CountOf(s.acked, g)]
           groups == {g \in Groups : perKey[g] # 0}
           shrinkable == s.iterators = <<>> /\ Cardinality(groups) <= ShrinkPredicateMaxPendingKeys
           keys == {t.key : t \in s.pending} \cup
                   (IF s.iterators = <<>> THEN {} ELSE {s.iterators[1].min})
<1>1. /\ s \in SliceRecords /\ s.min \in Nat /\ s.max \in Nat /\ s.min <= s.max
      /\ s.predicate \in SUBSET Universal
      /\ IteratorsOK(s.iterators, s.min, s.max) /\ TrackerOK(s)
      /\ \A t \in Tracked(s) : s.min <= t.key /\ t.key < s.max /\ t.group \in s.predicate
  BY SliceFields
<1>2. /\ x.acked = {} /\ x.pendingPerKey = perKey /\ x.min = RangeStart(s) /\ x.max = s.max
      /\ x.predicate = IF shrinkable THEN SizeLimited(groups) ELSE s.predicate
      /\ x.pending = s.pending /\ x.iterators = s.iterators
      /\ x = [min |-> RangeStart(s), max |-> s.max, predicate |-> x.predicate,
              iterators |-> s.iterators, pending |-> s.pending, acked |-> {}, pendingPerKey |-> perKey]
  BY <1>1 DEF ShrinkScope, SliceRecords
<1>3. /\ s.min <= RangeStart(s) /\ RangeStart(s) <= s.max /\ RangeStart(s) \in Nat
      /\ \A t \in s.pending : RangeStart(s) <= t.key
      /\ s.iterators # <<>> => RangeStart(s) <= s.iterators[1].min
  <2>1. RangeStart(s) = IF keys = {} THEN s.max ELSE Min(keys)
    BY DEF RangeStart
  <2>2. \A k \in keys : k \in Nat /\ s.min <= k /\ k <= s.max
    <3>1. \A t \in s.pending : t.key \in Nat /\ s.min <= t.key /\ t.key <= s.max
      <4>1. \A t \in s.pending : t \in AnyTask /\ t \in Tracked(s)
        BY <1>1 DEF TrackerOK, Tracked
      <4> QED BY <1>1, <4>1 DEF AnyTask
    <3>2. s.iterators # <<>> => /\ s.iterators[1].min \in Nat /\ s.min <= s.iterators[1].min
                                /\ s.iterators[1].min <= s.max
      <4> SUFFICES ASSUME s.iterators # <<>> PROVE /\ s.iterators[1].min \in Nat
                                                   /\ s.min <= s.iterators[1].min
                                                   /\ s.iterators[1].min <= s.max
        OBVIOUS
      <4>1. 1 \in 1..Len(s.iterators)
        <5>1. s.iterators \in Seq(AnyRange)
          BY <1>1 DEF IteratorsOK
        <5> QED BY <5>1
      <4>2. /\ s.iterators[1].min \in Nat /\ s.iterators[1].max \in Nat /\ s.min <= s.iterators[1].min
            /\ s.iterators[1].min <= s.iterators[1].max /\ s.iterators[1].max <= s.max
        BY <1>1, <4>1, IteratorFields
      <4> QED BY <1>1, <4>2
    <3> QED BY <3>1, <3>2
  <2>3. CASE keys = {}
    BY <1>1, <2>1, <2>3
  <2>4. CASE keys # {}
    <3>1. keys \in SUBSET Nat
      BY <2>2
    <3>2. Min(keys) \in keys /\ \A k \in keys : Min(keys) <= k
      <4> HIDE DEF keys
      <4>1. \E k \in keys : \A l \in keys : k <= l
        BY <2>4, <3>1, LeastNumber
      <4> QED BY <4>1 DEF Min
    <3>3. RangeStart(s) \in keys /\ \A k \in keys : RangeStart(s) <= k
      <4> HIDE DEF keys
      <4> QED BY <2>1, <2>4, <3>2
    <3>4. \A t \in s.pending : t.key \in keys
      OBVIOUS
    <3>5. s.iterators # <<>> => s.iterators[1].min \in keys
      OBVIOUS
    <3> HIDE DEF keys
    <3> QED BY <2>2, <3>3, <3>4, <3>5
  <2> QED BY <2>3, <2>4
<1>4. ASSUME NEW g \in Groups
      PROVE  perKey[g] \in Nat /\ CountOf(s.pending, g) <= perKey[g]
  <2>1. IsFiniteSet(s.pending) /\ IsFiniteSet(s.acked) /\ s.pending \cap s.acked = {}
        /\ CountOf(Tracked(s), g) <= s.pendingPerKey[g] /\ s.pendingPerKey[g] \in Nat
    BY <1>1 DEF TrackerOK
  <2>2. CountOf(Tracked(s), g) = CountOf(s.pending, g) + CountOf(s.acked, g)
    BY <2>1, CountUnion DEF Tracked
  <2>3. CountOf(s.pending, g) \in Nat /\ CountOf(s.acked, g) \in Nat
    BY <2>1, CountFinite
  <2>4. perKey[g] = s.pendingPerKey[g] - CountOf(s.acked, g)
    OBVIOUS
  <2> QED BY <2>1, <2>2, <2>3, <2>4
<1>5. Tracked(x) = s.pending
  BY <1>2 DEF Tracked
<1>6. perKey \in [Groups -> Nat]
  BY <1>4
<1>7. TrackerOK(x)
  <2>1. IsFiniteSet({})
    BY FS_EmptySet
  <2> HIDE DEF perKey
  <2> QED BY <1>1, <1>2, <1>4, <1>5, <1>6, <2>1 DEF TrackerOK
<1>8. /\ x.predicate \in SUBSET Universal
      /\ \A t \in s.pending : t.group \in x.predicate
      /\ s.iterators # <<>> => x.predicate = s.predicate
  <2>1. CASE shrinkable
    <3>1. groups \in SUBSET Universal
      BY DEF Universal
    <3>2. groups \subseteq x.predicate /\ x.predicate \in SUBSET Universal
      <4> HIDE DEF groups
      <4> QED BY <1>2, <2>1, <3>1, SizeLimits
    <3>3. ASSUME NEW t \in s.pending PROVE t.group \in groups
      <4>1. t.group \in Groups /\ IsFiniteSet(s.pending)
        BY <1>1 DEF TrackerOK, AnyTask
      <4>2. CountOf(s.pending, t.group) # 0 /\ CountOf(s.pending, t.group) \in Nat
        BY <4>1, CountPositive, CountFinite
      <4>3. perKey[t.group] # 0
        <5> HIDE DEF perKey
        <5> QED BY <4>1, <4>2, <1>4
      <4> QED BY <4>1, <4>3
    <3> QED BY <2>1, <3>2, <3>3
  <2>2. CASE ~shrinkable
    <3>1. x.predicate = s.predicate
      BY <1>2, <2>2
    <3> QED BY <1>1, <3>1 DEF Tracked
  <2> QED BY <2>1, <2>2
<1> HIDE DEF perKey
<1>9. IteratorsOK(x.iterators, x.min, x.max)
  <2>1. \A n \in 1..Len(s.iterators) : x.min <= s.iterators[n].min
    <3> SUFFICES ASSUME NEW n \in 1..Len(s.iterators) PROVE x.min <= s.iterators[n].min
      OBVIOUS
    <3>0. /\ s.iterators \in Seq(AnyRange) /\ s.iterators # <<>> /\ 1 \in 1..Len(s.iterators)
          /\ Len(s.iterators) \in Nat /\ n \in Nat
      <4>1. s.iterators \in Seq(AnyRange)
        BY <1>1 DEF IteratorsOK
      <4> QED BY <4>1
    <3>1. /\ s.iterators[1].min \in Nat /\ s.iterators[1].max \in Nat /\ s.iterators[n].min \in Nat
          /\ s.iterators[1].min <= s.iterators[1].max
          /\ 1 < n => s.iterators[1].max < s.iterators[n].min
      BY <1>1, <3>0, IteratorFields
    <3>2. n = 1 \/ 1 < n
      BY <3>0
    <3> QED BY <1>2, <1>3, <3>0, <3>1, <3>2
  <2> QED BY <1>1, <1>2, <2>1 DEF IteratorsOK
<1>10. x \in SliceRecords
  <2>1. s.pending \in SUBSET AnyTask /\ s.iterators \in Seq(AnyRange)
    BY <1>1 DEF TrackerOK, IteratorsOK
  <2> QED BY <1>1, <1>2, <1>3, <1>6, <1>8, <2>1 DEF SliceRecords
<1>11. x \in GoodSlices
  <2>1. \A t \in Tracked(x) : ScopeContains(x, t)
    <3> SUFFICES ASSUME NEW t \in s.pending PROVE ScopeContains(x, t)
      BY <1>5
    <3>1. t.key < s.max
      BY <1>1 DEF Tracked
    <3> QED BY <1>2, <1>3, <1>8, <3>1 DEF ScopeContains, ContainsKey
  <2>2. x.min <= x.max
    BY <1>2, <1>3
  <2> QED BY <1>7, <1>9, <1>10, <2>1, <2>2 DEF GoodSlices, SliceOK
<1>12. \A t \in AnyTask : Holds(s, t) => Holds(x, t)
  <2>1. \A t \in AnyTask : Reads(s.iterators, t.key) => s.iterators # <<>>
    BY DEF Reads
  <2> QED BY <1>2, <1>8, <2>1 DEF Holds
<1>13. Keeps({s}, {x})
  <2>1. s.min <= x.min /\ x.max <= s.max
    BY <1>1, <1>2, <1>3
  <2> QED BY <1>2, <1>11, <1>12, <2>1 DEF Keeps
<1> QED BY <1>2, <1>3, <1>11, <1>13

\* What a cleared slice forgets will be read again.
LEMMA ClearOK ==
  ASSUME NEW s \in GoodSlices, NEW x, x = Clear(s)
  PROVE  /\ x \in GoodSlices /\ s.min <= x.min /\ x.max = s.max
         /\ Keeps({s}, {x})
<1> DEFINE y == ShrinkScope(s)
<1>1. y \in GoodSlices /\ s.min <= y.min /\ y.max = s.max /\ Keeps({s}, {y})
  BY ShrinkScopeOK
<1> HIDE DEF y
<1>2. y.min \in Nat /\ y.max \in Nat /\ y.min <= y.max /\ y.predicate \in SUBSET Universal
  BY <1>1, SliceFields
<1>3. x = NewSlice(NewScope(y.min, y.max, y.predicate))
  BY DEF Clear, ScopeOf, y
<1>4. /\ x \in GoodSlices /\ x.min = y.min /\ x.max = y.max /\ y.predicate \subseteq x.predicate
      /\ x.pending = {} /\ x.acked = {}
      /\ \A t \in AnyTask : y.min <= t.key /\ t.key < y.max /\ t.group \in y.predicate => Holds(x, t)
  BY <1>2, <1>3, NewSliceOK
<1>5. \A t \in AnyTask : Holds(y, t) => Holds(x, t)
  BY <1>1, <1>4, HoldsInScope
<1>6. Keeps({y}, {x})
  <2>1. y.min <= x.min /\ x.max <= y.max
    BY <1>2, <1>4
  <2> QED BY <1>4, <1>5, <2>1 DEF Keeps
<1>7. Keeps({s}, {x})
  BY <1>1, <1>6, KeepsThen
<1> QED BY <1>1, <1>4, <1>7

\* Both trackers are in the merged one, but an executable that is in both is counted twice.
LEMMA MergeTrackerOK ==
  ASSUME NEW s, TrackerOK(s), NEW t, TrackerOK(t), NEW m, m = MergeTracker(s, t)
  PROVE  /\ TrackerOK(m)
         /\ m.pending \subseteq s.pending \cup t.pending /\ m.acked \subseteq s.acked \cup t.acked
         /\ \A u \in s.pending \cup t.pending : u \notin s.acked \cup t.acked => u \in m.pending
<1> DEFINE Sum(l, r) == [pending |-> r.pending \cup (l.pending \ r.acked),
                         acked   |-> r.acked \cup (l.acked \ r.pending),
                         pendingPerKey |-> [g \in Groups |-> l.pendingPerKey[g] + CountOf(Tracked(r), g)]]
<1>1. ASSUME NEW l, TrackerOK(l), NEW r, TrackerOK(r), m = Sum(l, r)
      PROVE  /\ TrackerOK(m)
             /\ m.pending \subseteq l.pending \cup r.pending /\ m.acked \subseteq l.acked \cup r.acked
             /\ \A u \in l.pending \cup r.pending : u \notin l.acked \cup r.acked => u \in m.pending
  <2>1. /\ l.pending \in SUBSET AnyTask /\ IsFiniteSet(l.pending)
        /\ l.acked \in SUBSET AnyTask /\ IsFiniteSet(l.acked) /\ l.pending \cap l.acked = {}
        /\ r.pending \in SUBSET AnyTask /\ IsFiniteSet(r.pending)
        /\ r.acked \in SUBSET AnyTask /\ IsFiniteSet(r.acked) /\ r.pending \cap r.acked = {}
        /\ \A g \in Groups : l.pendingPerKey[g] \in Nat /\ CountOf(Tracked(l), g) <= l.pendingPerKey[g]
    BY <1>1 DEF TrackerOK
  <2>2. /\ m.pending = r.pending \cup (l.pending \ r.acked)
        /\ m.acked = r.acked \cup (l.acked \ r.pending)
        /\ m.pendingPerKey = [g \in Groups |-> l.pendingPerKey[g] + CountOf(Tracked(r), g)]
    BY <1>1
  <2>3. IsFiniteSet(Tracked(l)) /\ IsFiniteSet(Tracked(r))
    BY <2>1, FS_Union DEF Tracked
  <2>4. Tracked(m) = Tracked(l) \cup Tracked(r)
    BY <2>2 DEF Tracked
  <2>5. ASSUME NEW g \in Groups
        PROVE  /\ l.pendingPerKey[g] + CountOf(Tracked(r), g) \in Nat
               /\ CountOf(Tracked(m), g) <= l.pendingPerKey[g] + CountOf(Tracked(r), g)
    <3>1. CountOf(Tracked(m), g) <= CountOf(Tracked(l), g) + CountOf(Tracked(r), g)
      BY <2>3, <2>4, CountUnion
    <3>2. CountOf(Tracked(l), g) \in Nat /\ CountOf(Tracked(r), g) \in Nat
      BY <2>3, CountFinite
    <3>3. CountOf(Tracked(m), g) \in Nat
      <4>1. IsFiniteSet(Tracked(m))
        BY <2>3, <2>4, FS_Union
      <4> QED BY <4>1, CountFinite
    <3> QED BY <2>1, <3>1, <3>2, <3>3
  <2>6. IsFiniteSet(m.pending) /\ IsFiniteSet(m.acked)
    <3>1. IsFiniteSet(l.pending \ r.acked) /\ IsFiniteSet(l.acked \ r.pending)
      BY <2>1, FS_Subset
    <3>2. IsFiniteSet(r.pending \cup (l.pending \ r.acked))
      BY <2>1, <3>1, FS_Union
    <3>3. IsFiniteSet(r.acked \cup (l.acked \ r.pending))
      BY <2>1, <3>1, FS_Union
    <3> QED BY <2>2, <3>2, <3>3
  <2>7. /\ m.pendingPerKey \in [Groups -> Nat]
        /\ \A g \in Groups : CountOf(Tracked(m), g) <= m.pendingPerKey[g]
    BY <2>2, <2>5
  <2>8. m.pending \in SUBSET AnyTask /\ m.acked \in SUBSET AnyTask /\ m.pending \cap m.acked = {}
    BY <2>1, <2>2
  <2>9. TrackerOK(m)
    BY <2>6, <2>7, <2>8 DEF TrackerOK
  <2> QED BY <2>1, <2>2, <2>9
<1>2. m = Sum(s, t) \/ m = Sum(t, s)
  <2>1. CASE Cardinality(Tracked(s)) < Cardinality(Tracked(t)) /\ s # t
    BY <2>1 DEF MergeTracker
  <2>2. CASE ~(Cardinality(Tracked(s)) < Cardinality(Tracked(t)) /\ s # t)
    BY <2>2 DEF MergeTracker
  <2> QED BY <2>1, <2>2
<1> HIDE DEF Sum
<1>3. CASE m = Sum(s, t)
  BY <1>1, <1>3
<1>4. CASE m = Sum(t, s)
  BY <1>1, <1>4
<1> QED BY <1>2, <1>3, <1>4

-----------------------------------------------------------------------------
(* Folds                                                                   *)

LEMMA ReplaceAtOK ==
  ASSUME NEW T, NEW s \in Seq(T), NEW i \in 1..Len(s), NEW e \in T
  PROVE  /\ ReplaceAt(s, i, e) \in Seq(T) /\ Len(ReplaceAt(s, i, e)) = Len(s)
         /\ ReplaceAt(s, i, e)[i] = e
         /\ \A n \in 1..Len(s) : n # i => ReplaceAt(s, i, e)[n] = s[n]
<1> DEFINE r == [s EXCEPT ![i] = e]
<1>1. s \in [1..Len(s) -> T] /\ Len(s) \in Nat
  OBVIOUS
<1>2. r \in [1..Len(s) -> T] /\ r[i] = e /\ \A n \in 1..Len(s) : n # i => r[n] = s[n]
  BY <1>1
<1> HIDE DEF r
<1>3. r \in Seq(T) /\ Len(r) = Len(s)
  BY <1>1, <1>2, FunctionIsSeq
<1> QED BY <1>2, <1>3 DEF ReplaceAt, r

LEMMA AppendIteratorType ==
  ASSUME NEW its \in Seq(AnyRange), NEW it \in AnyRange
  PROVE  /\ AppendIterator(its, it) \in Seq(AnyRange) /\ AppendIterator(its, it) # <<>>
         /\ its # <<>> => /\ Last(its) = its[Len(its)] /\ Len(its) \in 1..Len(its)
                          /\ Last(its) \in AnyRange
         /\ its = <<>> \/ ~CanMerge(Last(its), it) => AppendIterator(its, it) = Append(its, it)
         /\ its # <<>> /\ CanMerge(Last(its), it) =>
               /\ Len(AppendIterator(its, it)) = Len(its)
               /\ \A n \in 1..Len(its) - 1 : AppendIterator(its, it)[n] = its[n]
               /\ AppendIterator(its, it)[Len(its)] = Merge(Last(its), it)
<1>1. its # <<>> => Last(its) = its[Len(its)] /\ Len(its) \in 1..Len(its) /\ Last(its) \in AnyRange
  BY DEF Last
<1>2. CASE its = <<>> \/ ~CanMerge(Last(its), it)
  <2>1. AppendIterator(its, it) = Append(its, it)
    BY <1>2 DEF AppendIterator
  <2> QED BY <1>1, <1>2, <2>1
<1>3. CASE its # <<>> /\ CanMerge(Last(its), it)
  <2> DEFINE e == Merge(Last(its), it)
  <2>1. AppendIterator(its, it) = ReplaceAt(its, Len(its), e)
    BY <1>3 DEF AppendIterator
  <2>2. e \in AnyRange
    BY <1>1, <1>3 DEF Merge, NewRange, MinOf, MaxOf, AnyRange
  <2> HIDE DEF AnyRange, e
  <2>3. /\ ReplaceAt(its, Len(its), e) \in Seq(AnyRange) /\ Len(ReplaceAt(its, Len(its), e)) = Len(its)
        /\ ReplaceAt(its, Len(its), e)[Len(its)] = e
        /\ \A n \in 1..Len(its) : n # Len(its) => ReplaceAt(its, Len(its), e)[n] = its[n]
    <3> DEFINE i == Len(its)
               T == AnyRange
    <3>1. i \in 1..Len(its) /\ its \in Seq(T) /\ e \in T
      BY <1>1, <1>3, <2>2
    <3> HIDE DEF i, T
    <3>2. /\ ReplaceAt(its, i, e) \in Seq(T) /\ Len(ReplaceAt(its, i, e)) = Len(its)
          /\ ReplaceAt(its, i, e)[i] = e
          /\ \A n \in 1..Len(its) : n # i => ReplaceAt(its, i, e)[n] = its[n]
      BY <3>1, ReplaceAtOK
    <3> QED BY <3>2 DEF i, T
  <2>4. \A n \in 1..Len(its) - 1 : n \in 1..Len(its) /\ n # Len(its)
    BY <1>1, <1>3
  <2>5. AppendIterator(its, it) # <<>>
    BY <1>3, <2>1, <2>3
  <2> QED BY <1>1, <1>3, <2>1, <2>3, <2>4, <2>5 DEF e
<1> QED BY <1>2, <1>3

\* The lists that come of appending one iterator after the other.
Appending(acc, seq, out) ==
    /\ acc[0] = <<>>
    /\ \A k \in 1..Len(seq) : acc[k] = AppendIterator(acc[k - 1], seq[k])
    /\ acc[Len(seq)] = out

LEMMA AppendingIterators ==
  ASSUME NEW seq \in Seq(AnyRange)
  PROVE  \E acc : Appending(acc, seq, FoldLeft(AppendIterator, <<>>, seq))
<1> DEFINE n == Len(seq)
           A == Seq(AnyRange)
           b == <<>>
           h == [x \in (1..n) \X A |-> AppendIterator(x[2], seq[x[1]])]
           Rec(c) == c = [s \in SUBSET (1..n) |->
                            IF s = {} THEN b ELSE AppendIterator(c[s \ {Max(s)}], seq[Max(s)])]
           c == CHOOSE c : Rec(c)
<1>1. b \in A /\ n \in Nat /\ DOMAIN seq = 1..n /\ \A k \in 1..n : seq[k] \in AnyRange
  OBVIOUS
<1> HIDE DEF n
<1>2. h \in [(1..n) \X A -> A]
  <2>1. \A x \in (1..n) \X A : AppendIterator(x[2], seq[x[1]]) \in A
    BY <1>1, AppendIteratorType
  <2> QED BY <2>1
<1>3. \A k \in 1..n : \A a \in A : h[<<k, a>>] = AppendIterator(a, seq[k])
  OBVIOUS
<1>4. PICK f : Folding(f, n, b, h) /\ f \in [SUBSET (1..n) -> A]
  <2> HIDE DEF A, b, h
  <2> QED BY <1>1, <1>2, FoldExists
<1>5. Rec(f)
  <2>1. f = [s \in SUBSET (1..n) |-> IF s = {} THEN b ELSE h[<<Max(s), f[s \ {Max(s)}]>>]]
    BY <1>4 DEF Folding
  <2>2. ASSUME NEW s \in SUBSET (1..n), s # {}
        PROVE  h[<<Max(s), f[s \ {Max(s)}]>>] = AppendIterator(f[s \ {Max(s)}], seq[Max(s)])
    <3>1. Max(s) \in 1..n /\ s \ {Max(s)} \in SUBSET (1..n)
      BY <1>1, <2>2, GreatestPlace
    <3>2. f[s \ {Max(s)}] \in A
      BY <3>1, <1>4
    <3> HIDE DEF h, A
    <3> QED BY <3>1, <3>2, <1>3
  <2> HIDE DEF h, b
  <2> QED BY <2>1, <2>2
<1>6. Rec(c)
  <2> HIDE DEF Rec
  <2> QED BY <1>5
<1>7. FoldLeft(AppendIterator, <<>>, seq) = c[1..n]
  BY <1>1 DEF FoldLeft, MapThenFoldSet
<1> HIDE DEF c, h
<1>8. \A s \in SUBSET (1..n) :
          c[s] = IF s = {} THEN b ELSE AppendIterator(c[s \ {Max(s)}], seq[Max(s)])
  BY <1>6
<1>9. c[1..0] = <<>>
  <2>1. 1..0 = {} /\ {} \in SUBSET (1..n)
    OBVIOUS
  <2> QED BY <1>8, <2>1
<1>10. ASSUME NEW k \in 1..n PROVE c[1..k] = AppendIterator(c[1..k - 1], seq[k])
  <2>1. 1..k \in SUBSET (1..n) /\ 1..k # {} /\ Max(1..k) = k /\ (1..k) \ {k} = 1..k - 1
    BY <1>1, GreatestUpTo
  <2> QED BY <1>8, <2>1
<1> DEFINE acc == [k \in 0..n |-> c[1..k]]
<1>11. acc[0] = <<>> /\ acc[n] = c[1..n] /\ \A k \in 1..n : acc[k] = AppendIterator(acc[k - 1], seq[k])
  <2>1. \A k \in 1..n : k \in 0..n /\ k - 1 \in 0..n
    BY <1>1
  <2>2. 0 \in 0..n /\ n \in 0..n
    BY <1>1
  <2> QED BY <1>9, <1>10, <2>1, <2>2
<1> HIDE DEF acc
<1>12. Appending(acc, seq, FoldLeft(AppendIterator, <<>>, seq))
  BY <1>7, <1>11 DEF Appending, n
<1> QED BY <1>12

\* Appending an iterator keeps the iterators in order and apart, and all that they read.
LEMMA AppendIteratorOK ==
  ASSUME NEW its, NEW lo \in Nat, NEW hi \in Nat, IteratorsOK(its, lo, hi), NEW it \in AnyRange,
         lo <= it.min, it.min <= it.max, it.max <= hi,
         its # <<>> => its[Len(its)].min <= it.min,
         NEW out, out = AppendIterator(its, it)
  PROVE  /\ IteratorsOK(out, lo, hi)
         /\ out # <<>> /\ out[Len(out)].min <= it.min
         /\ \A key \in Nat : Reads(its, key) \/ ContainsKey(it, key) => Reads(out, key)
<1>0. it.min \in Nat /\ it.max \in Nat
  BY DEF AnyRange
<1>1. /\ its \in Seq(AnyRange) /\ Len(its) \in Nat
      /\ \A n \in 1..Len(its) : /\ its[n].min \in Nat /\ its[n].max \in Nat
                                /\ lo <= its[n].min /\ its[n].min <= its[n].max /\ its[n].max <= hi
      /\ \A m, n \in 1..Len(its) : m < n => its[m].max < its[n].min
  BY IteratorFields
<1>2. out \in Seq(AnyRange) /\ out # <<>> /\ Len(out) \in Nat
  BY <1>1, AppendIteratorType
<1>3. CASE its = <<>> \/ ~CanMerge(Last(its), it)
  <2>1. out = Append(its, it)
    BY <1>1, <1>3, AppendIteratorType
  <2>2. /\ Len(out) = Len(its) + 1 /\ out[Len(its) + 1] = it
        /\ \A n \in 1..Len(its) : out[n] = its[n]
    BY <1>1, <2>1
  <2>3. ASSUME NEW m \in 1..Len(its) PROVE its[m].max < it.min
    <3>1. Len(its) \in 1..Len(its) /\ its # <<>> /\ Last(its) = its[Len(its)]
      BY <1>1, AppendIteratorType
    <3>2. its[Len(its)].max < it.min
      <4>1. ~(its[Len(its)].min <= it.max /\ it.min <= its[Len(its)].max)
        BY <1>3, <3>1 DEF CanMerge
      <4> QED BY <4>1, <3>1, <1>1, <1>0
    <3>3. m = Len(its) \/ (m < Len(its) /\ m \in 1..Len(its))
      BY <1>1
    <3>4. m < Len(its) => its[m].max < its[Len(its)].min
      BY <1>1, <3>1
    <3>5. its[m].max \in Nat /\ its[Len(its)].min \in Nat /\ its[Len(its)].max \in Nat
          /\ its[Len(its)].min <= its[Len(its)].max
      BY <1>1, <3>1
    <3> QED BY <1>0, <3>2, <3>3, <3>4, <3>5
  <2>4. ASSUME NEW n \in 1..Len(out) PROVE n \in 1..Len(its) \/ n = Len(its) + 1
    BY <2>2, <1>1
  <2>5. \A n \in 1..Len(out) : lo <= out[n].min /\ out[n].min <= out[n].max /\ out[n].max <= hi
    BY <1>1, <2>2, <2>4
  <2>6. ASSUME NEW m \in 1..Len(out), NEW n \in 1..Len(out), m < n PROVE out[m].max < out[n].min
    <3>1. m \in 1..Len(its)
      BY <2>2, <2>6, <1>1
    <3>2. CASE n \in 1..Len(its)
      BY <3>1, <3>2, <2>2, <2>6, <1>1
    <3>3. CASE n = Len(its) + 1
      BY <3>1, <3>3, <2>2, <2>3
    <3> QED BY <2>4, <3>2, <3>3
  <2>7. IteratorsOK(out, lo, hi)
    BY <1>2, <2>5, <2>6 DEF IteratorsOK
  <2>8. ASSUME NEW key \in Nat, Reads(its, key) \/ ContainsKey(it, key) PROVE Reads(out, key)
    <3>1. CASE ContainsKey(it, key)
      <4>1. Len(its) + 1 \in 1..Len(out)
        BY <2>2, <1>1
      <4> QED BY <3>1, <4>1, <2>2 DEF Reads
    <3>2. CASE Reads(its, key)
      <4>1. PICK n \in 1..Len(its) : ContainsKey(its[n], key)
        BY <3>2 DEF Reads
      <4>2. n \in 1..Len(out)
        BY <2>2, <1>1
      <4> QED BY <4>1, <4>2, <2>2 DEF Reads
    <3> QED BY <2>8, <3>1, <3>2
  <2>9. out[Len(out)].min <= it.min
    BY <2>2, <1>0
  <2> QED BY <1>2, <2>7, <2>8, <2>9
<1>4. CASE its # <<>> /\ CanMerge(Last(its), it)
  <2> DEFINE c == Len(its)
             l == its[c]
  <2>1. /\ Last(its) = l /\ c \in 1..c /\ Len(out) = c
        /\ \A n \in 1..c - 1 : out[n] = its[n]
        /\ out[c] = Merge(l, it)
    BY <1>1, <1>4, AppendIteratorType
  <2>2. /\ l.min \in Nat /\ l.max \in Nat /\ lo <= l.min /\ l.min <= l.max /\ l.max <= hi
        /\ l.min <= it.min
    BY <1>1, <1>4, <2>1
  <2>3. out[c].min = l.min /\ out[c].max = MaxOf(l.max, it.max)
    BY <2>1, <2>2, <1>0 DEF Merge, NewRange, MinOf
  <2>4. MaxOf(l.max, it.max) \in Nat /\ l.max <= MaxOf(l.max, it.max) /\ it.max <= MaxOf(l.max, it.max)
        /\ MaxOf(l.max, it.max) <= hi
    BY <2>2, <1>0 DEF MaxOf
  <2>5. \A n \in 1..c : n = c \/ n \in 1..c - 1
    BY <2>1
  <2>6. ASSUME NEW n \in 1..c PROVE lo <= out[n].min /\ out[n].min <= out[n].max /\ out[n].max <= hi
    <3>1. CASE n = c
      BY <3>1, <2>2, <2>3, <2>4
    <3>2. CASE n \in 1..c - 1
      BY <3>2, <1>1, <2>1
    <3> QED BY <2>5, <3>1, <3>2
  <2>7. ASSUME NEW m \in 1..c, NEW n \in 1..c, m < n PROVE out[m].max < out[n].min
    <3>1. m \in 1..c - 1 /\ out[m] = its[m] /\ its[m].max < its[n].min
      BY <2>1, <2>7, <1>1
    <3>2. out[n].min = its[n].min
      BY <2>1, <2>3, <2>5
    <3> QED BY <3>1, <3>2
  <2>8. IteratorsOK(out, lo, hi)
    BY <1>2, <2>1, <2>6, <2>7 DEF IteratorsOK
  <2>9. ASSUME NEW key \in Nat, Reads(its, key) \/ ContainsKey(it, key) PROVE Reads(out, key)
    <3>1. ContainsKey(it, key) \/ ContainsKey(l, key) => ContainsKey(out[c], key)
      BY <1>0, <2>2, <2>3, <2>4 DEF ContainsKey
    <3>2. CASE ContainsKey(it, key) \/ ContainsKey(l, key)
      BY <3>1, <3>2, <2>1 DEF Reads
    <3>3. CASE ~(ContainsKey(it, key) \/ ContainsKey(l, key))
      <4>1. PICK n \in 1..c : ContainsKey(its[n], key)
        BY <2>9, <3>3 DEF Reads
      <4>2. n # c
        BY <3>3, <4>1
      <4>3. out[n] = its[n]
        BY <2>1, <2>5, <4>2
      <4> QED BY <4>1, <4>3, <2>1 DEF Reads
    <3> QED BY <3>2, <3>3
  <2>10. out[Len(out)].min <= it.min
    BY <2>1, <2>2, <2>3
  <2> QED BY <1>2, <2>8, <2>9, <2>10
<1> QED BY <1>3, <1>4

\* Merged iterators are in order, and read what any of them would.
LEMMA MergeIteratorsOK ==
  ASSUME NEW lo \in Nat, NEW hi \in Nat, NEW a, IteratorsOK(a, lo, hi), NEW b, IteratorsOK(b, lo, hi),
         NEW out, out = MergeIterators(a, b)
  PROVE  /\ IteratorsOK(out, lo, hi)
         /\ \A key \in Nat : Reads(a, key) \/ Reads(b, key) => Reads(out, key)
<1> DEFINE both == b \o a
           seq == InMinOrder(b, a)
           n == Len(seq)
<1>1. a \in Seq(AnyRange) /\ b \in Seq(AnyRange) /\ Len(a) \in Nat /\ Len(b) \in Nat
  BY DEF IteratorsOK
<1>2. /\ both \in Seq(AnyRange) /\ Len(both) = Len(b) + Len(a)
      /\ \A i \in 1..Len(b) : both[i] = b[i]
      /\ \A i \in 1..Len(a) : both[Len(b) + i] = a[i]
  BY <1>1
<1>3. ASSUME NEW i \in 1..Len(both)
      PROVE  /\ both[i].min \in Nat /\ both[i].max \in Nat
             /\ lo <= both[i].min /\ both[i].min <= both[i].max /\ both[i].max <= hi
  <2>1. CASE i <= Len(b)
    <3>1. i \in 1..Len(b)
      BY <2>1, <1>1
    <3> QED BY <3>1, <1>2, IteratorFields
  <2>2. CASE ~(i <= Len(b))
    <3>1. i - Len(b) \in 1..Len(a) /\ i = Len(b) + (i - Len(b))
      BY <2>2, <1>1, <1>2
    <3>2. both[i] = a[i - Len(b)]
      BY <3>1, <1>2
    <3> QED BY <3>1, <3>2, IteratorFields
  <2> QED BY <2>1, <2>2
<1>4. seq \in Seq(AnyRange) /\ \E p : Sorts(seq, both, p)
  <2>1. \A x \in AnyRange : x.min \in Nat
    BY DEF AnyRange
  <2> HIDE DEF AnyRange
  <2> QED BY <1>1, <2>1, MinOrderSorts
<1> HIDE DEF seq, both
<1>5. PICK p : Sorts(seq, both, p)
  BY <1>4
<1>6. /\ n \in Nat /\ n = Len(both) /\ \A k \in 1..n : p[k] \in 1..n /\ seq[k] = both[p[k]]
      /\ \A i \in 1..n : \E k \in 1..n : p[k] = i
  <2>1. Len(both) \in Nat /\ Len(seq) = Len(both)
    BY <1>1, <1>2, <1>5 DEF Sorts
  <2>2. \A k \in 1..n : p[k] \in 1..n
    BY <2>1, <1>5 DEF Sorts
  <2>3. \A k \in 1..n : seq[k] = both[p[k]]
    BY <2>1, <1>5 DEF Sorts
  <2>4. \A i \in 1..n : \E k \in 1..n : p[k] = i
    BY <2>1, <1>5 DEF Sorts
  <2> QED BY <2>1, <2>2, <2>3, <2>4
<1>7. \A k \in 1..n : /\ seq[k] \in AnyRange /\ seq[k].min \in Nat /\ seq[k].max \in Nat
                      /\ lo <= seq[k].min /\ seq[k].min <= seq[k].max /\ seq[k].max <= hi
  <2> SUFFICES ASSUME NEW k \in 1..n
               PROVE  /\ seq[k] \in AnyRange /\ seq[k].min \in Nat /\ seq[k].max \in Nat
                      /\ lo <= seq[k].min /\ seq[k].min <= seq[k].max /\ seq[k].max <= hi
    OBVIOUS
  <2>1. seq[k] \in AnyRange
    BY <1>4, <1>6
  <2>2. p[k] \in 1..Len(both) /\ seq[k] = both[p[k]]
    BY <1>6
  <2> QED BY <1>3, <2>1, <2>2
<1>8. \A k, l \in 1..n : k < l => seq[k].min <= seq[l].min
  <2>1. \A k, l \in 1..n : k < l => seq[k].min < seq[l].min \/ seq[k].min = seq[l].min
    BY <1>5, <1>6 DEF Sorts
  <2> QED BY <1>7, <2>1
<1>9. PICK acc : Appending(acc, seq, out)
  <2>1. out = FoldLeft(AppendIterator, <<>>, seq)
    BY DEF MergeIterators, seq
  <2> QED BY <2>1, <1>4, AppendingIterators
<1>10. acc[0] = <<>> /\ acc[n] = out /\ \A k \in 1..n : acc[k] = AppendIterator(acc[k - 1], seq[k])
  BY <1>9 DEF Appending
<1> DEFINE Good(k) ==
       /\ IteratorsOK(acc[k], lo, hi)
       /\ acc[k] # <<>> => \A m \in k + 1..n : acc[k][Len(acc[k])].min <= seq[m].min
       /\ \A key \in Nat : (\E i \in 1..k : ContainsKey(seq[i], key)) => Reads(acc[k], key)
           S == {k \in 0..n : Good(k)}
<1>11. 0 \in S
  <2>1. IteratorsOK(acc[0], lo, hi)
    BY <1>10 DEF IteratorsOK
  <2>2. \A key \in Nat : ~(\E i \in 1..0 : ContainsKey(seq[i], key))
    OBVIOUS
  <2>3. Good(0)
    BY <1>10, <2>1, <2>2
  <2>4. 0 \in 0..n
    BY <1>6
  <2> HIDE DEF Good
  <2> QED BY <2>3, <2>4
<1>12. ASSUME NEW k \in 0..n - 1, k \in S PROVE k + 1 \in S
  <2> DEFINE it == seq[k + 1]
             its == acc[k]
             new == acc[k + 1]
  <2>1. k + 1 \in 1..n /\ k + 1 \in 0..n /\ (k + 1) - 1 = k /\ k \in Nat
    BY <1>6
  <2>2. Good(k)
    BY <1>12
  <2>3. new = AppendIterator(its, it)
    BY <1>10, <2>1
  <2>4. /\ it \in AnyRange /\ it.min \in Nat /\ lo <= it.min /\ it.min <= it.max /\ it.max <= hi
    BY <1>7, <2>1
  <2>5. its # <<>> => its[Len(its)].min <= it.min
    <3>1. k + 1 \in k + 1..n
      BY <2>1, <1>6
    <3> QED BY <2>2, <3>1
  <2>6. /\ IteratorsOK(new, lo, hi) /\ new # <<>> /\ new[Len(new)].min <= it.min
        /\ \A key \in Nat : Reads(its, key) \/ ContainsKey(it, key) => Reads(new, key)
    <3>1. IteratorsOK(its, lo, hi)
      BY <2>2
    <3> HIDE DEF its, it, new, Good
    <3> QED BY <2>3, <2>4, <2>5, <3>1, AppendIteratorOK
  <2>7. ASSUME NEW m \in (k + 1) + 1..n PROVE new[Len(new)].min <= seq[m].min
    <3>1. m \in 1..n /\ k + 1 < m
      BY <2>1, <1>6
    <3>2. it.min <= seq[m].min /\ seq[m].min \in Nat
      BY <1>7, <1>8, <2>1, <3>1
    <3>3. new[Len(new)].min \in Nat
      <4>1. new \in Seq(AnyRange)
        BY <2>6 DEF IteratorsOK
      <4>2. Len(new) \in 1..Len(new)
        BY <2>6, <4>1
      <4> HIDE DEF new
      <4> QED BY <2>6, <4>2, IteratorFields
    <3> HIDE DEF new, it
    <3> QED BY <2>4, <2>6, <3>2, <3>3
  <2>8. ASSUME NEW key \in Nat, NEW i \in 1..k + 1, ContainsKey(seq[i], key) PROVE Reads(new, key)
    <3>1. i = k + 1 \/ i \in 1..k
      BY <2>1
    <3>2. Reads(its, key) \/ ContainsKey(it, key)
      <4>1. CASE i = k + 1
        BY <4>1, <2>8
      <4>2. CASE i \in 1..k
        BY <4>2, <2>2, <2>8
      <4> QED BY <3>1, <4>1, <4>2
    <3> QED BY <2>6, <3>2
  <2>9. Good(k + 1)
    BY <2>6, <2>7, <2>8
  <2> HIDE DEF Good
  <2> QED BY <2>1, <2>9
<1>13. Good(n)
  <2> HIDE DEF Good
  <2>1. \A k \in 0..n - 1 : k \in S => k + 1 \in S
    BY <1>12
  <2> HIDE DEF S
  <2>2. \A k \in 0..n : k \in S
    BY <1>6, <1>11, <2>1, UpTo
  <2>3. n \in 0..n
    BY <1>6
  <2>4. n \in S
    BY <2>2, <2>3
  <2> QED BY <2>4 DEF S
<1>14. ASSUME NEW key \in Nat, Reads(a, key) \/ Reads(b, key) PROVE Reads(out, key)
  <2>1. \E i \in 1..Len(both) : ContainsKey(both[i], key)
    <3>1. CASE Reads(b, key)
      <4>1. \A i \in 1..Len(b) : i \in 1..Len(both)
        BY <1>1, <1>2
      <4> QED BY <3>1, <4>1, <1>2 DEF Reads
    <3>2. CASE Reads(a, key)
      <4>1. \A i \in 1..Len(a) : Len(b) + i \in 1..Len(both)
        BY <1>1, <1>2
      <4> QED BY <3>2, <4>1, <1>2 DEF Reads
    <3> QED BY <1>14, <3>1, <3>2
  <2>2. PICK k \in 1..n : ContainsKey(seq[k], key)
    <3>1. PICK i \in 1..n : ContainsKey(both[i], key)
      BY <2>1, <1>6
    <3>2. PICK k \in 1..n : p[k] = i
      BY <1>6
    <3>3. seq[k] = both[i]
      BY <1>6, <3>2
    <3> QED BY <3>1, <3>3
  <2> QED BY <2>2, <1>10, <1>13
<1> QED BY <1>10, <1>13, <1>14

\* Two slices are joined in a scope that has both.
Joins(s, t, lo, hi, P, x) ==
    /\ x \in GoodSlices /\ x.min = lo /\ x.max = hi /\ P \subseteq x.predicate
    /\ Keeps({s, t}, {x})

\* Joining two slices keeps all that they hold: their iterators and trackers are merged.
LEMMA JoinOK ==
  ASSUME NEW s \in GoodSlices, NEW t \in GoodSlices, NEW lo \in Nat, NEW hi \in Nat,
         lo = s.min \/ lo = t.min, hi = s.max \/ hi = t.max, lo <= s.min, lo <= t.min, s.max <= hi, t.max <= hi,
         NEW P \in SUBSET Universal, s.predicate \subseteq P, t.predicate \subseteq P,
         NEW x, x = Join(s, t, NewScope(lo, hi, P))
  PROVE  Joins(s, t, lo, hi, P, x)
<1> DEFINE its == MergeIterators(s.iterators, t.iterators)
           tr == MergeTracker(s, t)
<1>1. /\ s.min \in Nat /\ s.max \in Nat /\ s.min <= s.max
      /\ IteratorsOK(s.iterators, s.min, s.max) /\ TrackerOK(s)
      /\ \A u \in Tracked(s) : s.min <= u.key /\ u.key < s.max /\ u.group \in s.predicate
  BY SliceFields
<1>2. /\ t.min \in Nat /\ t.max \in Nat /\ t.min <= t.max
      /\ IteratorsOK(t.iterators, t.min, t.max) /\ TrackerOK(t)
      /\ \A u \in Tracked(t) : t.min <= u.key /\ u.key < t.max /\ u.group \in t.predicate
  BY SliceFields
<1>3. lo \in Nat /\ hi \in Nat /\ lo <= hi
  BY <1>1, <1>2
<1>4. IteratorsOK(s.iterators, lo, hi) /\ IteratorsOK(t.iterators, lo, hi)
  <2>1. ASSUME NEW y \in {s, t} PROVE IteratorsOK(y.iterators, lo, hi)
    <3>1. /\ y.min \in Nat /\ y.max \in Nat /\ IteratorsOK(y.iterators, y.min, y.max)
          /\ lo <= y.min /\ y.max <= hi
      BY <1>1, <1>2
    <3>2. \A n \in 1..Len(y.iterators) :
             /\ y.iterators[n].min \in Nat /\ y.iterators[n].max \in Nat
             /\ y.min <= y.iterators[n].min /\ y.iterators[n].max <= y.max
      BY <3>1, IteratorFields
    <3>3. \A n \in 1..Len(y.iterators) : lo <= y.iterators[n].min /\ y.iterators[n].max <= hi
      BY <1>3, <3>1, <3>2, SMTT(20)
    <3> QED BY <3>1, <3>3 DEF IteratorsOK
  <2> QED BY <2>1
<1>5. /\ IteratorsOK(its, lo, hi)
      /\ \A key \in Nat : Reads(s.iterators, key) \/ Reads(t.iterators, key) => Reads(its, key)
  BY <1>3, <1>4, MergeIteratorsOK
<1>6. /\ TrackerOK(tr)
      /\ tr.pending \subseteq s.pending \cup t.pending /\ tr.acked \subseteq s.acked \cup t.acked
      /\ \A u \in s.pending \cup t.pending : u \notin s.acked \cup t.acked => u \in tr.pending
  BY <1>1, <1>2, MergeTrackerOK
<1>7. \A u \in Tracked(tr) : lo <= u.key /\ u.key < hi /\ u.group \in P
  <2>1. \A u \in Tracked(tr) : u \in Tracked(s) \/ u \in Tracked(t)
    BY <1>6 DEF Tracked
  <2>2. \A u \in Tracked(s) : u.key \in Nat
    BY <1>1 DEF TrackerOK, Tracked, AnyTask
  <2>3. \A u \in Tracked(t) : u.key \in Nat
    BY <1>2 DEF TrackerOK, Tracked, AnyTask
  <2>4. \A u \in Tracked(s) : lo <= u.key /\ u.key < hi /\ u.group \in P
    BY <1>1, <1>3, <2>2
  <2>5. \A u \in Tracked(t) : lo <= u.key /\ u.key < hi /\ u.group \in P
    BY <1>2, <1>3, <2>3
  <2> QED BY <2>1, <2>4, <2>5
<1>8. x = SliceOf(NewScope(lo, hi, P), its, tr)
  BY DEF Join
<1> HIDE DEF its, tr
<1>9. /\ x \in GoodSlices /\ x.min = lo /\ x.max = hi /\ P \subseteq x.predicate
      /\ x.iterators = its /\ x.pending = tr.pending /\ x.acked = tr.acked
  BY <1>3, <1>5, <1>6, <1>7, <1>8, SliceOfGood, SMTT(20)
<1>10. ASSUME NEW u \in AnyTask, \A y \in {s, t} : u \notin y.acked, \E y \in {s, t} : Holds(y, u)
       PROVE  Holds(x, u)
  <2>1. u.key \in Nat
    BY DEF AnyTask
  <2>2. Holds(s, u) \/ Holds(t, u)
    BY <1>10
  <2>3. CASE u \in s.pending \cup t.pending
    BY <2>3, <1>6, <1>9, <1>10 DEF Holds
  <2>4. CASE u \notin s.pending \cup t.pending
    BY <2>1, <2>2, <2>4, <1>5, <1>9 DEF Holds
  <2> QED BY <2>3, <2>4
<1>11. Keeps({s, t}, {x})
  <2>1. (\E y \in {s, t} : y.min <= x.min) /\ (\E y \in {s, t} : x.max <= y.max)
    BY <1>3, <1>9
  <2>2. \A u \in x.pending : \E y \in {s, t} : u \in y.pending
    BY <1>6, <1>9
  <2>3. \A u \in x.acked : \E y \in {s, t} : u \in y.acked
    BY <1>6, <1>9
  <2> QED BY <1>9, <1>10, <2>1, <2>2, <2>3 DEF Keeps
<1> QED BY <1>9, <1>11 DEF Joins

-----------------------------------------------------------------------------
(* Lists of slices                                                         *)

Elements(seq) == {seq[n] : n \in 1..Len(seq)}

InOrder(seq) == \A m, n \in 1..Len(seq) : m < n => seq[m].max <= seq[n].min

Solid(seq) == \A n \in 1..Len(seq) : ~IsEmpty(seq[n])

LEMMA GoodElements ==
  ASSUME NEW seq \in Seq(GoodSlices)
  PROVE  /\ Len(seq) \in Nat /\ DOMAIN seq = 1..Len(seq)
         /\ \A n \in 1..Len(seq) : seq[n] \in GoodSlices /\ seq[n] \in Elements(seq)
         /\ \A x \in Elements(seq) : \E n \in 1..Len(seq) : x = seq[n]
         /\ Elements(seq) \in SUBSET GoodSlices
BY DEF Elements

\* An empty slice holds nothing.
LEMMA KeepsSolid ==
  ASSUME NEW X \in SUBSET GoodSlices, NEW Y \in SUBSET X, \A x \in X \ Y : IsEmpty(x)
  PROVE  Keeps(X, Y)
<1>1. ASSUME NEW x \in X, IsEmpty(x), NEW t \in AnyTask PROVE ~Holds(x, t)
  <2>1. x \in GoodSlices /\ x.min \in Nat /\ x.max \in Nat
    BY SliceFields
  <2>2. ASSUME Holds(x, t) PROVE FALSE
    <3>1. x.min <= t.key /\ t.key < x.max /\ t.group \in x.predicate
      BY <2>1, <2>2, HoldsInScope
    <3>2. t.key \in Nat
      BY DEF AnyTask
    <3> QED BY <1>1, <2>1, <3>1, <3>2 DEF IsEmpty
  <2> QED BY <2>2
<1>2. \A x \in X : x.min <= x.min /\ x.max <= x.max
  BY SliceFields
<1> QED BY <1>1, <1>2 DEF Keeps

\* Slices that are empty hold nothing and may be left out of a list.
LEMMA NonEmptyOK ==
  ASSUME NEW seq \in Seq(GoodSlices), NEW out, out = NonEmpty(seq)
  PROVE  /\ out \in Seq(GoodSlices) /\ Solid(out)
         /\ InOrder(seq) => InOrder(out)
         /\ Elements(out) \subseteq Elements(seq)
         /\ Keeps(Elements(seq), Elements(out))
         /\ \A n \in 1..Len(seq) : ~IsEmpty(seq[n]) => seq[n] \in Elements(out)
         /\ Len(seq) > 0 /\ ~IsEmpty(seq[Len(seq)]) => out # <<>> /\ out[Len(out)] = seq[Len(seq)]
<1> DEFINE I == {n \in DOMAIN seq : ~IsEmpty(seq[n])}
<1>1. Len(seq) \in Nat /\ DOMAIN seq = 1..Len(seq)
  OBVIOUS
<1>2. I \in SUBSET (1..Len(seq)) /\ \A n \in 1..Len(seq) : n \in I <=> ~IsEmpty(seq[n])
  BY <1>1
<1>3. out = Selected(seq, I)
  BY DEF NonEmpty
<1> HIDE DEF I
<1>4. out \in Seq(GoodSlices) /\ \E p : Picks(out, seq, I, p)
  <2> DEFINE T == GoodSlices
  <2>1. seq \in Seq(T)
    OBVIOUS
  <2> HIDE DEF T
  <2>2. out \in Seq(T) /\ \E p : Picks(out, seq, I, p)
    BY <1>2, <1>3, <2>1, SelectedPicks
  <2> QED BY <2>2 DEF T
<1>5. PICK p : Picks(out, seq, I, p)
  BY <1>4
<1>6. /\ Len(out) \in Nat
      /\ \A k \in 1..Len(out) : p[k] \in I /\ p[k] \in 1..Len(seq) /\ out[k] = seq[p[k]]
      /\ \A k, l \in 1..Len(out) : k < l => p[k] < p[l]
      /\ \A n \in I : \E k \in 1..Len(out) : p[k] = n
  <2>1. Len(out) \in Nat
    BY <1>4
  <2>2. /\ \A k \in 1..Len(out) : p[k] \in I /\ out[k] = seq[p[k]]
        /\ \A k, l \in 1..Len(out) : k < l => p[k] < p[l]
        /\ \A n \in I : \E k \in 1..Len(out) : p[k] = n
    BY <1>5 DEF Picks
  <2> QED BY <1>2, <2>1, <2>2
<1>7. Solid(out)
  BY <1>2, <1>6 DEF Solid
<1>8. ASSUME InOrder(seq) PROVE InOrder(out)
  <2>1. ASSUME NEW k \in 1..Len(out), NEW l \in 1..Len(out), k < l PROVE out[k].max <= out[l].min
    <3>1. p[k] \in 1..Len(seq) /\ p[l] \in 1..Len(seq) /\ p[k] < p[l]
      BY <1>6, <2>1
    <3>2. seq[p[k]].max <= seq[p[l]].min
      BY <1>8, <3>1 DEF InOrder
    <3> QED BY <1>6, <3>2
  <2> QED BY <2>1 DEF InOrder
<1>9. Elements(out) \subseteq Elements(seq)
  BY <1>6 DEF Elements
<1>10. \A n \in 1..Len(seq) : ~IsEmpty(seq[n]) => seq[n] \in Elements(out)
  <2> SUFFICES ASSUME NEW n \in 1..Len(seq), ~IsEmpty(seq[n]) PROVE seq[n] \in Elements(out)
    OBVIOUS
  <2>1. PICK k \in 1..Len(out) : out[k] = seq[n]
    BY <1>2, <1>6
  <2> QED BY <2>1 DEF Elements
<1>11. Keeps(Elements(seq), Elements(out))
  <2>1. \A x \in Elements(seq) \ Elements(out) : IsEmpty(x)
    BY <1>10 DEF Elements
  <2> QED BY <1>9, <2>1, GoodElements, KeepsSolid
<1>12. ASSUME Len(seq) > 0, ~IsEmpty(seq[Len(seq)]) PROVE out # <<>> /\ out[Len(out)] = seq[Len(seq)]
  <2>1. Len(seq) \in 1..Len(seq) /\ Len(seq) \in I
    BY <1>1, <1>2, <1>12
  <2>2. PICK k \in 1..Len(out) : p[k] = Len(seq)
    BY <1>6, <2>1
  <2>3. Len(out) \in 1..Len(out)
    BY <1>6
  <2>4. ~(k < Len(out))
    <3>1. p[Len(out)] \in 1..Len(seq)
      BY <1>6, <2>3
    <3>2. ~(p[k] < p[Len(out)])
      BY <1>1, <2>2, <3>1
    <3> QED BY <1>6, <2>3, <3>2
  <2>5. k = Len(out)
    BY <1>6, <2>4
  <2>6. out[Len(out)] = seq[Len(seq)]
    BY <1>6, <2>2, <2>5
  <2>7. out # <<>>
    BY <1>4, <2>3
  <2> QED BY <2>6, <2>7
<1> QED BY <1>4, <1>7, <1>8, <1>9, <1>10, <1>11, <1>12

\* Three slices that follow one another, without the empty ones.
LEMMA TripleOK ==
  ASSUME NEW a \in GoodSlices, NEW b \in GoodSlices, NEW c \in GoodSlices, a.max = b.min, b.max = c.min,
         ~IsEmpty(b) \/ ~IsEmpty(c), c.min = c.max \/ ~IsEmpty(c),
         NEW out, out = NonEmpty(<<a, b, c>>)
  PROVE  /\ out \in Seq(GoodSlices) /\ Solid(out) /\ InOrder(out) /\ out # <<>>
         /\ \A n \in 1..Len(out) : a.min <= out[n].min
         /\ out[Len(out)].max = c.max /\ out[Len(out)].min <= c.min
         /\ Keeps({a, b, c}, Elements(out))
<1> DEFINE seq == <<a, b, c>>
<1>1. /\ a.min \in Nat /\ a.max \in Nat /\ a.min <= a.max
      /\ b.min \in Nat /\ b.max \in Nat /\ b.min <= b.max
      /\ c.min \in Nat /\ c.max \in Nat /\ c.min <= c.max
  BY SliceFields
<1>2. /\ seq \in Seq(GoodSlices) /\ Len(seq) = 3
      /\ seq[1] = a /\ seq[2] = b /\ seq[3] = c
  OBVIOUS
<1>3. 1..3 = {1, 2, 3}
  OBVIOUS
<1> HIDE DEF seq
<1>4. Elements(seq) = {a, b, c}
  BY <1>2, <1>3 DEF Elements
<1>5. InOrder(seq)
  <2>1. ASSUME NEW m \in 1..3, NEW n \in 1..3, m < n PROVE seq[m].max <= seq[n].min
    <3>1. (m = 1 /\ n = 2) \/ (m = 1 /\ n = 3) \/ (m = 2 /\ n = 3)
      <4>1. (m = 1 \/ m = 2 \/ m = 3) /\ (n = 1 \/ n = 2 \/ n = 3)
        BY <1>3
      <4> QED BY <2>1, <4>1
    <3> QED BY <1>1, <1>2, <3>1
  <2> QED BY <1>2, <2>1 DEF InOrder
<1>6. out = NonEmpty(seq)
  BY DEF seq
<1>7. /\ out \in Seq(GoodSlices) /\ Solid(out) /\ InOrder(out)
      /\ Elements(out) \subseteq {a, b, c} /\ Keeps({a, b, c}, Elements(out))
      /\ ~IsEmpty(b) => b \in Elements(out)
      /\ ~IsEmpty(c) => out # <<>> /\ out[Len(out)] = c
  <2>1. 3 > 0 /\ 2 \in 1..3
    OBVIOUS
  <2>2. /\ out \in Seq(GoodSlices) /\ Solid(out) /\ InOrder(out)
        /\ Elements(out) \subseteq Elements(seq)
        /\ Keeps(Elements(seq), Elements(out))
        /\ \A n \in 1..Len(seq) : ~IsEmpty(seq[n]) => seq[n] \in Elements(out)
        /\ Len(seq) > 0 /\ ~IsEmpty(seq[Len(seq)]) => out # <<>> /\ out[Len(out)] = seq[Len(seq)]
    BY <1>2, <1>5, <1>6, NonEmptyOK
  <2> QED BY <1>2, <1>4, <2>1, <2>2
<1>8. \A n \in 1..Len(out) : out[n] \in {a, b, c} /\ a.min <= out[n].min
  <2>1. \A n \in 1..Len(out) : out[n] \in {a, b, c}
    BY <1>7 DEF Elements
  <2>2. a.min <= a.min /\ a.min <= b.min /\ a.min <= c.min
    BY <1>1
  <2> QED BY <2>1, <2>2
<1>9. CASE ~IsEmpty(c)
  <2>1. c.min <= c.min
    BY <1>1
  <2> QED BY <1>7, <1>8, <1>9, <2>1
<1>10. CASE IsEmpty(c)
  <2>1. c.min = c.max /\ ~IsEmpty(b)
    BY <1>10
  <2>2. PICK k \in 1..Len(out) : out[k] = b
    BY <1>7, <2>1 DEF Elements
  <2> DEFINE l == Len(out)
  <2>3. l \in Nat /\ l \in 1..l /\ out # <<>>
    BY <1>7, <2>2
  <2>4. out[l] \in {a, b, c} /\ ~IsEmpty(out[l])
    BY <1>7, <1>8, <2>3 DEF Solid
  <2>5. out[l] # c
    BY <1>10, <2>4
  <2>6. out[l] = b
    <3>1. CASE k = l
      BY <2>2, <3>1
    <3>2. CASE k # l
      <4>1. k < l
        BY <2>3, <3>2
      <4>2. b.max <= out[l].min
        BY <1>7, <2>2, <2>3, <4>1 DEF InOrder
      <4>3. CASE out[l] = a
        <5>1. b.max <= a.min /\ a.min = a.max
          BY <1>1, <4>2, <4>3
        <5> QED BY <2>4, <4>3, <5>1 DEF IsEmpty
      <4> QED BY <2>4, <2>5, <4>3
    <3> QED BY <3>1, <3>2
  <2>7. out[l].max = c.max /\ out[l].min <= c.min
    BY <1>1, <2>1, <2>6
  <2> QED BY <1>7, <1>8, <2>3, <2>7
<1> QED BY <1>9, <1>10

\* Two slices that overlap or touch, and are not empty, become up to three in the same range.
LEMMA MergeInOrderOK ==
  ASSUME NEW s \in GoodSlices, NEW t \in GoodSlices, ~IsEmpty(s), ~IsEmpty(t),
         s.min <= t.min, t.min <= s.max, NEW out, out = MergeInOrder(s, t)
  PROVE  /\ out \in Seq(GoodSlices) /\ Solid(out) /\ InOrder(out) /\ out # <<>>
         /\ \A n \in 1..Len(out) : s.min <= out[n].min
         /\ out[Len(out)].max = MaxOf(s.max, t.max)
         /\ out[Len(out)].min <= MaxOf(t.min, MinOf(s.max, t.max))
         /\ Keeps({s, t}, Elements(out))
<1> DEFINE x == SplitByRange(s, t.min)
<1>1. /\ s.min \in Nat /\ s.max \in Nat /\ s.min <= s.max /\ s.predicate \in SUBSET Universal
      /\ t.min \in Nat /\ t.max \in Nat /\ t.min <= t.max /\ t.predicate \in SUBSET Universal
  BY SliceFields
<1>2. s.min # s.max /\ t.min # t.max /\ s.predicate # {} /\ t.predicate # {}
  BY DEF IsEmpty
<1>3. /\ x[1] \in GoodSlices /\ x[2] \in GoodSlices
      /\ x[1].min = s.min /\ x[1].max = t.min /\ x[2].min = t.min /\ x[2].max = s.max
      /\ s.predicate \subseteq x[1].predicate /\ s.predicate \subseteq x[2].predicate
      /\ Keeps({s}, {x[1], x[2]})
  <2>1. t.min \in Nat /\ s.min <= t.min /\ t.min <= s.max
    BY <1>1
  <2> HIDE DEF x
  <2>2. SplitsAt(s, t.min, x)
    BY <2>1, SplitByRangeOK DEF x
  <2> QED BY <2>2 DEF SplitsAt
<1>4. x[2].predicate \in SUBSET Universal
  BY <1>3, SliceFields
<1>5. Keeps({t}, {t})
  BY KeepsSame
<1>6. CASE s.predicate = t.predicate
  <2> DEFINE lo == MinOf(s.min, t.min)
             hi == MaxOf(s.max, t.max)
             j == Join(s, t, NewScope(lo, hi, s.predicate))
  <2>1. out = <<j>>
    BY <1>6 DEF MergeInOrder, MergeByRange
  <2>2. /\ lo \in Nat /\ hi \in Nat /\ lo = s.min /\ (hi = s.max \/ hi = t.max)
        /\ lo <= s.min /\ lo <= t.min /\ s.max <= hi /\ t.max <= hi
    BY <1>1 DEF MinOf, MaxOf
  <2>3. /\ j \in GoodSlices /\ j.min = lo /\ j.max = hi /\ s.predicate \subseteq j.predicate
        /\ Keeps({s, t}, {j})
    <3> DEFINE P == s.predicate
    <3>1. P \in SUBSET Universal /\ s.predicate \subseteq P /\ t.predicate \subseteq P
      BY <1>1, <1>6
    <3>2. j = Join(s, t, NewScope(lo, hi, P))
      OBVIOUS
    <3> HIDE DEF lo, hi, P, j
    <3>3. Joins(s, t, lo, hi, P, j)
      BY <2>2, <3>1, <3>2, JoinOK
    <3> QED BY <3>3 DEF P, Joins
  <2>4. ~IsEmpty(j)
    <3>1. lo # hi
      BY <1>1, <1>2, <2>2
    <3> HIDE DEF j
    <3> QED BY <1>2, <2>3, <3>1 DEF IsEmpty
  <2>5. j.min <= MaxOf(t.min, MinOf(s.max, t.max)) /\ s.min <= j.min
    BY <1>1, <2>2, <2>3 DEF MaxOf, MinOf
  <2> HIDE DEF j, lo
  <2>6. out \in Seq(GoodSlices) /\ Len(out) = 1 /\ out[1] = j /\ out # <<>>
    BY <2>1, <2>3
  <2>7. 1..1 = {1}
    OBVIOUS
  <2>8. Elements(out) = {j}
    BY <2>6, <2>7 DEF Elements
  <2> QED BY <2>3, <2>4, <2>5, <2>6, <2>7, <2>8 DEF Solid, InOrder
<1>7. CASE s.predicate # t.predicate /\ CanSplit(t, x[2].max)
  <2> DEFINE y == SplitByRange(t, x[2].max)
             m == Join(x[2], y[1], NewScope(x[2].min, x[2].max, x[2].predicate \cup y[1].predicate))
  <2>1. out = NonEmpty(<<x[1], m, y[2]>>)
    BY <1>7 DEF MergeInOrder, MergeByPredicate
  <2>2. s.max <= t.max
    BY <1>1, <1>3, <1>7 DEF CanSplit, ContainsKey
  <2>3. /\ y[1] \in GoodSlices /\ y[2] \in GoodSlices
        /\ y[1].min = t.min /\ y[1].max = s.max /\ y[2].min = s.max /\ y[2].max = t.max
        /\ t.predicate \subseteq y[1].predicate /\ t.predicate \subseteq y[2].predicate
        /\ Keeps({t}, {y[1], y[2]})
    <3> DEFINE key == x[2].max
    <3>1. key = s.max /\ key \in Nat /\ t.min <= key /\ key <= t.max /\ y = SplitByRange(t, key)
      BY <1>1, <1>3, <2>2
    <3> HIDE DEF x, y, key
    <3>2. SplitsAt(t, key, y)
      BY <3>1, SplitByRangeOK
    <3> QED BY <3>1, <3>2 DEF SplitsAt
  <2> HIDE DEF x, y
  <2>4. y[1].predicate \in SUBSET Universal
    BY <2>3, SliceFields
  <2>5. /\ m \in GoodSlices /\ m.min = t.min /\ m.max = s.max
        /\ x[2].predicate \cup y[1].predicate \subseteq m.predicate
        /\ Keeps({x[2], y[1]}, {m})
    <3> DEFINE P == x[2].predicate \cup y[1].predicate
    <3>1. P \in SUBSET Universal /\ x[2].predicate \subseteq P /\ y[1].predicate \subseteq P
      BY <1>4, <2>4
    <3> DEFINE a == x[2]
               b == y[1]
               lo == a.min
               hi == a.max
    <3>2. /\ lo \in Nat /\ hi \in Nat /\ lo <= a.min /\ lo <= b.min /\ a.max <= hi /\ b.max <= hi
          /\ lo = a.min /\ hi = a.max
      BY <1>1, <1>3, <2>3
    <3>3. m = Join(a, b, NewScope(lo, hi, P))
      OBVIOUS
    <3>4. a \in GoodSlices /\ b \in GoodSlices /\ a.predicate \subseteq P /\ b.predicate \subseteq P
      BY <1>3, <2>3, <3>1
    <3>5. lo = t.min /\ hi = s.max
      BY <1>3
    <3> HIDE DEF P, m, a, b, lo, hi
    <3>6. Joins(a, b, lo, hi, P, m)
      BY <3>1, <3>2, <3>3, <3>4, JoinOK
    <3> QED BY <3>5, <3>6 DEF P, a, b, Joins
  <2> HIDE DEF m
  <2>6. Keeps({s, t}, {x[1], m, y[2]})
    <3>1. Keeps({s} \cup {t}, {x[1], x[2]} \cup {y[1], y[2]})
      BY <1>3, <2>3, KeepsBoth
    <3>2. Keeps({x[1], y[2]}, {x[1], y[2]})
      BY <1>3, <2>3, KeepsSame
    <3>3. Keeps({x[2], y[1]} \cup {x[1], y[2]}, {m} \cup {x[1], y[2]})
      BY <2>5, <3>2, KeepsBoth
    <3>4. /\ {s} \cup {t} = {s, t} /\ {x[1], x[2]} \cup {y[1], y[2]} = {x[2], y[1]} \cup {x[1], y[2]}
          /\ {m} \cup {x[1], y[2]} = {x[1], m, y[2]} /\ {s, t} \in SUBSET GoodSlices
      OBVIOUS
    <3> QED BY <3>1, <3>3, <3>4, KeepsThen
  <2>7. ~IsEmpty(m) \/ ~IsEmpty(y[2])
    BY <1>1, <1>2, <1>3, <2>3, <2>5 DEF IsEmpty
  <2>8. y[2].min = y[2].max \/ ~IsEmpty(y[2])
    BY <1>2, <2>3 DEF IsEmpty
  <2>9. /\ out \in Seq(GoodSlices) /\ Solid(out) /\ InOrder(out) /\ out # <<>>
        /\ \A n \in 1..Len(out) : s.min <= out[n].min
        /\ out[Len(out)].max = t.max /\ out[Len(out)].min <= s.max
        /\ Keeps({x[1], m, y[2]}, Elements(out))
    <3>1. x[1].max = m.min /\ m.max = y[2].min
      BY <1>3, <2>3, <2>5
    <3>2. /\ out \in Seq(GoodSlices) /\ Solid(out) /\ InOrder(out) /\ out # <<>>
          /\ \A n \in 1..Len(out) : x[1].min <= out[n].min
          /\ out[Len(out)].max = y[2].max /\ out[Len(out)].min <= y[2].min
          /\ Keeps({x[1], m, y[2]}, Elements(out))
      BY <1>3, <2>1, <2>3, <2>5, <2>7, <2>8, <3>1, TripleOK
    <3> QED BY <3>2, <1>3, <2>3
  <2>10. MaxOf(s.max, t.max) = t.max /\ MaxOf(t.min, MinOf(s.max, t.max)) = s.max
    BY <1>1, <2>2 DEF MaxOf, MinOf
  <2>11. Keeps({s, t}, Elements(out))
    BY <2>6, <2>9, KeepsThen
  <2> QED BY <2>9, <2>10, <2>11
<1>8. CASE s.predicate # t.predicate /\ ~CanSplit(t, x[2].max)
  <2> DEFINE y == SplitByRange(x[2], t.max)
             m == Join(y[1], t, NewScope(y[1].min, y[1].max, y[1].predicate \cup t.predicate))
  <2>1. out = NonEmpty(<<x[1], m, y[2]>>)
    BY <1>8 DEF MergeInOrder, MergeByPredicate
  <2>2. t.max < s.max
    BY <1>1, <1>3, <1>8 DEF CanSplit, ContainsKey
  <2>3. /\ y[1] \in GoodSlices /\ y[2] \in GoodSlices
        /\ y[1].min = t.min /\ y[1].max = t.max /\ y[2].min = t.max /\ y[2].max = s.max
        /\ x[2].predicate \subseteq y[1].predicate /\ x[2].predicate \subseteq y[2].predicate
        /\ Keeps({x[2]}, {y[1], y[2]})
    <3> DEFINE a == x[2]
               key == t.max
    <3>1. /\ a \in GoodSlices /\ key \in Nat /\ a.min <= key /\ key <= a.max /\ y = SplitByRange(a, key)
          /\ a.min = t.min /\ a.max = s.max
      BY <1>1, <1>3, <2>2
    <3> HIDE DEF x, y, key, a
    <3>2. SplitsAt(a, key, y)
      BY <3>1, SplitByRangeOK
    <3>3. SplitsAt(x[2], t.max, y)
      BY <3>2 DEF a, key
    <3> QED BY <3>1, <3>3 DEF SplitsAt, a
  <2> HIDE DEF x, y
  <2>4. y[1].predicate \in SUBSET Universal
    BY <2>3, SliceFields
  <2>5. /\ m \in GoodSlices /\ m.min = t.min /\ m.max = t.max
        /\ y[1].predicate \cup t.predicate \subseteq m.predicate
        /\ Keeps({y[1], t}, {m})
    <3> DEFINE P == y[1].predicate \cup t.predicate
    <3>1. P \in SUBSET Universal /\ y[1].predicate \subseteq P /\ t.predicate \subseteq P
      BY <1>1, <2>4
    <3> DEFINE a == y[1]
               lo == a.min
               hi == a.max
    <3>2. /\ lo \in Nat /\ hi \in Nat /\ lo <= a.min /\ lo <= t.min /\ a.max <= hi /\ t.max <= hi
          /\ lo = a.min /\ hi = a.max
      BY <1>1, <1>3, <2>3
    <3>3. m = Join(a, t, NewScope(lo, hi, P))
      OBVIOUS
    <3>4. a \in GoodSlices /\ a.predicate \subseteq P /\ t.predicate \subseteq P
      BY <2>3, <3>1
    <3>5. lo = t.min /\ hi = t.max
      BY <2>3
    <3> HIDE DEF P, m, a, lo, hi
    <3>6. Joins(a, t, lo, hi, P, m)
      BY <3>1, <3>2, <3>3, <3>4, JoinOK
    <3> QED BY <3>5, <3>6 DEF P, a, Joins
  <2> HIDE DEF m
  <2>6. Keeps({s, t}, {x[1], m, y[2]})
    <3>1. Keeps({s} \cup {t}, {x[1], x[2]} \cup {t})
      BY <1>3, <1>5, KeepsBoth
    <3>2. Keeps({x[1], t}, {x[1], t})
      BY <1>3, KeepsSame
    <3>3. Keeps({x[2]} \cup {x[1], t}, {y[1], y[2]} \cup {x[1], t})
      BY <2>3, <3>2, KeepsBoth
    <3>4. Keeps({x[1], y[2]}, {x[1], y[2]})
      BY <1>3, <2>3, KeepsSame
    <3>5. Keeps({y[1], t} \cup {x[1], y[2]}, {m} \cup {x[1], y[2]})
      BY <2>5, <3>4, KeepsBoth
    <3>6. /\ {s} \cup {t} = {s, t} /\ {x[1], x[2]} \cup {t} = {x[2]} \cup {x[1], t}
          /\ {y[1], y[2]} \cup {x[1], t} = {y[1], t} \cup {x[1], y[2]}
          /\ {m} \cup {x[1], y[2]} = {x[1], m, y[2]} /\ {s, t} \in SUBSET GoodSlices
      OBVIOUS
    <3>7. Keeps({s, t}, {y[1], t} \cup {x[1], y[2]})
      BY <3>1, <3>3, <3>6, KeepsThen
    <3> QED BY <3>5, <3>6, <3>7, KeepsThen
  <2>7. y[2].min = y[2].max \/ ~IsEmpty(y[2])
    BY <1>2, <1>3, <2>3 DEF IsEmpty
  <2>8. ~IsEmpty(m) \/ ~IsEmpty(y[2])
    BY <1>1, <2>2, <2>3, <2>7
  <2>9. /\ out \in Seq(GoodSlices) /\ Solid(out) /\ InOrder(out) /\ out # <<>>
        /\ \A n \in 1..Len(out) : s.min <= out[n].min
        /\ out[Len(out)].max = s.max /\ out[Len(out)].min <= t.max
        /\ Keeps({x[1], m, y[2]}, Elements(out))
    <3>1. x[1].max = m.min /\ m.max = y[2].min
      BY <1>3, <2>3, <2>5
    <3>2. /\ out \in Seq(GoodSlices) /\ Solid(out) /\ InOrder(out) /\ out # <<>>
          /\ \A n \in 1..Len(out) : x[1].min <= out[n].min
          /\ out[Len(out)].max = y[2].max /\ out[Len(out)].min <= y[2].min
          /\ Keeps({x[1], m, y[2]}, Elements(out))
      BY <1>3, <2>1, <2>3, <2>5, <2>7, <2>8, <3>1, TripleOK
    <3> QED BY <3>2, <1>3, <2>3
  <2>10. MaxOf(s.max, t.max) = s.max /\ MaxOf(t.min, MinOf(s.max, t.max)) = t.max
    BY <1>1, <2>2 DEF MaxOf, MinOf
  <2>11. Keeps({s, t}, Elements(out))
    BY <2>6, <2>9, KeepsThen
  <2> QED BY <2>9, <2>10, <2>11
<1> QED BY <1>6, <1>7, <1>8

SolidLists == {q \in Seq(GoodSlices) : Solid(q)}

LEMMA FrontLast ==
  ASSUME NEW T, NEW q \in Seq(T), q # <<>>
  PROVE  /\ Len(q) \in 1..Len(q) /\ Len(q) - 1 \in Nat
         /\ Last(q) = q[Len(q)] /\ Last(q) \in T
         /\ Front(q) \in Seq(T) /\ Len(Front(q)) = Len(q) - 1
         /\ \A n \in 1..Len(q) - 1 : Front(q)[n] = q[n]
BY DEF Front, Last

LEMMA Concatenation ==
  ASSUME NEW T, NEW a \in Seq(T), NEW b \in Seq(T), NEW c, c = a \o b
  PROVE  /\ c \in Seq(T) /\ Len(c) = Len(a) + Len(b) /\ Len(a) \in Nat /\ Len(b) \in Nat
         /\ \A n \in 1..Len(a) : n \in 1..Len(c) /\ c[n] = a[n]
         /\ \A n \in 1..Len(b) : Len(a) + n \in 1..Len(c) /\ c[Len(a) + n] = b[n]
         /\ \A n \in 1..Len(c) : \/ n \in 1..Len(a) /\ c[n] = a[n]
                                 \/ n > Len(a) /\ n - Len(a) \in 1..Len(b) /\ c[n] = b[n - Len(a)]
<1>1. /\ c \in Seq(T) /\ Len(c) = Len(a) + Len(b) /\ Len(a) \in Nat /\ Len(b) \in Nat
  OBVIOUS
<1>2. \A n \in 1..Len(a) : n \in 1..Len(c) /\ c[n] = a[n]
  BY <1>1
<1>3. \A n \in 1..Len(b) : Len(a) + n \in 1..Len(c) /\ c[Len(a) + n] = b[n]
  BY <1>1
<1>4. ASSUME NEW n \in 1..Len(c)
      PROVE  \/ n \in 1..Len(a) /\ c[n] = a[n]
             \/ n > Len(a) /\ n - Len(a) \in 1..Len(b) /\ c[n] = b[n - Len(a)]
  <2>1. n \in 1..Len(a) \/ (n > Len(a) /\ n - Len(a) \in 1..Len(b) /\ Len(a) + (n - Len(a)) = n)
    BY <1>1
  <2> QED BY <2>1, <1>2, <1>3
<1> QED BY <1>1, <1>2, <1>3, <1>4

LEMMA ConcatLists ==
  ASSUME NEW a \in Seq(GoodSlices), NEW b \in Seq(GoodSlices), NEW c, c = a \o b
  PROVE  /\ c \in Seq(GoodSlices)
         /\ Elements(c) = Elements(a) \cup Elements(b)
         /\ Solid(a) /\ Solid(b) => Solid(c)
         /\ InOrder(a) /\ InOrder(b) /\ (\A m \in 1..Len(a), n \in 1..Len(b) : a[m].max <= b[n].min)
               => InOrder(c)
<1> DEFINE T == GoodSlices
<1>1. a \in Seq(T) /\ b \in Seq(T)
  OBVIOUS
<1> HIDE DEF T
<1>2. /\ c \in Seq(T) /\ Len(c) = Len(a) + Len(b) /\ Len(a) \in Nat /\ Len(b) \in Nat
      /\ \A n \in 1..Len(a) : n \in 1..Len(c) /\ c[n] = a[n]
      /\ \A n \in 1..Len(b) : Len(a) + n \in 1..Len(c) /\ c[Len(a) + n] = b[n]
      /\ \A n \in 1..Len(c) : \/ n \in 1..Len(a) /\ c[n] = a[n]
                              \/ n > Len(a) /\ n - Len(a) \in 1..Len(b) /\ c[n] = b[n - Len(a)]
  BY <1>1, Concatenation
<1>3. Elements(c) = Elements(a) \cup Elements(b)
  <2>1. \A x \in Elements(c) : x \in Elements(a) \/ x \in Elements(b)
    BY <1>2 DEF Elements
  <2>2. \A x \in Elements(a) : x \in Elements(c)
    BY <1>2 DEF Elements
  <2>3. \A x \in Elements(b) : x \in Elements(c)
    BY <1>2 DEF Elements
  <2> QED BY <2>1, <2>2, <2>3
<1>4. Solid(a) /\ Solid(b) => Solid(c)
  BY <1>2 DEF Solid
<1>5. ASSUME InOrder(a), InOrder(b), \A m \in 1..Len(a), n \in 1..Len(b) : a[m].max <= b[n].min
      PROVE  InOrder(c)
  <2>1. ASSUME NEW m \in 1..Len(c), NEW n \in 1..Len(c), m < n PROVE c[m].max <= c[n].min
    <3>1. CASE n \in 1..Len(a) /\ c[n] = a[n]
      <4>1. m \in 1..Len(a)
        BY <2>1, <3>1, <1>2
      <4>2. c[m] = a[m]
        BY <4>1, <1>2
      <4> QED BY <2>1, <3>1, <4>1, <4>2, <1>5 DEF InOrder
    <3>2. CASE n > Len(a) /\ n - Len(a) \in 1..Len(b) /\ c[n] = b[n - Len(a)]
      <4>1. CASE m \in 1..Len(a) /\ c[m] = a[m]
        BY <3>2, <4>1, <1>5
      <4>2. CASE m > Len(a) /\ m - Len(a) \in 1..Len(b) /\ c[m] = b[m - Len(a)]
        <5>1. m - Len(a) < n - Len(a)
          BY <2>1, <1>2
        <5> QED BY <3>2, <4>2, <5>1, <1>5 DEF InOrder
      <4> QED BY <4>1, <4>2, <1>2
    <3> QED BY <3>1, <3>2, <1>2
  <2> QED BY <2>1 DEF InOrder
<1> QED BY <1>2, <1>3, <1>4, <1>5 DEF T

\* What merging one more slice s into the list q leaves behind.
Absorbs(q, s, out) ==
    /\ out \in SolidLists
    /\ Keeps(Elements(q) \cup {s}, Elements(out))
    /\ \/ out = q
       \/ out # <<>> /\ out[Len(out)] = s
       \/ /\ q # <<>> /\ out # <<>>
          /\ out[Len(out)].max = q[Len(q)].max \/ out[Len(out)].max = s.max
          /\ q[Len(q)].min <= s.min =>
                out[Len(out)].min <= MaxOf(s.min, MinOf(q[Len(q)].max, s.max))
    /\ InOrder(q) /\ (q # <<>> => q[Len(q)].min <= s.min) => InOrder(out)

\* A slice is appended to a list, or merged into its last element.
LEMMA MergeOrAppendOK ==
  ASSUME NEW q \in SolidLists, NEW s \in GoodSlices, NEW out, out = MergeOrAppendSlice(q, s)
  PROVE  Absorbs(q, s, out)
<1>0. /\ q \in Seq(GoodSlices) /\ Solid(q) /\ Len(q) \in Nat
      /\ \A n \in 1..Len(q) : q[n] \in GoodSlices
  BY DEF SolidLists
<1>1. Elements(q) \cup {s} \in SUBSET GoodSlices /\ Elements(q) \in SUBSET GoodSlices
  BY <1>0, GoodElements
<1>2. CASE IsEmpty(s)
  <2>1. out = q
    BY <1>2 DEF MergeOrAppendSlice
  <2>2. Keeps(Elements(q) \cup {s}, Elements(q))
    BY <1>1, <1>2, KeepsSolid
  <2> QED BY <2>1, <2>2 DEF Absorbs
<1>3. CASE ~IsEmpty(s) /\ (q = <<>> \/ ~CanMerge(Last(q), s))
  <2> DEFINE one == <<s>>
  <2>1. out = q \o one
    BY <1>0, <1>3 DEF MergeOrAppendSlice
  <2>2. one \in Seq(GoodSlices) /\ Len(one) = 1 /\ one[1] = s /\ 1..1 = {1}
    OBVIOUS
  <2> HIDE DEF one
  <2>3. Elements(one) = {s} /\ Solid(one) /\ InOrder(one)
    BY <2>2, <1>3 DEF Elements, Solid, InOrder
  <2>4. /\ out \in Seq(GoodSlices) /\ Elements(out) = Elements(q) \cup {s} /\ Solid(out)
        /\ InOrder(q) /\ (\A m \in 1..Len(q), n \in 1..Len(one) : q[m].max <= one[n].min) => InOrder(out)
    <3>1. /\ out \in Seq(GoodSlices)
          /\ Elements(out) = Elements(q) \cup Elements(one)
          /\ Solid(q) /\ Solid(one) => Solid(out)
          /\ InOrder(q) /\ InOrder(one) /\ (\A m \in 1..Len(q), n \in 1..Len(one) : q[m].max <= one[n].min)
               => InOrder(out)
      BY <1>0, <2>1, <2>2, ConcatLists
    <3> QED BY <1>0, <2>3, <3>1
  <2>5. out # <<>> /\ out[Len(out)] = s
    <3> DEFINE T == GoodSlices
    <3>1. q \in Seq(T) /\ one \in Seq(T)
      BY <1>0, <2>2
    <3> HIDE DEF T
    <3>2. Len(out) = Len(q) + Len(one) /\ \A n \in 1..Len(one) : out[Len(q) + n] = one[n]
      BY <2>1, <3>1, Concatenation
    <3>3. Len(out) = Len(q) + 1 /\ out[Len(q) + 1] = s
      BY <2>2, <3>2
    <3> QED BY <1>0, <2>4, <3>3
  <2>6. Keeps(Elements(q) \cup {s}, Elements(out))
    BY <1>1, <2>4, KeepsSame
  <2>7. ASSUME InOrder(q), q # <<>> => q[Len(q)].min <= s.min PROVE InOrder(out)
    <3>1. ASSUME NEW m \in 1..Len(q) PROVE q[m].max <= s.min
      <4>1. q # <<>> /\ Len(q) \in 1..Len(q)
        BY <1>0
      <4>2. /\ q[m].max \in Nat /\ q[Len(q)].min \in Nat /\ q[Len(q)].max \in Nat
            /\ q[Len(q)].min <= q[Len(q)].max /\ s.min \in Nat /\ s.max \in Nat /\ s.min <= s.max
        BY <1>0, <4>1, SliceFields
      <4>3. q[Len(q)].max < s.min
        <5>1. ~(q[Len(q)].min <= s.max /\ s.min <= q[Len(q)].max)
          BY <1>3, <4>1 DEF CanMerge, Last
        <5>2. q[Len(q)].min <= s.max
          BY <2>7, <4>1, <4>2
        <5> QED BY <4>2, <5>1, <5>2
      <4>4. m = Len(q) \/ m < Len(q)
        BY <1>0
      <4>5. m < Len(q) => q[m].max <= q[Len(q)].min
        BY <2>7, <4>1 DEF InOrder
      <4> QED BY <4>2, <4>3, <4>4, <4>5
    <3> QED BY <2>2, <2>4, <2>7, <3>1
  <2> QED BY <2>4, <2>5, <2>6, <2>7 DEF Absorbs, SolidLists
<1>4. CASE ~IsEmpty(s) /\ q # <<>> /\ CanMerge(Last(q), s)
  <2> DEFINE l == q[Len(q)]
             f == Front(q)
             m == MergeWithSlice(l, s)
  <2>1. /\ Len(q) \in 1..Len(q) /\ Len(q) - 1 \in Nat /\ Last(q) = l
        /\ f \in Seq(GoodSlices) /\ Len(f) = Len(q) - 1 /\ \A n \in 1..Len(q) - 1 : f[n] = q[n]
    <3> DEFINE T == GoodSlices
    <3>1. q \in Seq(T)
      BY <1>0
    <3> HIDE DEF T
    <3>2. /\ Len(q) \in 1..Len(q) /\ Len(q) - 1 \in Nat /\ Last(q) = l
          /\ f \in Seq(T) /\ Len(f) = Len(q) - 1 /\ \A n \in 1..Len(q) - 1 : f[n] = q[n]
      BY <1>4, <3>1, FrontLast
    <3> QED BY <3>2 DEF T
  <2>2. out = f \o m
    BY <1>4, <2>1 DEF MergeOrAppendSlice
  <2>3. l \in GoodSlices /\ ~IsEmpty(l)
    BY <1>0, <2>1 DEF Solid
  <2>4. /\ l.min \in Nat /\ l.max \in Nat /\ l.min <= l.max
        /\ s.min \in Nat /\ s.max \in Nat /\ s.min <= s.max
    BY <2>3, SliceFields
  <2>5. l.min <= s.max /\ s.min <= l.max
    BY <1>4, <2>1 DEF CanMerge
  <2> HIDE DEF l, m, f
  <2>6. /\ m \in Seq(GoodSlices) /\ Solid(m) /\ InOrder(m) /\ m # <<>>
        /\ m[Len(m)].max = l.max \/ m[Len(m)].max = s.max
        /\ l.min <= s.min => /\ \A n \in 1..Len(m) : l.min <= m[n].min
                             /\ m[Len(m)].min <= MaxOf(s.min, MinOf(l.max, s.max))
        /\ Keeps({l, s}, Elements(m))
    <3>1. CASE l.min > s.min
      <4>1. m = MergeInOrder(s, l)
        BY <3>1 DEF MergeWithSlice, m
      <4>2. s.min <= l.min /\ l.min <= s.max /\ ~(l.min <= s.min)
        BY <2>4, <2>5, <3>1
      <4>3. /\ m \in Seq(GoodSlices) /\ Solid(m) /\ InOrder(m) /\ m # <<>>
            /\ m[Len(m)].max = MaxOf(s.max, l.max)
            /\ Keeps({s, l}, Elements(m))
        BY <1>4, <2>3, <4>1, <4>2, MergeInOrderOK
      <4>4. {s, l} = {l, s}
        OBVIOUS
      <4>5. MaxOf(s.max, l.max) = l.max \/ MaxOf(s.max, l.max) = s.max
        BY DEF MaxOf
      <4>6. Keeps({l, s}, Elements(m))
        BY <4>3, <4>4
      <4> QED BY <4>2, <4>3, <4>5, <4>6
    <3>2. CASE ~(l.min > s.min)
      <4>1. m = MergeInOrder(l, s)
        BY <3>2 DEF MergeWithSlice, m
      <4>2. l.min <= s.min
        BY <2>4, <3>2
      <4>3. /\ m \in Seq(GoodSlices) /\ Solid(m) /\ InOrder(m) /\ m # <<>>
            /\ \A n \in 1..Len(m) : l.min <= m[n].min
            /\ m[Len(m)].max = MaxOf(l.max, s.max)
            /\ m[Len(m)].min <= MaxOf(s.min, MinOf(l.max, s.max))
            /\ Keeps({l, s}, Elements(m))
        BY <1>4, <2>3, <2>5, <4>1, <4>2, MergeInOrderOK
      <4>4. MaxOf(l.max, s.max) = l.max \/ MaxOf(l.max, s.max) = s.max
        BY DEF MaxOf
      <4> QED BY <4>3, <4>4
    <3> QED BY <3>1, <3>2
  <2>7. Solid(f)
    <3>1. \A n \in 1..Len(q) - 1 : n \in 1..Len(q)
      BY <2>1
    <3> QED BY <1>0, <2>1, <3>1 DEF Solid
  <2>8. /\ out \in Seq(GoodSlices) /\ Elements(out) = Elements(f) \cup Elements(m) /\ Solid(out)
        /\ InOrder(f) /\ InOrder(m) /\ (\A i \in 1..Len(f), n \in 1..Len(m) : f[i].max <= m[n].min)
               => InOrder(out)
    BY <2>1, <2>2, <2>6, <2>7, ConcatLists
  <2>9. Elements(q) \cup {s} = Elements(f) \cup {l, s}
    <3>1. \A n \in 1..Len(q) : n = Len(q) \/ n \in 1..Len(q) - 1
      BY <2>1
    <3>2. \A n \in 1..Len(q) - 1 : n \in 1..Len(q)
      BY <2>1
    <3>3. \A x \in Elements(q) : x \in Elements(f) \/ x = l
      BY <2>1, <3>1 DEF Elements, l
    <3>4. \A x \in Elements(f) : x \in Elements(q)
      BY <2>1, <3>2 DEF Elements
    <3>5. l \in Elements(q)
      BY <2>1 DEF Elements, l
    <3> QED BY <3>3, <3>4, <3>5
  <2>10. Keeps(Elements(q) \cup {s}, Elements(out))
    <3>1. Keeps(Elements(f), Elements(f))
      BY <2>1, GoodElements, KeepsSame
    <3>2. Keeps(Elements(f) \cup {l, s}, Elements(f) \cup Elements(m))
      BY <2>6, <3>1, KeepsBoth
    <3> QED BY <2>8, <2>9, <3>2
  <2>11. out # <<>> /\ out[Len(out)] = m[Len(m)]
    <3>1. Len(m) \in 1..Len(m)
      BY <2>6
    <3> QED BY <2>1, <2>2, <2>6, <3>1
  <2>12. ASSUME InOrder(q), q # <<>> => l.min <= s.min PROVE InOrder(out)
    <3>0. l.min <= s.min
      BY <1>4, <2>12
    <3>1. \A n \in 1..Len(q) - 1 : n \in 1..Len(q) /\ n < Len(q)
      BY <2>1
    <3>2. InOrder(f)
      BY <2>1, <2>12, <3>1 DEF InOrder
    <3>3. ASSUME NEW i \in 1..Len(f), NEW n \in 1..Len(m) PROVE f[i].max <= m[n].min
      <4>1. f[i].max <= l.min
        BY <2>1, <2>12, <3>1 DEF InOrder, l
      <4>2. l.min <= m[n].min
        BY <2>6, <3>0
      <4>3. f[i] \in GoodSlices /\ m[n] \in GoodSlices
        BY <2>1, <2>6
      <4>4. f[i].max \in Nat /\ m[n].min \in Nat
        BY <4>3, SliceFields
      <4> QED BY <2>4, <4>1, <4>2, <4>4
    <3> QED BY <2>6, <2>8, <3>2, <3>3
  <2>13. out \in SolidLists
    BY <2>8 DEF SolidLists
  <2>14. /\ out[Len(out)].max = l.max \/ out[Len(out)].max = s.max
         /\ l.min <= s.min => out[Len(out)].min <= MaxOf(s.min, MinOf(l.max, s.max))
    BY <2>6, <2>11
  <2> QED BY <1>4, <2>10, <2>11, <2>12, <2>13, <2>14 DEF Absorbs, l
<1> QED BY <1>2, <1>3, <1>4

\* The lists that come of merging one slice after the other.
Merging(acc, seq, out) ==
    /\ acc[0] = <<>>
    /\ \A k \in 1..Len(seq) : acc[k - 1] \in SolidLists /\ acc[k] = MergeOrAppendSlice(acc[k - 1], seq[k])
    /\ acc[Len(seq)] = out

LEMMA MergingSlices ==
  ASSUME NEW seq \in Seq(GoodSlices)
  PROVE  \E acc : Merging(acc, seq, FoldLeft(MergeOrAppendSlice, <<>>, seq))
<1> DEFINE n == Len(seq)
           A == SolidLists
           b == <<>>
           h == [x \in (1..n) \X A |-> MergeOrAppendSlice(x[2], seq[x[1]])]
           Rec(c) == c = [s \in SUBSET (1..n) |->
                            IF s = {} THEN b ELSE MergeOrAppendSlice(c[s \ {Max(s)}], seq[Max(s)])]
           c == CHOOSE c : Rec(c)
<1>1. b \in A /\ n \in Nat /\ DOMAIN seq = 1..n /\ \A k \in 1..n : seq[k] \in GoodSlices
  BY DEF SolidLists, Solid
<1> HIDE DEF n
<1>2. \A a \in A : \A k \in 1..n : MergeOrAppendSlice(a, seq[k]) \in A
  BY <1>1, MergeOrAppendOK DEF Absorbs
<1>3. h \in [(1..n) \X A -> A]
  BY <1>2
<1>4. \A k \in 1..n : \A a \in A : h[<<k, a>>] = MergeOrAppendSlice(a, seq[k])
  OBVIOUS
<1>5. PICK f : Folding(f, n, b, h) /\ f \in [SUBSET (1..n) -> A]
  <2> HIDE DEF A, b, h
  <2> QED BY <1>1, <1>3, FoldExists
<1>6. Rec(f)
  <2>1. f = [s \in SUBSET (1..n) |-> IF s = {} THEN b ELSE h[<<Max(s), f[s \ {Max(s)}]>>]]
    BY <1>5 DEF Folding
  <2>2. ASSUME NEW s \in SUBSET (1..n), s # {}
        PROVE  h[<<Max(s), f[s \ {Max(s)}]>>] = MergeOrAppendSlice(f[s \ {Max(s)}], seq[Max(s)])
    <3>1. Max(s) \in 1..n /\ s \ {Max(s)} \in SUBSET (1..n)
      BY <1>1, <2>2, GreatestPlace
    <3>2. f[s \ {Max(s)}] \in A
      BY <3>1, <1>5
    <3> HIDE DEF h, A
    <3> QED BY <3>1, <3>2, <1>4
  <2> HIDE DEF h, b
  <2> QED BY <2>1, <2>2
<1>7. Rec(c)
  <2> HIDE DEF Rec
  <2> QED BY <1>6
<1>8. FoldLeft(MergeOrAppendSlice, <<>>, seq) = c[1..n]
  BY <1>1 DEF FoldLeft, MapThenFoldSet
<1> HIDE DEF c, h
<1>9. \A s \in SUBSET (1..n) :
          c[s] = IF s = {} THEN b ELSE MergeOrAppendSlice(c[s \ {Max(s)}], seq[Max(s)])
  BY <1>7
<1>10. c[1..0] = <<>>
  <2>1. 1..0 = {} /\ {} \in SUBSET (1..n)
    OBVIOUS
  <2> QED BY <1>9, <2>1
<1>11. ASSUME NEW k \in 1..n PROVE c[1..k] = MergeOrAppendSlice(c[1..k - 1], seq[k])
  <2>1. 1..k \in SUBSET (1..n) /\ 1..k # {} /\ Max(1..k) = k /\ (1..k) \ {k} = 1..k - 1
    BY <1>1, GreatestUpTo
  <2> QED BY <1>9, <2>1
<1> DEFINE S == {k \in 0..n : c[1..k] \in A}
<1>12. 0 \in S
  BY <1>1, <1>10
<1>13. ASSUME NEW k \in 0..n - 1, k \in S PROVE k + 1 \in S
  <2>1. k + 1 \in 1..n /\ k + 1 \in 0..n /\ (k + 1) - 1 = k
    BY <1>1
  <2>2. c[1..k + 1] = MergeOrAppendSlice(c[1..k], seq[k + 1])
    BY <1>11, <2>1
  <2>3. c[1..k] \in A
    BY <1>13
  <2> HIDE DEF A
  <2> QED BY <1>2, <2>1, <2>2, <2>3
<1>14. \A k \in 0..n : k \in S
  <2> HIDE DEF S
  <2> QED BY <1>1, <1>12, <1>13, UpTo
<1> DEFINE acc == [k \in 0..n |-> c[1..k]]
<1>15. /\ acc[0] = <<>> /\ acc[n] = c[1..n]
       /\ \A k \in 1..n : acc[k - 1] \in A /\ acc[k] = MergeOrAppendSlice(acc[k - 1], seq[k])
  <2>1. \A k \in 1..n : k \in 0..n /\ k - 1 \in 0..n
    BY <1>1
  <2>2. 0 \in 0..n /\ n \in 0..n
    BY <1>1
  <2> HIDE DEF A
  <2> QED BY <1>10, <1>11, <1>14, <2>1, <2>2
<1> HIDE DEF acc
<1>16. Merging(acc, seq, FoldLeft(MergeOrAppendSlice, <<>>, seq))
  BY <1>8, <1>15 DEF Merging, n
<1> QED BY <1>16

\* Of two lists in order, walked side by side, no element begins before the ends of two earlier ones.
LEMMA ThirdBegins ==
  ASSUME NEW a \in Seq(GoodSlices), NEW b \in Seq(GoodSlices), InOrder(a), InOrder(b),
         NEW seq, NEW p, Sorts(seq, b \o a, p)
  PROVE  /\ \A k, l \in 1..Len(seq) : k < l => seq[k].min <= seq[l].min
         /\ \A i, k, l \in 1..Len(seq) : i < k /\ k < l => MinOf(seq[i].max, seq[k].max) <= seq[l].min
<1> DEFINE both == b \o a
           n == Len(seq)
           T == GoodSlices
<1>1. a \in Seq(T) /\ b \in Seq(T)
  OBVIOUS
<1> HIDE DEF T
<1>2. /\ both \in Seq(T) /\ Len(both) = Len(b) + Len(a) /\ Len(b) \in Nat /\ Len(a) \in Nat
      /\ \A i \in 1..Len(both) : \/ i \in 1..Len(b) /\ both[i] = b[i]
                                 \/ i > Len(b) /\ i - Len(b) \in 1..Len(a) /\ both[i] = a[i - Len(b)]
  BY <1>1, Concatenation
<1> HIDE DEF both
<1>3. /\ n = Len(both) /\ n \in Nat
      /\ \A k \in 1..n : p[k] \in 1..n /\ seq[k] = both[p[k]]
  <2>1. n = Len(both) /\ n \in Nat
    BY <1>2 DEF Sorts, both
  <2>2. \A k \in 1..n : p[k] \in 1..n
    BY <2>1 DEF Sorts, both
  <2>3. \A k \in 1..n : seq[k] = both[p[k]]
    BY <2>1 DEF Sorts, both
  <2> QED BY <2>1, <2>2, <2>3
<1> DEFINE fromB(k) == p[k] \in 1..Len(b) /\ seq[k] = b[p[k]]
           fromA(k) == p[k] - Len(b) \in 1..Len(a) /\ seq[k] = a[p[k] - Len(b)]
<1>9. \A k \in 1..n : (p[k] <= Len(b) => fromB(k)) /\ (~(p[k] <= Len(b)) => fromA(k))
  <2> SUFFICES ASSUME NEW k \in 1..n
               PROVE  (p[k] <= Len(b) => fromB(k)) /\ (~(p[k] <= Len(b)) => fromA(k))
    OBVIOUS
  <2>1. p[k] \in 1..Len(both) /\ seq[k] = both[p[k]] /\ p[k] \in Nat
    BY <1>3
  <2>2. \/ p[k] \in 1..Len(b) /\ both[p[k]] = b[p[k]]
        \/ p[k] > Len(b) /\ p[k] - Len(b) \in 1..Len(a) /\ both[p[k]] = a[p[k] - Len(b)]
    BY <1>2, <2>1
  <2>3. p[k] \in 1..Len(b) => p[k] <= Len(b)
    BY <1>2
  <2>4. p[k] > Len(b) => ~(p[k] <= Len(b))
    BY <1>2, <2>1
  <2> QED BY <2>1, <2>2, <2>3, <2>4
<1>4. \A k \in 1..n : /\ seq[k] \in GoodSlices
                      /\ seq[k].min \in Nat /\ seq[k].max \in Nat /\ seq[k].min <= seq[k].max
  <2>1. \A k \in 1..n : seq[k] \in GoodSlices
    BY <1>2, <1>3 DEF T
  <2> QED BY <2>1, SliceFields
<1>5. \A k, l \in 1..n : k < l => seq[k].min < seq[l].min \/ (seq[k].min = seq[l].min /\ p[k] < p[l])
  BY <1>3 DEF Sorts, both
<1>6. \A k, l \in 1..n : k < l => seq[k].min <= seq[l].min
  BY <1>4, <1>5
<1>7. ASSUME NEW k \in 1..n, NEW l \in 1..n, k < l, p[k] <= Len(b) <=> p[l] <= Len(b)
      PROVE  seq[k].max <= seq[l].min
  <2>1. p[k] < p[l] => seq[k].max <= seq[l].min
    <3> SUFFICES ASSUME p[k] < p[l] PROVE seq[k].max <= seq[l].min
      OBVIOUS
    <3>1. CASE p[k] <= Len(b)
      <4>1. p[k] \in 1..Len(b) /\ p[l] \in 1..Len(b) /\ seq[k] = b[p[k]] /\ seq[l] = b[p[l]]
        BY <1>7, <1>9, <3>1
      <4> QED BY <4>1 DEF InOrder
    <3>2. CASE ~(p[k] <= Len(b))
      <4>1. /\ p[k] - Len(b) \in 1..Len(a) /\ p[l] - Len(b) \in 1..Len(a)
            /\ seq[k] = a[p[k] - Len(b)] /\ seq[l] = a[p[l] - Len(b)]
        BY <1>7, <1>9, <3>2
      <4>2. p[k] - Len(b) < p[l] - Len(b)
        BY <1>2, <1>3
      <4> QED BY <4>1, <4>2 DEF InOrder
    <3> QED BY <3>1, <3>2
  <2>2. p[l] < p[k] => seq[l].max <= seq[k].min
    <3> SUFFICES ASSUME p[l] < p[k] PROVE seq[l].max <= seq[k].min
      OBVIOUS
    <3>1. CASE p[k] <= Len(b)
      <4>1. p[k] \in 1..Len(b) /\ p[l] \in 1..Len(b) /\ seq[k] = b[p[k]] /\ seq[l] = b[p[l]]
        BY <1>7, <1>9, <3>1
      <4> QED BY <4>1 DEF InOrder
    <3>2. CASE ~(p[k] <= Len(b))
      <4>1. /\ p[k] - Len(b) \in 1..Len(a) /\ p[l] - Len(b) \in 1..Len(a)
            /\ seq[k] = a[p[k] - Len(b)] /\ seq[l] = a[p[l] - Len(b)]
        BY <1>7, <1>9, <3>2
      <4>2. p[l] - Len(b) < p[k] - Len(b)
        BY <1>2, <1>3
      <4> QED BY <4>1, <4>2 DEF InOrder
    <3> QED BY <3>1, <3>2
  <2>3. seq[k].min < seq[l].min \/ (seq[k].min = seq[l].min /\ p[k] < p[l])
    BY <1>5, <1>7
  <2>4. p[k] \in Nat /\ p[l] \in Nat
    BY <1>3
  <2>5. p[k] < p[l] \/ p[l] < p[k] \/ seq[k] = seq[l]
    <3>1. p[k] = p[l] => seq[k] = seq[l]
      BY <1>3
    <3> QED BY <2>4, <3>1
  <2>6. CASE p[k] < p[l]
    BY <2>1, <2>6
  <2>7. CASE ~(p[k] < p[l])
    <3>1. seq[k].min < seq[l].min
      BY <2>3, <2>7
    <3>2. seq[l].max <= seq[k].min
      <4>1. seq[k] # seq[l]
        BY <1>4, <3>1
      <4> QED BY <2>2, <2>5, <2>7, <4>1
    <3> QED BY <1>4, <3>1, <3>2
  <2> QED BY <2>6, <2>7
<1>8. ASSUME NEW i \in 1..n, NEW k \in 1..n, NEW l \in 1..n, i < k, k < l
      PROVE  MinOf(seq[i].max, seq[k].max) <= seq[l].min
  <2>1. i < l
    BY <1>3, <1>8
  <2>2. /\ MinOf(seq[i].max, seq[k].max) <= seq[i].max /\ MinOf(seq[i].max, seq[k].max) <= seq[k].max
        /\ MinOf(seq[i].max, seq[k].max) \in Nat
    BY <1>4 DEF MinOf
  <2>3. seq[k].min <= seq[l].min
    BY <1>6, <1>8
  <2>4. \/ p[i] <= Len(b) <=> p[k] <= Len(b)
        \/ p[k] <= Len(b) <=> p[l] <= Len(b)
        \/ p[i] <= Len(b) <=> p[l] <= Len(b)
    OBVIOUS
  <2>5. seq[i].max <= seq[k].min \/ seq[k].max <= seq[l].min \/ seq[i].max <= seq[l].min
    <3>1. CASE p[i] <= Len(b) <=> p[k] <= Len(b)
      BY <1>7, <1>8, <3>1
    <3>2. CASE p[k] <= Len(b) <=> p[l] <= Len(b)
      BY <1>7, <1>8, <3>2
    <3>3. CASE p[i] <= Len(b) <=> p[l] <= Len(b)
      BY <1>7, <2>1, <3>3
    <3> QED BY <2>4, <3>1, <3>2, <3>3
  <2> QED BY <1>4, <2>2, <2>3, <2>5
<1> QED BY <1>6, <1>8

\* Merged lists of slices are in order, and nothing that is not acknowledged gets lost.
MergesTo(a, b, out) ==
    /\ out \in SolidLists /\ InOrder(out)
    /\ Keeps(Elements(a) \cup Elements(b), Elements(out))

\* The slices of two ordered lists, merged one after the other, are ordered and hold the same.
LEMMA MergedOK ==
  ASSUME NEW a \in Seq(GoodSlices), NEW b \in Seq(GoodSlices), InOrder(a), InOrder(b),
         NEW out, out = FoldLeft(MergeOrAppendSlice, <<>>, InMinOrder(b, a))
  PROVE  MergesTo(a, b, out)
<1> DEFINE seq == InMinOrder(b, a)
           both == b \o a
           n == Len(seq)
<1>1. seq \in Seq(GoodSlices) /\ \E p : Sorts(seq, both, p)
  <2> DEFINE T == GoodSlices
  <2>1. a \in Seq(T) /\ b \in Seq(T) /\ \A x \in T : x.min \in Nat
    BY SliceFields
  <2> HIDE DEF T
  <2>2. seq \in Seq(T) /\ \E p : Sorts(seq, both, p)
    BY <2>1, MinOrderSorts
  <2> QED BY <2>2 DEF T
<1>2. out = FoldLeft(MergeOrAppendSlice, <<>>, seq)
  OBVIOUS
<1> HIDE DEF seq
<1>3. PICK p : Sorts(seq, both, p)
  BY <1>1
<1>4. /\ \A k, l \in 1..n : k < l => seq[k].min <= seq[l].min
      /\ \A i, k, l \in 1..n : i < k /\ k < l => MinOf(seq[i].max, seq[k].max) <= seq[l].min
  BY <1>3, ThirdBegins
<1>5. Elements(seq) = Elements(a) \cup Elements(b)
  <2>1. Elements(both) = Elements(b) \cup Elements(a)
    BY ConcatLists
  <2>2. Elements(seq) = Elements(both)
    <3> HIDE DEF both
    <3>0. Len(seq) = Len(both)
      BY <1>3 DEF Sorts
    <3>5. \A k \in 1..Len(seq) : p[k] \in 1..Len(both)
      BY <1>3, <3>0 DEF Sorts
    <3>6. \A k \in 1..Len(seq) : seq[k] = both[p[k]]
      BY <1>3, <3>0 DEF Sorts
    <3>1. Len(seq) = Len(both) /\ \A k \in 1..Len(seq) : p[k] \in 1..Len(both) /\ seq[k] = both[p[k]]
      BY <3>0, <3>5, <3>6
    <3>2. \A i \in 1..Len(both) : \E k \in 1..Len(seq) : p[k] = i
      BY <1>3, <3>0 DEF Sorts
    <3>3. \A x \in Elements(seq) : x \in Elements(both)
      <4> SUFFICES ASSUME NEW k \in 1..Len(seq) PROVE seq[k] \in Elements(both)
        BY DEF Elements
      <4>1. p[k] \in 1..Len(both) /\ seq[k] = both[p[k]]
        BY <3>1
      <4> QED BY <4>1 DEF Elements
    <3>4. \A x \in Elements(both) : x \in Elements(seq)
      <4> SUFFICES ASSUME NEW i \in 1..Len(both) PROVE both[i] \in Elements(seq)
        BY DEF Elements
      <4>1. PICK k \in 1..Len(seq) : p[k] = i
        BY <3>2
      <4>2. seq[k] = both[i]
        BY <3>1, <4>1
      <4> QED BY <4>2 DEF Elements
    <3> QED BY <3>3, <3>4
  <2> QED BY <2>1, <2>2
<1> HIDE DEF both
<1>6. /\ n \in Nat
      /\ \A k \in 1..n : /\ seq[k] \in GoodSlices
                         /\ seq[k].min \in Nat /\ seq[k].max \in Nat /\ seq[k].min <= seq[k].max
  <2>1. \A k \in 1..n : seq[k] \in GoodSlices
    BY <1>1
  <2> QED BY <1>1, <2>1, SliceFields
<1>7. PICK acc : Merging(acc, seq, out)
  BY <1>1, <1>2, MergingSlices
<1>8. /\ acc[0] = <<>> /\ acc[n] = out
      /\ \A k \in 1..n : acc[k - 1] \in SolidLists /\ acc[k] = MergeOrAppendSlice(acc[k - 1], seq[k])
  BY <1>7 DEF Merging
<1> DEFINE first(k) == {seq[i] : i \in 1..k}
           Ends(q, k) == \E i \in 1..k : q[Len(q)].max = seq[i].max
           Begins(q, k) == \A l \in k + 1..n : q[Len(q)].min <= seq[l].min
           Good(k) == /\ acc[k] \in SolidLists /\ InOrder(acc[k])
                      /\ Keeps(first(k), Elements(acc[k]))
                      /\ acc[k] # <<>> => Ends(acc[k], k) /\ Begins(acc[k], k)
           S == {k \in 0..n : Good(k)}
<1>9. 0 \in S
  <2>1. <<>> \in SolidLists /\ InOrder(<<>>)
    BY DEF SolidLists, Solid, InOrder
  <2>2. first(0) = {} /\ Elements(<<>>) = {}
    BY DEF Elements
  <2>3. Keeps({}, {})
    BY KeepsSame
  <2>4. Good(0)
    <3> HIDE DEF first
    <3> QED BY <1>8, <2>1, <2>2, <2>3
  <2>5. 0 \in 0..n
    BY <1>6
  <2> HIDE DEF Good
  <2> QED BY <2>4, <2>5
<1>10. ASSUME NEW k \in 0..n - 1, k \in S PROVE k + 1 \in S
  <2> DEFINE s == seq[k + 1]
             q == acc[k]
             new == acc[k + 1]
  <2>1. k + 1 \in 1..n /\ k + 1 \in 0..n /\ (k + 1) - 1 = k /\ k \in Nat /\ k + 1 \in k + 1..n
    BY <1>6
  <2>2. Good(k)
    BY <1>10
  <2>3. Absorbs(q, s, new)
    <3>1. q \in SolidLists /\ s \in GoodSlices /\ new = MergeOrAppendSlice(q, s)
      BY <1>6, <1>8, <2>1
    <3> HIDE DEF q, s, new
    <3> QED BY <3>1, MergeOrAppendOK
  <2>4. q # <<>> => q[Len(q)].min <= s.min
    BY <2>1, <2>2
  <2>5. new \in SolidLists /\ InOrder(new)
    BY <2>2, <2>3, <2>4 DEF Absorbs
  <2>6. Keeps(first(k + 1), Elements(new))
    <3>1. first(k + 1) = first(k) \cup {s}
      <4>1. \A i \in 1..k + 1 : i = k + 1 \/ i \in 1..k
        BY <2>1
      <4>2. \A i \in 1..k : i \in 1..k + 1
        BY <2>1
      <4>3. k + 1 \in 1..k + 1
        BY <2>1
      <4> QED BY <4>1, <4>2, <4>3
    <3>2. Keeps({s}, {s})
      BY <1>6, <2>1, KeepsSame
    <3>3. Keeps(first(k), Elements(q))
      BY <2>2
    <3>4. first(k) \cup {s} \in SUBSET GoodSlices
      <4>1. \A i \in 1..k : i \in 1..n
        BY <2>1, <1>6
      <4> QED BY <4>1, <1>6, <2>1
    <3>5. Keeps(Elements(q) \cup {s}, Elements(new))
      BY <2>3 DEF Absorbs
    <3> HIDE DEF first, q, s, new
    <3>6. Keeps(first(k) \cup {s}, Elements(q) \cup {s})
      BY <3>2, <3>3, KeepsBoth
    <3> QED BY <3>1, <3>4, <3>5, <3>6, KeepsThen
  <2>7. ASSUME new # <<>> PROVE Ends(new, k + 1) /\ Begins(new, k + 1)
    <3>1. CASE new = q
      <4>1. Ends(q, k) /\ Begins(q, k)
        BY <2>2, <2>7, <3>1
      <4>2. \A i \in 1..k : i \in 1..k + 1
        BY <2>1
      <4>3. \A l \in (k + 1) + 1..n : l \in k + 1..n
        BY <2>1
      <4> QED BY <3>1, <4>1, <4>2, <4>3
    <3>2. CASE new[Len(new)] = s
      <4>1. k + 1 \in 1..k + 1
        BY <2>1
      <4>2. \A l \in (k + 1) + 1..n : l \in 1..n /\ k + 1 < l
        BY <2>1
      <4> QED BY <3>2, <4>1, <4>2, <1>4, <2>1
    <3>3. CASE /\ q # <<>>
               /\ new[Len(new)].max = q[Len(q)].max \/ new[Len(new)].max = s.max
               /\ new[Len(new)].min <= MaxOf(s.min, MinOf(q[Len(q)].max, s.max))
      <4>1. PICK i \in 1..k : q[Len(q)].max = seq[i].max
        BY <2>2, <3>3
      <4>2. i \in 1..n /\ i < k + 1 /\ i \in 1..k + 1 /\ k + 1 \in 1..k + 1
        BY <2>1, <1>6
      <4>3. Ends(new, k + 1)
        BY <3>3, <4>1, <4>2
      <4>4. ASSUME NEW l \in (k + 1) + 1..n PROVE new[Len(new)].min <= seq[l].min
        <5>1. l \in 1..n /\ k + 1 < l
          BY <2>1, <1>6
        <5>2. s.min <= seq[l].min /\ MinOf(seq[i].max, s.max) <= seq[l].min
          BY <1>4, <2>1, <4>2, <5>1
        <5>3. MaxOf(s.min, MinOf(q[Len(q)].max, s.max)) <= seq[l].min
          BY <4>1, <5>2 DEF MaxOf
        <5>4. MaxOf(s.min, MinOf(q[Len(q)].max, s.max)) \in Nat /\ seq[l].min \in Nat
          BY <1>6, <2>1, <4>1, <4>2, <5>1 DEF MaxOf, MinOf
        <5>5. new[Len(new)].min \in Nat
          <6>1. new \in Seq(GoodSlices)
            BY <2>5 DEF SolidLists
          <6>2. new[Len(new)] \in GoodSlices
            <7> HIDE DEF new
            <7> QED BY <2>7, <6>1
          <6> QED BY <6>2, SliceFields
        <5> HIDE DEF new, q, s
        <5> QED BY <3>3, <5>3, <5>4, <5>5
      <4> QED BY <4>3, <4>4
    <3> QED BY <2>3, <2>4, <3>1, <3>2, <3>3 DEF Absorbs
  <2>8. Good(k + 1)
    <3> HIDE DEF first, Ends, Begins
    <3> QED BY <2>5, <2>6, <2>7
  <2> HIDE DEF Good
  <2> QED BY <2>1, <2>8
<1>11. Good(n)
  <2> HIDE DEF Good
  <2>1. \A k \in 0..n - 1 : k \in S => k + 1 \in S
    BY <1>10
  <2> HIDE DEF S
  <2>2. \A k \in 0..n : k \in S
    BY <1>6, <1>9, <2>1, UpTo
  <2>3. n \in 0..n
    BY <1>6
  <2>4. n \in S
    BY <2>2, <2>3
  <2> QED BY <2>4 DEF S
<1>12. first(n) = Elements(seq)
  BY DEF Elements
<1> QED BY <1>5, <1>8, <1>11, <1>12 DEF MergesTo

-----------------------------------------------------------------------------
(* The slice list of a reader                                              *)

GoodReaders ==
    {r \in [slices : Seq(GoodSlices), nextReadSlice : Int] :
        /\ InOrder(r.slices)
        /\ r.nextReadSlice \in {Removed, 0} \cup 1..Len(r.slices)}

LEMMA ReaderFields ==
  ASSUME NEW r \in GoodReaders
  PROVE  /\ r = [slices |-> r.slices, nextReadSlice |-> r.nextReadSlice]
         /\ r.slices \in Seq(GoodSlices) /\ InOrder(r.slices)
         /\ r.nextReadSlice \in {Removed, 0} \cup 1..Len(r.slices)
         /\ Len(r.slices) \in Nat /\ DOMAIN r.slices = 1..Len(r.slices)
BY DEF GoodReaders

\* A list and a place in it make a reader.
LEMMA MakeReader ==
  ASSUME NEW q \in Seq(GoodSlices), InOrder(q), NEW n \in {Removed, 0} \cup 1..Len(q)
  PROVE  [slices |-> q, nextReadSlice |-> n] \in GoodReaders
<1>1. n \in Int
  BY DEF Removed
<1> QED BY <1>1 DEF GoodReaders

\* What the operations on a reader do to its slices.
LEMMA ResetReaderOK ==
  ASSUME NEW q \in Seq(GoodSlices), InOrder(q), NEW r, r = ResetReader(q)
  PROVE  r \in GoodReaders /\ r.slices = q
<1> DEFINE I == {i \in 1..Len(q) : q[i].iterators # <<>>}
           place == IF I # {} THEN Min(I) ELSE 0
<1>1. r = [slices |-> q, nextReadSlice |-> place]
  BY DEF ResetReader, SelectInSeq
<1>2. place \in {Removed, 0} \cup 1..Len(q)
  <2>1. CASE I # {}
    <3>1. I \in SUBSET Nat
      OBVIOUS
    <3>2. PICK d \in I : \A e \in I : d <= e
      <4> HIDE DEF I
      <4> QED BY <2>1, <3>1, LeastNumber
    <3>3. Min(I) \in I
      <4> HIDE DEF I
      <4> QED BY <3>2 DEF Min
    <3> QED BY <2>1, <3>3
  <2>2. CASE I = {}
    BY <2>2
  <2> QED BY <2>1, <2>2
<1> HIDE DEF place
<1> QED BY <1>1, <1>2, MakeReader

\* What becomes of the list of a reader and of slices that are added to it.
Extends(r, q, out) ==
    /\ out \in GoodReaders
    /\ Keeps(Elements(r.slices) \cup Elements(q), Elements(out.slices))

LEMMA MergeSlicesOK ==
  ASSUME NEW r \in GoodReaders, NEW q \in Seq(GoodSlices), InOrder(q), NEW out, out = MergeSlices(r, q)
  PROVE  Extends(r, q, out)
<1>1. r.slices \in Seq(GoodSlices) /\ InOrder(r.slices)
  BY ReaderFields
<1>2. CASE q = <<>>
  <2>1. out = r
    BY <1>2 DEF MergeSlices
  <2>2. Elements(q) = {}
    BY <1>2 DEF Elements
  <2>3. Keeps(Elements(r.slices), Elements(r.slices))
    BY <1>1, GoodElements, KeepsSame
  <2>4. Elements(r.slices) \cup Elements(q) = Elements(r.slices)
    BY <2>2
  <2> QED BY <2>1, <2>3, <2>4 DEF Extends
<1>3. CASE q # <<>>
  <2> DEFINE list == FoldLeft(MergeOrAppendSlice, <<>>, InMinOrder(q, r.slices))
  <2>1. MergesTo(r.slices, q, list)
    <3> DEFINE a == r.slices
    <3>1. a \in Seq(GoodSlices) /\ InOrder(a) /\ list = FoldLeft(MergeOrAppendSlice, <<>>, InMinOrder(q, a))
      BY <1>1
    <3> HIDE DEF a, list
    <3>2. MergesTo(a, q, list)
      BY <3>1, MergedOK
    <3> QED BY <3>2 DEF a
  <2>2. out = ResetReader(list)
    BY <1>3 DEF MergeSlices
  <2> HIDE DEF list
  <2>3. list \in Seq(GoodSlices) /\ InOrder(list)
    BY <2>1 DEF MergesTo, SolidLists
  <2>4. out \in GoodReaders /\ out.slices = list
    BY <2>2, <2>3, ResetReaderOK
  <2> QED BY <2>1, <2>4 DEF MergesTo, Extends
<1> QED BY <1>2, <1>3

LEMMA AppendSlicesOK ==
  ASSUME NEW r \in GoodReaders, NEW q \in Seq(GoodSlices), InOrder(q),
         \A x \in Elements(r.slices), y \in Elements(q) : x.max <= y.min,
         NEW out, out = AppendSlices(r, q)
  PROVE  Extends(r, q, out)
<1>1. r.slices \in Seq(GoodSlices) /\ InOrder(r.slices)
  BY ReaderFields
<1>2. CASE q = <<>>
  <2>1. out = r
    BY <1>2 DEF AppendSlices
  <2>2. Elements(q) = {}
    BY <1>2 DEF Elements
  <2>3. Keeps(Elements(r.slices), Elements(r.slices))
    BY <1>1, GoodElements, KeepsSame
  <2>4. Elements(r.slices) \cup Elements(q) = Elements(r.slices)
    BY <2>2
  <2> QED BY <2>1, <2>3, <2>4 DEF Extends
<1>3. CASE q # <<>>
  <2> DEFINE some == NonEmpty(q)
             list == r.slices \o some
  <2>1. /\ some \in Seq(GoodSlices) /\ InOrder(some) /\ Elements(some) \subseteq Elements(q)
        /\ Keeps(Elements(q), Elements(some))
    BY NonEmptyOK
  <2>2. out = ResetReader(list)
    BY <1>3 DEF AppendSlices
  <2> HIDE DEF some
  <2>3. /\ list \in Seq(GoodSlices)
        /\ Elements(list) = Elements(r.slices) \cup Elements(some)
        /\ InOrder(list)
    <3>1. \A m \in 1..Len(r.slices), n \in 1..Len(some) : r.slices[m].max <= some[n].min
      <4> SUFFICES ASSUME NEW m \in 1..Len(r.slices), NEW n \in 1..Len(some)
                   PROVE  r.slices[m].max <= some[n].min
        OBVIOUS
      <4>1. r.slices[m] \in Elements(r.slices)
        BY DEF Elements
      <4>2. some[n] \in Elements(q)
        BY <2>1 DEF Elements
      <4> QED BY <4>1, <4>2
    <3> DEFINE a == r.slices
    <3>2. a \in Seq(GoodSlices) /\ InOrder(a) /\ \A m \in 1..Len(a), n \in 1..Len(some) : a[m].max <= some[n].min
      BY <1>1, <3>1
    <3>3. list = a \o some
      OBVIOUS
    <3> HIDE DEF a, list
    <3>4. list \in Seq(GoodSlices) /\ Elements(list) = Elements(a) \cup Elements(some) /\ InOrder(list)
      BY <2>1, <3>2, <3>3, ConcatLists
    <3> QED BY <3>4 DEF a
  <2> HIDE DEF list
  <2>4. out \in GoodReaders /\ out.slices = list
    BY <2>2, <2>3, ResetReaderOK
  <2>5. Keeps(Elements(r.slices), Elements(r.slices))
    BY <1>1, GoodElements, KeepsSame
  <2>6. Keeps(Elements(r.slices) \cup Elements(q), Elements(r.slices) \cup Elements(some))
    BY <2>1, <2>5, KeepsBoth
  <2> QED BY <2>3, <2>4, <2>6 DEF Extends
<1> QED BY <1>2, <1>3

\* Slices one for one in the place of others, each in the range of the one it replaces.
LEMMA OneForOne ==
  ASSUME NEW q \in Seq(GoodSlices), InOrder(q), NEW out \in Seq(GoodSlices), Len(out) = Len(q),
         \A n \in 1..Len(q) : q[n].min <= out[n].min /\ out[n].max <= q[n].max /\ Keeps({q[n]}, {out[n]})
  PROVE  InOrder(out) /\ Keeps(Elements(q), Elements(out))
<1>1. \A n \in 1..Len(q) : q[n] \in GoodSlices /\ out[n] \in GoodSlices
  BY GoodElements
<1>2. \A n \in 1..Len(q) : /\ q[n].min \in Nat /\ q[n].max \in Nat
                           /\ out[n].min \in Nat /\ out[n].max \in Nat
  BY <1>1, SliceFields
<1>3. InOrder(out)
  <2> SUFFICES ASSUME NEW m \in 1..Len(q), NEW n \in 1..Len(q), m < n PROVE out[m].max <= out[n].min
    BY DEF InOrder
  <2>1. q[m].max <= q[n].min
    BY DEF InOrder
  <2>2. out[m].max <= q[m].max /\ q[n].min <= out[n].min
    OBVIOUS
  <2>3. q[m].max \in Nat /\ q[n].min \in Nat /\ out[m].max \in Nat /\ out[n].min \in Nat
    BY <1>2
  <2> QED BY <2>1, <2>2, <2>3
<1>4. Elements(q) \in SUBSET GoodSlices /\ Elements(out) \in SUBSET GoodSlices
  BY GoodElements
<1>5. \A n \in 1..Len(q) : q[n] \in Elements(q) /\ out[n] \in Elements(out)
  BY DEF Elements
<1>6. ASSUME NEW y \in Elements(out)
      PROVE  /\ \E x \in Elements(q) : x.min <= y.min
             /\ \E x \in Elements(q) : y.max <= x.max
             /\ \A t \in y.pending : \E x \in Elements(q) : t \in x.pending
             /\ \A t \in y.acked : \E x \in Elements(q) : t \in x.acked
  <2>1. PICK n \in 1..Len(q) : y = out[n]
    BY DEF Elements
  <2>2. Keeps({q[n]}, {y})
    BY <2>1
  <2>3. /\ \A t \in y.pending : t \in q[n].pending
        /\ \A t \in y.acked : t \in q[n].acked
    BY <2>2 DEF Keeps
  <2> QED BY <1>5, <2>1, <2>3
<1>7. ASSUME NEW t \in AnyTask, \A x \in Elements(q) : t \notin x.acked, \E x \in Elements(q) : Holds(x, t)
      PROVE  \E y \in Elements(out) : Holds(y, t)
  <2>1. PICK n \in 1..Len(q) : Holds(q[n], t)
    BY <1>7 DEF Elements
  <2>2. Keeps({q[n]}, {out[n]}) /\ t \notin q[n].acked
    BY <1>5, <1>7
  <2>3. Holds(out[n], t)
    BY <2>1, <2>2 DEF Keeps
  <2> QED BY <1>5, <2>3
<1> QED BY <1>3, <1>4, <1>6, <1>7 DEF Keeps

\* What ShrinkSlices takes off a list is empty, and nextReadSlice stays a place of the list.
LEMMA ShrinkSlicesOK ==
  ASSUME NEW r \in GoodReaders, NEW out, out = ShrinkSlices(r)
  PROVE  Extends(r, <<>>, out)
<1> DEFINE q == r.slices
           next == r.nextReadSlice
           shrunk == [n \in DOMAIN q |-> ShrinkScope(q[n])]
           place == IF next \in {0, Removed} THEN next
                    ELSE IF IsEmpty(shrunk[next]) THEN Removed
                    ELSE Len(NonEmpty(SubSeq(shrunk, 1, next)))
<1>1. /\ q \in Seq(GoodSlices) /\ InOrder(q) /\ Len(q) \in Nat /\ DOMAIN q = 1..Len(q)
      /\ next \in {Removed, 0} \cup 1..Len(q)
  BY ReaderFields
<1>2. out = [slices |-> NonEmpty(shrunk), nextReadSlice |-> place]
  BY DEF ShrinkSlices
<1> HIDE DEF q, next
<1>3. \A n \in 1..Len(q) : /\ shrunk[n] = ShrinkScope(q[n]) /\ shrunk[n] \in GoodSlices
                           /\ q[n].min <= shrunk[n].min /\ shrunk[n].max = q[n].max
                           /\ Keeps({q[n]}, {shrunk[n]})
  <2> SUFFICES ASSUME NEW n \in 1..Len(q)
               PROVE  /\ shrunk[n] = ShrinkScope(q[n]) /\ shrunk[n] \in GoodSlices
                      /\ q[n].min <= shrunk[n].min /\ shrunk[n].max = q[n].max
                      /\ Keeps({q[n]}, {shrunk[n]})
    OBVIOUS
  <2>1. q[n] \in GoodSlices
    BY <1>1, GoodElements
  <2>2. shrunk[n] = ShrinkScope(q[n])
    BY <1>1
  <2> HIDE DEF shrunk
  <2> QED BY <2>1, <2>2, ShrinkScopeOK
<1>4. shrunk \in Seq(GoodSlices) /\ Len(shrunk) = Len(q)
  <2> DEFINE f(n) == ShrinkScope(q[n])
  <2>1. shrunk = [n \in 1..Len(q) |-> f(n)]
    BY <1>1
  <2>2. \A n \in 1..Len(q) : f(n) \in GoodSlices
    BY <1>3
  <2> HIDE DEF f, shrunk
  <2>3. shrunk \in [1..Len(q) -> GoodSlices]
    BY <2>1, <2>2
  <2> QED BY <2>3, <1>1, FunctionIsSeq
<1> HIDE DEF shrunk
<1>5. InOrder(shrunk) /\ Keeps(Elements(q), Elements(shrunk))
  <2>1. \A n \in 1..Len(q) : q[n] \in GoodSlices
    BY <1>1, GoodElements
  <2>2. ASSUME NEW n \in 1..Len(q) PROVE shrunk[n].max <= q[n].max
    <3>1. q[n].max \in Nat
      BY <2>1, SliceFields
    <3>2. shrunk[n].max = q[n].max
      BY <1>3
    <3> QED BY <3>1, <3>2
  <2> QED BY <1>1, <1>3, <1>4, <2>2, OneForOne
<1>6. /\ NonEmpty(shrunk) \in Seq(GoodSlices) /\ InOrder(NonEmpty(shrunk))
      /\ Keeps(Elements(shrunk), Elements(NonEmpty(shrunk)))
  BY <1>4, <1>5, NonEmptyOK
<1>7. place \in {Removed, 0} \cup 1..Len(NonEmpty(shrunk))
  <2> SUFFICES ASSUME next \in 1..Len(q), ~IsEmpty(shrunk[next])
               PROVE  Len(NonEmpty(SubSeq(shrunk, 1, next))) \in 1..Len(NonEmpty(shrunk))
    BY <1>1
  <2> DEFINE sub == SubSeq(shrunk, 1, next)
             I == {n \in 1..Len(q) : ~IsEmpty(shrunk[n])}
             J == {n \in 1..next : ~IsEmpty(sub[n])}
  <2>1. sub \in Seq(GoodSlices) /\ Len(sub) = next /\ \A n \in 1..next : sub[n] = shrunk[n]
    BY <1>1, <1>4
  <2>2. DOMAIN shrunk = 1..Len(q) /\ DOMAIN sub = 1..next
    BY <1>4, <2>1
  <2> HIDE DEF sub
  <2>3. NonEmpty(shrunk) = Selected(shrunk, I) /\ NonEmpty(sub) = Selected(sub, J)
    BY <2>2 DEF NonEmpty
  <2>4. J \in SUBSET I /\ next \in J /\ J \in SUBSET (1..Len(sub)) /\ I \in SUBSET (1..Len(shrunk))
    BY <1>1, <1>4, <2>1
  <2> HIDE DEF I, J
  <2>5. Len(NonEmpty(shrunk)) = Cardinality(I) /\ Len(NonEmpty(sub)) = Cardinality(J)
    <3> DEFINE T == GoodSlices
    <3>1. shrunk \in Seq(T) /\ sub \in Seq(T)
      BY <1>4, <2>1
    <3> HIDE DEF T
    <3> QED BY <2>3, <2>4, <3>1, SelectedPicks
  <2>6. IsFiniteSet(I)
    <3>1. IsFiniteSet(1..Len(shrunk))
      BY <1>1, <1>4, FS_Interval
    <3> QED BY <3>1, <2>4, FS_Subset
  <2>7. Cardinality(J) <= Cardinality(I) /\ IsFiniteSet(J) /\ Cardinality(I) \in Nat
    BY <2>4, <2>6, FS_Subset, FS_CardinalityType
  <2>8. Cardinality(J) # 0 /\ Cardinality(J) \in Nat
    BY <2>4, <2>7, FS_EmptySet, FS_CardinalityType
  <2> QED BY <2>5, <2>7, <2>8 DEF sub
<1> HIDE DEF place
<1>8. out \in GoodReaders /\ out.slices = NonEmpty(shrunk)
  <2> DEFINE list == NonEmpty(shrunk)
  <2>1. list \in Seq(GoodSlices) /\ InOrder(list) /\ place \in {Removed, 0} \cup 1..Len(list)
    BY <1>6, <1>7
  <2>2. out = [slices |-> list, nextReadSlice |-> place]
    BY <1>2
  <2> HIDE DEF list
  <2>3. out \in GoodReaders /\ out.slices = list
    BY <2>1, <2>2, MakeReader
  <2> QED BY <2>3 DEF list
<1>9. Keeps(Elements(q), Elements(NonEmpty(shrunk)))
  <2>1. Elements(q) \in SUBSET GoodSlices
    BY <1>1, GoodElements
  <2> QED BY <2>1, <1>5, <1>6, KeepsThen
<1>10. Elements(r.slices) \cup Elements(<<>>) = Elements(q)
  BY DEF Elements, q
<1> QED BY <1>8, <1>9, <1>10 DEF Extends

\* What compacting one more slice s into the list q leaves behind.
Compacts(q, s, out) ==
    /\ out \in Seq(GoodSlices)
    /\ Keeps(Elements(q) \cup {s}, Elements(out))
    /\ InOrder(q) /\ (q # <<>> => q[Len(q)].max <= s.min)
          => InOrder(out) /\ out # <<>> /\ out[Len(out)].max = s.max

LEMMA AppendOneOK ==
  ASSUME NEW q \in Seq(GoodSlices), NEW s \in GoodSlices, NEW out, out = Append(q, s)
  PROVE  Compacts(q, s, out)
<1> DEFINE one == <<s>>
<1>1. out = q \o one
  OBVIOUS
<1>2. one \in Seq(GoodSlices) /\ Len(one) = 1 /\ one[1] = s /\ 1..1 = {1}
  OBVIOUS
<1> HIDE DEF one
<1>3. Elements(one) = {s} /\ InOrder(one)
  BY <1>2 DEF Elements, InOrder
<1>4. /\ out \in Seq(GoodSlices) /\ Elements(out) = Elements(q) \cup {s}
      /\ InOrder(q) /\ (\A m \in 1..Len(q), n \in 1..Len(one) : q[m].max <= one[n].min) => InOrder(out)
  <2>1. /\ out \in Seq(GoodSlices)
        /\ Elements(out) = Elements(q) \cup Elements(one)
        /\ InOrder(q) /\ InOrder(one) /\ (\A m \in 1..Len(q), n \in 1..Len(one) : q[m].max <= one[n].min)
             => InOrder(out)
    BY <1>1, <1>2, ConcatLists
  <2> QED BY <1>3, <2>1
<1>5. Keeps(Elements(q) \cup {s}, Elements(out))
  <2>1. Elements(q) \cup {s} \in SUBSET GoodSlices
    BY GoodElements
  <2> QED BY <1>4, <2>1, KeepsSame
<1>6. out # <<>> /\ out[Len(out)] = s
  <2>1. Len(out) = Len(q) + 1 /\ out[Len(q) + 1] = s
    OBVIOUS
  <2>2. Len(q) \in Nat
    OBVIOUS
  <2> QED BY <2>1, <2>2
<1>7. ASSUME InOrder(q), q # <<>> => q[Len(q)].max <= s.min PROVE InOrder(out)
  <2> SUFFICES ASSUME NEW m \in 1..Len(q) PROVE q[m].max <= s.min
    BY <1>2, <1>4, <1>7
  <2>1. Len(q) \in Nat /\ Len(q) \in 1..Len(q) /\ q # <<>>
    OBVIOUS
  <2>2. q[Len(q)].max <= s.min
    BY <1>7, <2>1
  <2>3. CASE m = Len(q)
    BY <2>2, <2>3
  <2>4. CASE m < Len(q)
    <3>1. q[m].max <= q[Len(q)].min
      BY <1>7, <2>1, <2>4 DEF InOrder
    <3>2. q[m] \in GoodSlices /\ q[Len(q)] \in GoodSlices
      BY <2>1, GoodElements
    <3>3. /\ q[m].max \in Nat /\ q[Len(q)].min \in Nat /\ q[Len(q)].max \in Nat /\ s.min \in Nat
          /\ q[Len(q)].min <= q[Len(q)].max
      BY <3>2, SliceFields
    <3> QED BY <2>2, <3>1, <3>3
  <2> QED BY <2>1, <2>3, <2>4
<1> QED BY <1>4, <1>5, <1>6, <1>7 DEF Compacts

LEMMA CompactOneOK ==
  ASSUME NEW q \in Seq(GoodSlices), q # <<>>, NEW s \in GoodSlices,
         NEW out, out = ReplaceAt(q, Len(q), CompactWithSlice(Last(q), s))
  PROVE  Compacts(q, s, out)
<1> DEFINE l == q[Len(q)]
           x == CompactWithSlice(l, s)
           f == Front(q)
<1>1. Len(q) \in 1..Len(q) /\ Len(q) \in Nat /\ Last(q) = l /\ l \in GoodSlices
  <2> DEFINE T == GoodSlices
  <2>1. q \in Seq(T)
    OBVIOUS
  <2> HIDE DEF T
  <2>2. Len(q) \in 1..Len(q) /\ Last(q) = l /\ Last(q) \in T
    BY <2>1, FrontLast
  <2> QED BY <2>2 DEF T
<1>2. out = ReplaceAt(q, Len(q), x)
  BY <1>1
<1> HIDE DEF l
<1>3. /\ l.min \in Nat /\ l.max \in Nat /\ l.min <= l.max /\ l.predicate \in SUBSET Universal
      /\ s.min \in Nat /\ s.max \in Nat /\ s.min <= s.max /\ s.predicate \in SUBSET Universal
  BY <1>1, SliceFields
<1>4. Joins(l, s, MinOf(l.min, s.min), MaxOf(l.max, s.max), l.predicate \cup s.predicate, x)
  <2> DEFINE lo == MinOf(l.min, s.min)
             hi == MaxOf(l.max, s.max)
             P == l.predicate \cup s.predicate
  <2>1. /\ lo \in Nat /\ hi \in Nat
        /\ lo = l.min \/ lo = s.min
        /\ hi = l.max \/ hi = s.max
        /\ lo <= l.min /\ lo <= s.min /\ l.max <= hi /\ s.max <= hi
    BY <1>3 DEF MinOf, MaxOf
  <2>2. P \in SUBSET Universal /\ l.predicate \subseteq P /\ s.predicate \subseteq P
    BY <1>3
  <2>3. x = Join(l, s, NewScope(lo, hi, P))
    BY DEF CompactWithSlice
  <2> HIDE DEF lo, hi, P, x
  <2>4. Joins(l, s, lo, hi, P, x)
    BY <1>1, <2>1, <2>2, <2>3, JoinOK
  <2> QED BY <2>4 DEF lo, hi, P
<1> HIDE DEF x
<1>5. /\ x \in GoodSlices /\ x.min = MinOf(l.min, s.min) /\ x.max = MaxOf(l.max, s.max)
      /\ Keeps({l, s}, {x})
  BY <1>4 DEF Joins
<1>6. /\ out \in Seq(GoodSlices) /\ Len(out) = Len(q) /\ out[Len(q)] = x
      /\ \A n \in 1..Len(q) : n # Len(q) => out[n] = q[n]
  <2> DEFINE T == GoodSlices
  <2>1. q \in Seq(T) /\ x \in T
    BY <1>5
  <2> HIDE DEF T
  <2> DEFINE r == [q EXCEPT ![Len(q)] = x]
  <2>2. q \in [1..Len(q) -> T] /\ Len(q) \in Nat
    BY <2>1
  <2>3. r \in [1..Len(q) -> T] /\ r[Len(q)] = x /\ \A n \in 1..Len(q) : n # Len(q) => r[n] = q[n]
    BY <1>1, <2>1, <2>2
  <2>4. out = r
    BY <1>2 DEF ReplaceAt
  <2> HIDE DEF r
  <2>5. r \in Seq(T) /\ Len(r) = Len(q)
    BY <2>2, <2>3, FunctionIsSeq
  <2> QED BY <2>3, <2>4, <2>5 DEF T
<1>7. Keeps(Elements(q) \cup {s}, Elements(out))
  <2> DEFINE F == {q[n] : n \in 1..Len(q) - 1}
  <2>1. Elements(q) = F \cup {l}
    <3>1. \A n \in 1..Len(q) : n \in 1..Len(q) - 1 \/ n = Len(q)
      BY <1>1
    <3>2. \A n \in 1..Len(q) - 1 : n \in 1..Len(q)
      BY <1>1
    <3> QED BY <1>1, <3>1, <3>2 DEF Elements, l
  <2>2. Elements(out) = F \cup {x}
    <3>1. \A n \in 1..Len(q) : (n \in 1..Len(q) - 1 /\ out[n] = q[n]) \/ (n = Len(q) /\ out[n] = x)
      BY <1>1, <1>6
    <3>2. \A n \in 1..Len(q) - 1 : n \in 1..Len(q) /\ out[n] = q[n]
      BY <1>1, <1>6
    <3> QED BY <1>1, <1>6, <3>1, <3>2 DEF Elements
  <2>3. F \in SUBSET GoodSlices
    BY <2>1, GoodElements
  <2> HIDE DEF F
  <2>4. Keeps(F, F)
    BY <2>3, KeepsSame
  <2>5. Keeps(F \cup {l, s}, F \cup {x})
    BY <1>5, <2>4, KeepsBoth
  <2>6. F \cup {l, s} = Elements(q) \cup {s}
    BY <2>1
  <2> QED BY <2>2, <2>5, <2>6
<1>8. ASSUME InOrder(q), q # <<>> => l.max <= s.min
      PROVE  InOrder(out) /\ out # <<>> /\ out[Len(out)].max = s.max
  <2>1. l.max <= s.min
    BY <1>8
  <2>2. x.min = l.min /\ x.max = s.max
    BY <1>3, <1>5, <2>1 DEF MinOf, MaxOf
  <2>3. ASSUME NEW m \in 1..Len(q), NEW n \in 1..Len(q), m < n PROVE out[m].max <= out[n].min
    <3>1. q[m].max <= q[n].min
      BY <1>8, <2>3 DEF InOrder
    <3>2. out[m] = q[m]
      BY <1>1, <1>6, <2>3
    <3>3. n = Len(q) => out[n].min = q[n].min
      BY <1>6, <2>2 DEF l
    <3>4. n # Len(q) => out[n] = q[n]
      BY <1>6
    <3> QED BY <3>1, <3>2, <3>3, <3>4
  <2>4. InOrder(out)
    BY <1>6, <2>3 DEF InOrder
  <2>5. out # <<>>
    BY <1>1, <1>6
  <2> QED BY <1>6, <2>2, <2>4, <2>5
<1> QED BY <1>6, <1>7, <1>8 DEF Compacts, l

\* The lists that come of compacting one slice after the other.
CompactOne(q, s, joined) ==
    IF q = <<>> \/ ~joined THEN Append(q, s)
    ELSE ReplaceAt(q, Len(q), CompactWithSlice(Last(q), s))

Compacting(acc, seq, chosen, out) ==
    /\ acc[0] = <<>>
    /\ \A k \in 1..Len(seq) : Compacts(acc[k - 1], seq[k], acc[k])
    /\ acc[Len(seq)] = out

\* One step of CompactSlices appends a slice or joins it with the last one.
LEMMA CompactOneStep ==
  ASSUME NEW q \in Seq(GoodSlices), NEW s \in GoodSlices, NEW joined, NEW out, out = CompactOne(q, s, joined)
  PROVE  Compacts(q, s, out)
<1>1. CASE q = <<>> \/ ~joined
  BY <1>1, AppendOneOK DEF CompactOne
<1>2. CASE ~(q = <<>> \/ ~joined)
  BY <1>2, CompactOneOK DEF CompactOne
<1> QED BY <1>1, <1>2

LEMMA CompactingSlices ==
  ASSUME NEW r, r.slices \in Seq(GoodSlices), NEW chosen
  PROVE  \E q, acc : CompactSlices(r, chosen) = ResetReader(q) /\ Compacting(acc, r.slices, chosen, q)
<1> DEFINE seq == r.slices
           n == Len(seq)
           A == Seq(GoodSlices)
           b == <<>>
           idx == [i \in DOMAIN seq |-> i]
           Op(q, k) == IF q = <<>> \/ k \notin chosen THEN Append(q, seq[k])
                       ELSE ReplaceAt(q, Len(q), CompactWithSlice(Last(q), seq[k]))
           q0 == FoldLeft(LAMBDA q, k : Op(q, k), <<>>, idx)
           h == [x \in (1..n) \X A |-> Op(x[2], x[1])]
           Rec(c) == c = [s \in SUBSET (1..n) |-> IF s = {} THEN b ELSE Op(c[s \ {Max(s)}], idx[Max(s)])]
           c == CHOOSE c : Rec(c)
<1>0. CompactSlices(r, chosen) = ResetReader(q0)
  BY DEF CompactSlices, FoldLeftDomain
<1>1. b \in A /\ n \in Nat /\ DOMAIN seq = 1..n /\ \A k \in 1..n : seq[k] \in GoodSlices
  OBVIOUS
<1>2. Len(idx) = n /\ DOMAIN idx = 1..n /\ \A k \in 1..n : idx[k] = k
  BY <1>1
<1> HIDE DEF n
<1>3. q0 = c[1..n]
  <2> HIDE DEF idx
  <2> QED BY <1>2 DEF FoldLeft, MapThenFoldSet
<1> HIDE DEF idx, q0
<1>4. \A a \in A : \A k \in 1..n : Compacts(a, seq[k], Op(a, k)) /\ Op(a, k) \in A
  <2> SUFFICES ASSUME NEW a \in A, NEW k \in 1..n PROVE Compacts(a, seq[k], Op(a, k))
    BY DEF Compacts
  <2>1. Op(a, k) = CompactOne(a, seq[k], k \in chosen)
    BY DEF CompactOne
  <2>2. a \in Seq(GoodSlices) /\ seq[k] \in GoodSlices
    BY <1>1
  <2> HIDE DEF Op, seq
  <2> QED BY <2>1, <2>2, CompactOneStep
<1> HIDE DEF Op
<1>5. h \in [(1..n) \X A -> A]
  BY <1>4
<1>6. \A k \in 1..n : \A a \in A : h[<<k, a>>] = Op(a, k)
  OBVIOUS
<1>7. PICK f : Folding(f, n, b, h) /\ f \in [SUBSET (1..n) -> A]
  <2> HIDE DEF A, b, h
  <2> QED BY <1>1, <1>5, FoldExists
<1>8. Rec(f)
  <2>1. f = [s \in SUBSET (1..n) |-> IF s = {} THEN b ELSE h[<<Max(s), f[s \ {Max(s)}]>>]]
    BY <1>7 DEF Folding
  <2>2. ASSUME NEW s \in SUBSET (1..n), s # {}
        PROVE  h[<<Max(s), f[s \ {Max(s)}]>>] = Op(f[s \ {Max(s)}], idx[Max(s)])
    <3>1. Max(s) \in 1..n /\ s \ {Max(s)} \in SUBSET (1..n)
      BY <1>1, <2>2, GreatestPlace
    <3>2. f[s \ {Max(s)}] \in A /\ idx[Max(s)] = Max(s)
      BY <3>1, <1>2, <1>7
    <3> HIDE DEF h, A
    <3> QED BY <3>1, <3>2, <1>6
  <2> HIDE DEF h, b
  <2> QED BY <2>1, <2>2
<1>9. Rec(c)
  <2> HIDE DEF Rec
  <2> QED BY <1>8
<1> HIDE DEF c, h
<1>10. \A s \in SUBSET (1..n) : c[s] = IF s = {} THEN b ELSE Op(c[s \ {Max(s)}], idx[Max(s)])
  BY <1>9
<1>11. c[1..0] = <<>>
  <2>1. 1..0 = {} /\ {} \in SUBSET (1..n)
    OBVIOUS
  <2> QED BY <1>10, <2>1
<1>12. ASSUME NEW k \in 1..n PROVE c[1..k] = Op(c[1..k - 1], k)
  <2>1. 1..k \in SUBSET (1..n) /\ 1..k # {} /\ Max(1..k) = k /\ (1..k) \ {k} = 1..k - 1
    BY <1>1, GreatestUpTo
  <2> DEFINE K == 1..k
  <2>2. c[K] = Op(c[K \ {Max(K)}], idx[Max(K)])
    <3>1. K \in SUBSET (1..n) /\ K # {}
      BY <2>1
    <3> HIDE DEF K
    <3> QED BY <1>10, <3>1
  <2>3. Max(K) = k /\ K \ {Max(K)} = 1..k - 1 /\ idx[k] = k
    BY <1>2, <2>1
  <2> HIDE DEF K
  <2>4. c[K] = Op(c[1..k - 1], k)
    BY <2>2, <2>3
  <2> QED BY <2>4 DEF K
<1> DEFINE S == {k \in 0..n : c[1..k] \in A}
<1>13. 0 \in S
  <2>1. 0 \in 0..n
    BY <1>1
  <2>2. c[1..0] \in A
    BY <1>11
  <2> HIDE DEF A
  <2> QED BY <2>1, <2>2
<1>14. ASSUME NEW k \in 0..n - 1, k \in S PROVE k + 1 \in S
  <2>1. k + 1 \in 1..n /\ k + 1 \in 0..n /\ (k + 1) - 1 = k
    BY <1>1
  <2>2. c[1..k + 1] = Op(c[1..k], k + 1)
    BY <1>12, <2>1
  <2>3. c[1..k] \in A
    BY <1>14
  <2> HIDE DEF A
  <2> QED BY <1>4, <2>1, <2>2, <2>3
<1>15. \A k \in 0..n : k \in S
  <2> HIDE DEF S
  <2> QED BY <1>1, <1>13, <1>14, UpTo
<1> DEFINE acc == [k \in 0..n |-> c[1..k]]
<1>16. /\ acc[0] = <<>> /\ acc[n] = c[1..n]
       /\ \A k \in 1..n : acc[k - 1] \in A /\ acc[k] = Op(acc[k - 1], k)
  <2>1. \A k \in 1..n : k \in 0..n /\ k - 1 \in 0..n
    BY <1>1
  <2>2. 0 \in 0..n /\ n \in 0..n
    BY <1>1
  <2> HIDE DEF A
  <2> QED BY <1>11, <1>12, <1>15, <2>1, <2>2
<1> HIDE DEF acc
<1>17. \A k \in 1..n : Compacts(acc[k - 1], seq[k], acc[k])
  <2> HIDE DEF A
  <2> QED BY <1>4, <1>16
<1>18. Compacting(acc, seq, chosen, q0)
  BY <1>3, <1>16, <1>17 DEF Compacting, n
<1> QED BY <1>0, <1>18

LEMMA CompactSlicesOK ==
  ASSUME NEW r \in GoodReaders, NEW chosen, NEW out, out = CompactSlices(r, chosen)
  PROVE  Extends(r, <<>>, out)
<1> DEFINE seq == r.slices
           n == Len(seq)
<1>1. /\ seq \in Seq(GoodSlices) /\ InOrder(seq) /\ n \in Nat
      /\ \A k \in 1..n : seq[k] \in GoodSlices
  BY ReaderFields, GoodElements
<1>2. PICK q, acc : out = ResetReader(q) /\ Compacting(acc, seq, chosen, q)
  BY <1>1, CompactingSlices
<1> HIDE DEF seq
<1>3. /\ acc[0] = <<>> /\ acc[n] = q
      /\ \A k \in 1..n : Compacts(acc[k - 1], seq[k], acc[k])
  BY <1>2 DEF Compacting
<1> DEFINE first(k) == {seq[i] : i \in 1..k}
           Good(k) == /\ acc[k] \in Seq(GoodSlices) /\ InOrder(acc[k])
                      /\ Keeps(first(k), Elements(acc[k]))
                      /\ acc[k] # <<>> => k > 0 /\ acc[k][Len(acc[k])].max = seq[k].max
           S == {k \in 0..n : Good(k)}
<1>4. 0 \in S
  <2>1. <<>> \in Seq(GoodSlices) /\ InOrder(<<>>)
    BY DEF InOrder
  <2>2. first(0) = {} /\ Elements(<<>>) = {}
    BY DEF Elements
  <2>3. Keeps({}, {})
    BY KeepsSame
  <2>4. Good(0)
    <3> HIDE DEF first
    <3> QED BY <1>3, <2>1, <2>2, <2>3
  <2>5. 0 \in 0..n
    BY <1>1
  <2> HIDE DEF Good
  <2> QED BY <2>4, <2>5
<1>5. ASSUME NEW k \in 0..n - 1, k \in S PROVE k + 1 \in S
  <2> DEFINE s == seq[k + 1]
             old == acc[k]
             new == acc[k + 1]
  <2>1. k + 1 \in 1..n /\ k + 1 \in 0..n /\ (k + 1) - 1 = k /\ k \in Nat
    BY <1>1
  <2>2. Good(k)
    BY <1>5
  <2>3. Compacts(old, s, new)
    BY <1>3, <2>1
  <2>4. old # <<>> => old[Len(old)].max <= s.min
    <3> SUFFICES ASSUME old # <<>> PROVE old[Len(old)].max <= s.min
      OBVIOUS
    <3>1. k > 0 /\ old[Len(old)].max = seq[k].max
      BY <2>2
    <3>2. k \in 1..n /\ k < k + 1
      BY <2>1, <3>1, <1>1
    <3>3. seq[k].max <= seq[k + 1].min
      BY <1>1, <2>1, <3>2 DEF InOrder
    <3> QED BY <3>1, <3>3
  <2>5. new \in Seq(GoodSlices) /\ InOrder(new) /\ new[Len(new)].max = s.max
    BY <2>2, <2>3, <2>4 DEF Compacts
  <2>6. Keeps(first(k + 1), Elements(new))
    <3>1. first(k + 1) = first(k) \cup {s}
      <4>1. \A i \in 1..k + 1 : i = k + 1 \/ i \in 1..k
        BY <2>1
      <4>2. \A i \in 1..k : i \in 1..k + 1
        BY <2>1
      <4>3. k + 1 \in 1..k + 1
        BY <2>1
      <4> QED BY <4>1, <4>2, <4>3
    <3>2. Keeps({s}, {s})
      BY <1>1, <2>1, KeepsSame
    <3>3. Keeps(first(k), Elements(old))
      BY <2>2
    <3>4. first(k) \cup {s} \in SUBSET GoodSlices
      <4>1. \A i \in 1..k : i \in 1..n
        BY <2>1, <1>1
      <4> QED BY <4>1, <1>1, <2>1
    <3>5. Keeps(Elements(old) \cup {s}, Elements(new))
      BY <2>3 DEF Compacts
    <3> HIDE DEF first, old, s, new
    <3>6. Keeps(first(k) \cup {s}, Elements(old) \cup {s})
      BY <3>2, <3>3, KeepsBoth
    <3> QED BY <3>1, <3>4, <3>5, <3>6, KeepsThen
  <2>7. Good(k + 1)
    <3>1. k + 1 > 0
      BY <2>1
    <3> HIDE DEF first
    <3> QED BY <2>5, <2>6, <3>1
  <2> HIDE DEF Good
  <2> QED BY <2>1, <2>7
<1>6. Good(n)
  <2> HIDE DEF Good
  <2>1. \A k \in 0..n - 1 : k \in S => k + 1 \in S
    BY <1>5
  <2> HIDE DEF S
  <2>2. \A k \in 0..n : k \in S
    BY <1>1, <1>4, <2>1, UpTo
  <2>3. n \in 0..n
    BY <1>1
  <2>4. n \in S
    BY <2>2, <2>3
  <2> QED BY <2>4 DEF S
<1>7. first(n) = Elements(seq)
  BY DEF Elements
<1>8. q \in Seq(GoodSlices) /\ InOrder(q) /\ Keeps(Elements(seq), Elements(q))
  BY <1>3, <1>6, <1>7
<1>9. out \in GoodReaders /\ out.slices = q
  BY <1>2, <1>8, ResetReaderOK
<1>10. Elements(r.slices) \cup Elements(<<>>) = Elements(seq)
  BY DEF Elements, seq
<1> QED BY <1>8, <1>9, <1>10 DEF Extends

=============================================================================
