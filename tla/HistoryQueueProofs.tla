------------------------- MODULE HistoryQueueProofs -------------------------
(***************************************************************************)
(* TLAPS proofs about HistoryQueue: no task is forgotten by the readers of *)
(* a queue or by a reload, and what is deleted from the store has been     *)
(* executed and leaves nothing behind.                                     *)
(*                                                                         *)
(* The readers are ReadersOK: well-formed slices, between what has been    *)
(* deleted and what may be read, hold all tasks in between that are not    *)
(* executed.  Whatever the actions make of the readers only Evolves.  The  *)
(* states that may be saved are StateOK, and while a checkpoint runs no    *)
(* slice gets below what it has collected (CheckpointInv), so that what it *)
(* deletes is done with.                                                   *)
(***************************************************************************)
EXTENDS HistoryQueue, QueueSlicesProofs

-----------------------------------------------------------------------------
(* The readers of a queue                                                  *)

ReaderMaps == UNION {[D -> GoodReaders] : D \in SUBSET ReaderIDs}

AllSlices(rs) == UNION {Elements(rs[id].slices) : id \in DOMAIN rs}
SlicesOf(rs, id) == IF id \in DOMAIN rs THEN rs[id].slices ELSE <<>>
Elsewhere(rs, id) == UNION {Elements(rs[i].slices) : i \in DOMAIN rs \ {id}}

LEMMA MapFields ==
  ASSUME NEW rs \in ReaderMaps
  PROVE  /\ DOMAIN rs \subseteq ReaderIDs /\ rs \in [DOMAIN rs -> GoodReaders]
         /\ \A id \in DOMAIN rs : rs[id] \in GoodReaders
BY DEF ReaderMaps

LEMMA MakeMap ==
  ASSUME NEW D \in SUBSET ReaderIDs, NEW rs \in [D -> GoodReaders]
  PROVE  rs \in ReaderMaps /\ DOMAIN rs = D
BY DEF ReaderMaps

LEMMA SlicesGood ==
  ASSUME NEW rs \in ReaderMaps
  PROVE  /\ AllSlices(rs) \in SUBSET GoodSlices
         /\ \A id \in DOMAIN rs : Elements(rs[id].slices) \subseteq AllSlices(rs)
<1>1. ASSUME NEW id \in DOMAIN rs PROVE Elements(rs[id].slices) \in SUBSET GoodSlices
  <2>1. rs[id].slices \in Seq(GoodSlices)
    BY MapFields, ReaderFields
  <2> QED BY <2>1, GoodElements
<1> QED BY <1>1 DEF AllSlices

LEMMA SlicesSplit ==
  ASSUME NEW rs \in ReaderMaps, NEW id
  PROVE  /\ SlicesOf(rs, id) \in Seq(GoodSlices) /\ InOrder(SlicesOf(rs, id))
         /\ AllSlices(rs) = Elsewhere(rs, id) \cup Elements(SlicesOf(rs, id))
         /\ Elsewhere(rs, id) \in SUBSET GoodSlices
<1>1. CASE id \in DOMAIN rs
  <2>1. SlicesOf(rs, id) = rs[id].slices
    BY <1>1 DEF SlicesOf
  <2>2. SlicesOf(rs, id) \in Seq(GoodSlices) /\ InOrder(SlicesOf(rs, id))
    BY <1>1, <2>1, MapFields, ReaderFields
  <2>3. AllSlices(rs) = Elsewhere(rs, id) \cup Elements(rs[id].slices)
    BY <1>1 DEF AllSlices, Elsewhere
  <2>4. Elsewhere(rs, id) \in SUBSET GoodSlices
    BY <2>3, SlicesGood
  <2> QED BY <2>1, <2>2, <2>3, <2>4
<1>2. CASE id \notin DOMAIN rs
  <2>1. SlicesOf(rs, id) = <<>>
    BY <1>2 DEF SlicesOf
  <2>2. SlicesOf(rs, id) \in Seq(GoodSlices) /\ InOrder(SlicesOf(rs, id)) /\ Elements(SlicesOf(rs, id)) = {}
    BY <2>1 DEF InOrder, Elements
  <2>3. AllSlices(rs) = Elsewhere(rs, id)
    BY <1>2 DEF AllSlices, Elsewhere
  <2> QED BY <2>2, <2>3, SlicesGood
<1> QED BY <1>1, <1>2

\* A reader in the place of another: what becomes of its slices and of slices X that are added,
\* where slices Y are taken away.
LEMMA PutReader ==
  ASSUME NEW rs \in ReaderMaps, NEW id \in ReaderIDs, NEW r \in GoodReaders, NEW X, NEW Y,
         Keeps(Elements(SlicesOf(rs, id)) \cup X, Elements(r.slices) \cup Y),
         NEW out, out = WithReader(rs, id, r)
  PROVE  /\ out \in ReaderMaps /\ DOMAIN out = DOMAIN rs \cup {id}
         /\ Keeps(AllSlices(rs) \cup X, AllSlices(out) \cup Y)
<1>1. /\ out = [i \in DOMAIN rs \cup {id} |-> IF i = id THEN r ELSE rs[i]]
      /\ DOMAIN rs \cup {id} \in SUBSET ReaderIDs
  BY MapFields DEF WithReader
<1>2. \A i \in DOMAIN rs \cup {id} : out[i] \in GoodReaders
  BY <1>1, MapFields
<1>3. out \in ReaderMaps /\ DOMAIN out = DOMAIN rs \cup {id}
  <2>1. out \in [DOMAIN rs \cup {id} -> GoodReaders]
    BY <1>1, <1>2
  <2> QED BY <1>1, <2>1, MakeMap
<1>4. out[id] = r /\ \A i \in DOMAIN rs \ {id} : out[i] = rs[i]
  BY <1>1
<1>5. Elsewhere(out, id) = Elsewhere(rs, id)
  <2>1. DOMAIN out \ {id} = DOMAIN rs \ {id}
    BY <1>3
  <2> QED BY <1>4, <2>1 DEF Elsewhere
<1>6. SlicesOf(out, id) = r.slices
  BY <1>3, <1>4 DEF SlicesOf
<1>7. AllSlices(out) = Elsewhere(rs, id) \cup Elements(r.slices)
  BY <1>3, <1>5, <1>6, SlicesSplit
<1>8. AllSlices(rs) = Elsewhere(rs, id) \cup Elements(SlicesOf(rs, id)) /\ Elsewhere(rs, id) \in SUBSET GoodSlices
  BY SlicesSplit
<1> DEFINE E == Elsewhere(rs, id)
           V == Elements(SlicesOf(rs, id)) \cup X
           W == Elements(r.slices) \cup Y
<1>9. Keeps(E, E)
  BY <1>8, KeepsSame
<1>10. AllSlices(rs) \cup X = E \cup V /\ AllSlices(out) \cup Y = E \cup W
  BY <1>7, <1>8
<1>11. Keeps(V, W)
  OBVIOUS
<1> HIDE DEF E, V, W
<1>12. Keeps(E \cup V, E \cup W)
  BY <1>9, <1>11, KeepsBoth
<1> QED BY <1>3, <1>10, <1>12

\* The readers out have what the readers rs had.
Evolves(rs, out) == out \in ReaderMaps /\ Keeps(AllSlices(rs), AllSlices(out))

LEMMA EvolvesSame == ASSUME NEW rs \in ReaderMaps PROVE Evolves(rs, rs)
BY SlicesGood, KeepsSame DEF Evolves

\* Steps on the readers compose, and may be made for each reader apart.
LEMMA EvolvesThen ==
  ASSUME NEW rs \in ReaderMaps, NEW rt, NEW ru, Evolves(rs, rt), Evolves(rt, ru)
  PROVE  Evolves(rs, ru)
<1> DEFINE X == AllSlices(rs)
           Y == AllSlices(rt)
           Z == AllSlices(ru)
<1>1. X \in SUBSET GoodSlices /\ Keeps(X, Y) /\ Keeps(Y, Z)
  BY SlicesGood DEF Evolves
<1>2. Keeps(X, Z)
  <2> HIDE DEF X, Y, Z
  <2> QED BY <1>1, KeepsThen
<1> QED BY <1>2 DEF Evolves

\* One reader whose slices are worked on in place.
LEMMA EvolvesOne ==
  ASSUME NEW rs \in ReaderMaps, NEW id \in DOMAIN rs, NEW r, Extends(rs[id], <<>>, r)
  PROVE  Evolves(rs, WithReader(rs, id, r)) /\ DOMAIN WithReader(rs, id, r) = DOMAIN rs
<1> DEFINE out == WithReader(rs, id, r)
           none == {}
<1>1. id \in ReaderIDs /\ r \in GoodReaders
  BY MapFields DEF Extends
<1>2. Elements(<<>>) = {}
  BY DEF Elements
<1>3. Keeps(Elements(rs[id].slices) \cup none, Elements(r.slices) \cup none)
  BY <1>2 DEF Extends
<1>4. SlicesOf(rs, id) = rs[id].slices
  BY DEF SlicesOf
<1> HIDE DEF none
<1>5. /\ out \in ReaderMaps /\ DOMAIN out = DOMAIN rs \cup {id}
      /\ Keeps(AllSlices(rs) \cup none, AllSlices(out) \cup none)
  BY <1>1, <1>3, <1>4, PutReader
<1>6. Keeps(AllSlices(rs), AllSlices(out))
  BY <1>5 DEF none
<1> QED BY <1>5, <1>6 DEF Evolves

LEMMA EvolvesEach ==
  ASSUME NEW rs \in ReaderMaps, NEW out, DOMAIN out = DOMAIN rs, out = [id \in DOMAIN rs |-> out[id]],
         \A id \in DOMAIN rs : Extends(rs[id], <<>>, out[id])
  PROVE  Evolves(rs, out)
<1>1. \A id \in DOMAIN rs : out[id] \in GoodReaders /\ Keeps(Elements(rs[id].slices), Elements(out[id].slices))
  <2> SUFFICES ASSUME NEW id \in DOMAIN rs
               PROVE  out[id] \in GoodReaders /\ Keeps(Elements(rs[id].slices), Elements(out[id].slices))
    OBVIOUS
  <2>1. out[id] \in GoodReaders /\ Keeps(Elements(rs[id].slices) \cup Elements(<<>>), Elements(out[id].slices))
    BY DEF Extends
  <2>2. Elements(rs[id].slices) \cup Elements(<<>>) = Elements(rs[id].slices)
    BY DEF Elements
  <2> QED BY <2>1, <2>2
<1>2. out \in ReaderMaps
  <2>1. out \in [DOMAIN rs -> GoodReaders]
    BY <1>1
  <2> QED BY <2>1, MapFields, MakeMap
<1> DEFINE X == AllSlices(rs)
           Y == AllSlices(out)
<1>3. X \in SUBSET GoodSlices /\ Y \in SUBSET GoodSlices
  BY <1>2, SlicesGood
<1>4. \A id \in DOMAIN rs : Elements(rs[id].slices) \subseteq X /\ Elements(out[id].slices) \subseteq Y
  BY <1>2, SlicesGood
<1>5. ASSUME NEW y \in Y
      PROVE  /\ \E x \in X : x.min <= y.min
             /\ \E x \in X : y.max <= x.max
             /\ \A t \in y.pending : \E x \in X : t \in x.pending
             /\ \A t \in y.acked : \E x \in X : t \in x.acked
  <2>1. PICK id \in DOMAIN rs : y \in Elements(out[id].slices)
    BY DEF AllSlices
  <2> DEFINE E == Elements(rs[id].slices)
  <2>2. /\ \E x \in E : x.min <= y.min
        /\ \E x \in E : y.max <= x.max
        /\ \A t \in y.pending : \E x \in E : t \in x.pending
        /\ \A t \in y.acked : \E x \in E : t \in x.acked
    BY <1>1, <2>1 DEF Keeps
  <2>3. E \subseteq X
    BY <1>4
  <2> HIDE DEF E, X, Y
  <2> QED BY <2>2, <2>3
<1>6. ASSUME NEW t \in AnyTask, \A x \in X : t \notin x.acked, NEW x \in X, Holds(x, t)
      PROVE  \E y \in Y : Holds(y, t)
  <2>1. PICK id \in DOMAIN rs : x \in Elements(rs[id].slices)
    BY DEF AllSlices
  <2> DEFINE E == Elements(rs[id].slices)
             F == Elements(out[id].slices)
  <2>2. Keeps(E, F) /\ E \subseteq X /\ F \subseteq Y /\ x \in E
    BY <1>1, <1>4, <2>1
  <2> HIDE DEF E, F, X, Y
  <2>3. \A z \in E : t \notin z.acked
    BY <1>6, <2>2
  <2>4. \E y \in F : Holds(y, t)
    BY <1>6, <2>2, <2>3 DEF Keeps
  <2> QED BY <2>2, <2>4
<1>7. Keeps(X, Y)
  <2> HIDE DEF X, Y
  <2> QED BY <1>3, <1>5, <1>6 DEF Keeps
<1> QED BY <1>2, <1>7 DEF Evolves

LEMMA ShrinkAllOK == ASSUME NEW rs \in ReaderMaps PROVE Evolves(rs, ShrinkAll(rs))
<1> DEFINE out == ShrinkAll(rs)
<1>1. out = [id \in DOMAIN rs |-> ShrinkSlices(rs[id])]
  BY DEF ShrinkAll
<1> HIDE DEF out
<1>2. DOMAIN out = DOMAIN rs /\ out = [id \in DOMAIN rs |-> out[id]]
  BY <1>1
<1>3. ASSUME NEW id \in DOMAIN rs PROVE Extends(rs[id], <<>>, out[id])
  <2>1. rs[id] \in GoodReaders /\ out[id] = ShrinkSlices(rs[id])
    BY <1>1, MapFields
  <2> QED BY <2>1, ShrinkSlicesOK
<1>4. Evolves(rs, out)
  BY <1>2, <1>3, EvolvesEach
<1> QED BY <1>4 DEF out

-----------------------------------------------------------------------------
(* Slices that are split, of which some parts are moved to the next reader *)

\* Lists of slices, each list in order and in the range of a slice, where these slices are in order.
LEMMA FlattenedLists ==
  ASSUME NEW q \in Seq(GoodSlices), InOrder(q), NEW lists \in [1..Len(q) -> Seq(GoodSlices)],
         \A n \in 1..Len(q) : /\ InOrder(lists[n])
                              /\ \A x \in Elements(lists[n]) : q[n].min <= x.min /\ x.max <= q[n].max,
         NEW out, out = FlattenSeq(lists)
  PROVE  /\ out \in Seq(GoodSlices) /\ InOrder(out)
         /\ Elements(out) = UNION {Elements(lists[n]) : n \in 1..Len(q)}
<1> DEFINE N == Len(q)
<1>1. N \in Nat /\ \A n \in 1..N : q[n] \in GoodSlices
  OBVIOUS
<1>2. out \in Seq(GoodSlices) /\ \E of, at : Flattens(out, lists, N, of, at)
  <2> DEFINE T == GoodSlices
  <2>1. lists \in [1..N -> Seq(T)] /\ N \in Nat
    BY <1>1
  <2> HIDE DEF T, N
  <2>2. FlattenSeq(lists) \in Seq(T) /\ \E of, at : Flattens(FlattenSeq(lists), lists, N, of, at)
    BY <2>1, FlattenSeqFlattens
  <2> QED BY <2>2 DEF T
<1>3. PICK of, at : Flattens(out, lists, N, of, at)
  BY <1>2
<1>4. /\ \A p \in 1..Len(out) : of[p] \in 1..N /\ at[p] \in 1..Len(lists[of[p]]) /\ out[p] = lists[of[p]][at[p]]
      /\ \A n \in 1..N : \A m \in 1..Len(lists[n]) : \E p \in 1..Len(out) : of[p] = n /\ at[p] = m
      /\ \A p, r \in 1..Len(out) : p < r => of[p] < of[r] \/ (of[p] = of[r] /\ at[p] < at[r])
  BY <1>3 DEF Flattens
<1>5. \A n \in 1..N : /\ lists[n] \in Seq(GoodSlices) /\ InOrder(lists[n])
                      /\ \A x \in Elements(lists[n]) : q[n].min <= x.min /\ x.max <= q[n].max
  OBVIOUS
<1> HIDE DEF N
<1>6. ASSUME NEW p \in 1..Len(out), NEW r \in 1..Len(out), p < r PROVE out[p].max <= out[r].min
  <2> DEFINE i == of[p]
             j == of[r]
  <2>1. /\ i \in 1..N /\ j \in 1..N
        /\ at[p] \in 1..Len(lists[i]) /\ out[p] = lists[i][at[p]]
        /\ at[r] \in 1..Len(lists[j]) /\ out[r] = lists[j][at[r]]
    BY <1>4
  <2>2. i < j \/ (i = j /\ at[p] < at[r])
    BY <1>4, <1>6
  <2> HIDE DEF i, j
  <2>3. CASE i = j /\ at[p] < at[r]
    <3>1. lists[i][at[p]].max <= lists[i][at[r]].min
      BY <1>5, <2>1, <2>3 DEF InOrder
    <3> QED BY <2>1, <2>3, <3>1
  <2>4. CASE i < j
    <3>1. q[i].max <= q[j].min
      BY <2>1, <2>4 DEF InOrder, N
    <3>2. out[p] \in Elements(lists[i]) /\ out[r] \in Elements(lists[j])
      BY <2>1 DEF Elements
    <3>3. out[p].max <= q[i].max /\ q[j].min <= out[r].min
      <4>1. out[p].max <= q[i].max
        BY <1>5, <2>1, <3>2
      <4>2. q[j].min <= out[r].min
        BY <1>5, <2>1, <3>2
      <4> QED BY <4>1, <4>2
    <3>4. out[p] \in GoodSlices /\ out[r] \in GoodSlices /\ q[i] \in GoodSlices /\ q[j] \in GoodSlices
      <4>1. out[p] \in GoodSlices /\ out[r] \in GoodSlices
        BY <1>2
      <4> QED BY <1>1, <2>1, <4>1
    <3>5. out[p].max \in Nat /\ out[r].min \in Nat /\ q[i].max \in Nat /\ q[j].min \in Nat
      BY <3>4, SliceFields
    <3> QED BY <3>1, <3>3, <3>5
  <2> QED BY <2>2, <2>3, <2>4
<1>7. InOrder(out)
  BY <1>6 DEF InOrder
<1> DEFINE U == UNION {Elements(lists[n]) : n \in 1..N}
<1>8. ASSUME NEW x \in Elements(out) PROVE x \in U
  <2>1. PICK p \in 1..Len(out) : x = out[p]
    BY DEF Elements
  <2>2. of[p] \in 1..N /\ x \in Elements(lists[of[p]])
    BY <1>4, <2>1 DEF Elements
  <2> QED BY <2>2
<1>9. ASSUME NEW x \in U PROVE x \in Elements(out)
  <2>1. PICK n \in 1..N : x \in Elements(lists[n])
    OBVIOUS
  <2>2. PICK m \in 1..Len(lists[n]) : x = lists[n][m]
    BY <2>1 DEF Elements
  <2>3. PICK p \in 1..Len(out) : of[p] = n /\ at[p] = m
    BY <1>4
  <2>4. out[p] = x
    BY <1>4, <2>2, <2>3
  <2> QED BY <2>4 DEF Elements
<1>10. Elements(out) = U
  <2> HIDE DEF U
  <2> QED BY <1>8, <1>9
<1> QED BY <1>2, <1>7, <1>10 DEF N

\* What each slice of a list becomes keeps what the list holds.
LEMMA KeepsEach ==
  ASSUME NEW q \in Seq(GoodSlices), NEW W, \A n \in 1..Len(q) : Keeps({q[n]}, W[n])
  PROVE  Keeps(Elements(q), UNION {W[n] : n \in 1..Len(q)})
<1> DEFINE X == Elements(q)
           Y == UNION {W[n] : n \in 1..Len(q)}
<1>1. \A n \in 1..Len(q) : q[n] \in X /\ W[n] \subseteq Y
  BY DEF Elements
<1>2. Y \in SUBSET GoodSlices
  <2>1. \A n \in 1..Len(q) : W[n] \in SUBSET GoodSlices
    BY DEF Keeps
  <2> QED BY <2>1
<1>3. ASSUME NEW y \in Y
      PROVE  /\ \E x \in X : x.min <= y.min
             /\ \E x \in X : y.max <= x.max
             /\ \A t \in y.pending : \E x \in X : t \in x.pending
             /\ \A t \in y.acked : \E x \in X : t \in x.acked
  <2>1. PICK n \in 1..Len(q) : y \in W[n]
    OBVIOUS
  <2>2. /\ q[n].min <= y.min /\ y.max <= q[n].max
        /\ \A t \in y.pending : t \in q[n].pending
        /\ \A t \in y.acked : t \in q[n].acked
    BY <2>1 DEF Keeps
  <2> HIDE DEF X
  <2> QED BY <1>1, <2>2
<1>4. ASSUME NEW t \in AnyTask, \A x \in X : t \notin x.acked, NEW x \in X, Holds(x, t)
      PROVE  \E y \in Y : Holds(y, t)
  <2>1. PICK n \in 1..Len(q) : x = q[n]
    BY DEF Elements
  <2>2. \E y \in W[n] : Holds(y, t)
    BY <1>1, <1>4, <2>1 DEF Keeps
  <2> HIDE DEF X, Y
  <2> QED BY <1>1, <2>2
<1>5. Keeps(X, Y)
  <2> HIDE DEF X, Y
  <2> QED BY <1>2, <1>3, <1>4 DEF Keeps
<1> QED BY <1>5

\* What remains of a slice, and what is moved.
PartOK(s, p) ==
    /\ p[1] \in Seq(GoodSlices) /\ InOrder(p[1])
    /\ p[2] \in Seq(GoodSlices) /\ InOrder(p[2])
    /\ Keeps({s}, Elements(p[1]) \cup Elements(p[2]))

\* The parts, lists of what remains and of what is moved.
LEMMA PartsOK ==
  ASSUME NEW q \in Seq(GoodSlices), InOrder(q), NEW parts, DOMAIN parts = 1..Len(q),
         \A n \in 1..Len(q) : PartOK(q[n], parts[n]),
         NEW remain, remain = FlattenSeq([n \in DOMAIN parts |-> parts[n][1]]),
         NEW moved, moved = FlattenSeq([n \in DOMAIN parts |-> parts[n][2]])
  PROVE  /\ remain \in Seq(GoodSlices) /\ InOrder(remain)
         /\ moved \in Seq(GoodSlices) /\ InOrder(moved)
         /\ Keeps(Elements(q), Elements(remain) \cup Elements(moved))
<1> DEFINE one == [n \in 1..Len(q) |-> parts[n][1]]
           two == [n \in 1..Len(q) |-> parts[n][2]]
           W == [n \in 1..Len(q) |-> Elements(one[n]) \cup Elements(two[n])]
<1>1. remain = FlattenSeq(one) /\ moved = FlattenSeq(two)
  OBVIOUS
<1>2. \A n \in 1..Len(q) : one[n] = parts[n][1] /\ two[n] = parts[n][2]
                        /\ W[n] = Elements(one[n]) \cup Elements(two[n])
  OBVIOUS
<1>3. one \in [1..Len(q) -> Seq(GoodSlices)] /\ two \in [1..Len(q) -> Seq(GoodSlices)]
  BY DEF PartOK
<1> HIDE DEF one, two, W
<1>4. ASSUME NEW n \in 1..Len(q)
      PROVE  /\ InOrder(one[n]) /\ InOrder(two[n])
             /\ Keeps({q[n]}, W[n])
             /\ \A x \in Elements(one[n]) : q[n].min <= x.min /\ x.max <= q[n].max
             /\ \A x \in Elements(two[n]) : q[n].min <= x.min /\ x.max <= q[n].max
  <2>1. /\ InOrder(one[n]) /\ InOrder(two[n])
        /\ Keeps({q[n]}, W[n])
    BY <1>2 DEF PartOK
  <2>2. \A x \in W[n] : q[n].min <= x.min /\ x.max <= q[n].max
    BY <2>1 DEF Keeps
  <2> QED BY <1>2, <2>1, <2>2
<1>5. /\ remain \in Seq(GoodSlices) /\ InOrder(remain)
      /\ Elements(remain) = UNION {Elements(one[n]) : n \in 1..Len(q)}
  BY <1>1, <1>3, <1>4, FlattenedLists
<1>6. /\ moved \in Seq(GoodSlices) /\ InOrder(moved)
      /\ Elements(moved) = UNION {Elements(two[n]) : n \in 1..Len(q)}
  BY <1>1, <1>3, <1>4, FlattenedLists
<1>7. UNION {W[n] : n \in 1..Len(q)} = Elements(remain) \cup Elements(moved)
  <2> DEFINE U == UNION {W[n] : n \in 1..Len(q)}
             U1 == UNION {Elements(one[n]) : n \in 1..Len(q)}
             U2 == UNION {Elements(two[n]) : n \in 1..Len(q)}
  <2>1. ASSUME NEW x \in U PROVE x \in U1 \/ x \in U2
    <3>1. PICK n \in 1..Len(q) : x \in W[n]
      OBVIOUS
    <3>2. x \in Elements(one[n]) \/ x \in Elements(two[n])
      BY <1>2, <3>1
    <3> QED BY <3>2
  <2>2. ASSUME NEW n \in 1..Len(q), NEW x \in Elements(one[n]) \cup Elements(two[n]) PROVE x \in U
    <3>1. x \in W[n]
      BY <1>2
    <3> QED BY <3>1
  <2>3. \A x \in U1 : x \in U
    BY <2>2
  <2>4. \A x \in U2 : x \in U
    BY <2>2
  <2> HIDE DEF U, U1, U2
  <2>5. U = U1 \cup U2
    BY <2>1, <2>3, <2>4
  <2> QED BY <1>5, <1>6, <2>5 DEF U, U1, U2
<1>8. Keeps(Elements(q), UNION {W[n] : n \in 1..Len(q)})
  BY <1>4, KeepsEach
<1> QED BY <1>5, <1>6, <1>7, <1>8

LEMMA NewReaderOK ==
  ASSUME NEW q \in Seq(GoodSlices), InOrder(q)
  PROVE  NewReader(q) \in GoodReaders /\ NewReader(q).slices = q
<1>1. (IF q = <<>> THEN 0 ELSE 1) \in {Removed, 0} \cup 1..Len(q)
  OBVIOUS
<1> QED BY <1>1, MakeReader DEF NewReader

\* Splitting the slices of a reader and merging a part into the next reader loses nothing.
LEMMA SplitAndMoveOK ==
  ASSUME NEW rs \in ReaderMaps, NEW id \in DOMAIN rs, id + 1 \in ReaderIDs,
         NEW parts, DOMAIN parts = 1..Len(rs[id].slices),
         \A n \in 1..Len(rs[id].slices) : PartOK(rs[id].slices[n], parts[n]),
         NEW out, out = SplitAndMove(rs, id, parts)
  PROVE  Evolves(rs, out) /\ DOMAIN rs \subseteq DOMAIN out
<1> DEFINE q == rs[id].slices
           remain == FlattenSeq([n \in DOMAIN parts |-> parts[n][1]])
           moved == FlattenSeq([n \in DOMAIN parts |-> parts[n][2]])
           kept == ResetReader(remain)
           rest == WithReader(rs, id, kept)
           next == GetOrCreateReader(rest, id + 1)
           more == MergeSlices(next, moved)
           both == WithReader(rest, id + 1, more)
<1>1. id \in ReaderIDs /\ q \in Seq(GoodSlices) /\ InOrder(q)
  BY MapFields, ReaderFields
<1>2. out = IF moved = <<>> THEN rest ELSE both
  BY DEF SplitAndMove
<1>3. /\ remain \in Seq(GoodSlices) /\ InOrder(remain)
      /\ moved \in Seq(GoodSlices) /\ InOrder(moved)
      /\ Keeps(Elements(q), Elements(remain) \cup Elements(moved))
  <2>1. DOMAIN parts = 1..Len(q) /\ \A n \in 1..Len(q) : PartOK(q[n], parts[n])
    OBVIOUS
  <2> HIDE DEF q
  <2> QED BY <1>1, <2>1, PartsOK
<1> HIDE DEF remain, moved
<1>4. kept \in GoodReaders /\ kept.slices = remain
  BY <1>3, ResetReaderOK
<1> DEFINE X == {}
           Y == Elements(moved)
<1>5. Keeps(Elements(SlicesOf(rs, id)) \cup X, Elements(kept.slices) \cup Y)
  <2>1. Elements(SlicesOf(rs, id)) \cup X = Elements(q)
    BY DEF SlicesOf
  <2> QED BY <1>3, <1>4, <2>1
<1>6. /\ rest \in ReaderMaps /\ DOMAIN rest = DOMAIN rs \cup {id}
      /\ Keeps(AllSlices(rs) \cup X, AllSlices(rest) \cup Y)
  <2> HIDE DEF X, Y, kept
  <2> QED BY <1>1, <1>4, <1>5, PutReader
<1>7. DOMAIN rest = DOMAIN rs /\ Keeps(AllSlices(rs), AllSlices(rest) \cup Elements(moved))
  BY <1>6
<1> HIDE DEF rest
<1>8. CASE moved = <<>>
  <2>1. AllSlices(rest) \cup Elements(moved) = AllSlices(rest)
    BY <1>8 DEF Elements
  <2> QED BY <1>2, <1>6, <1>7, <1>8, <2>1 DEF Evolves
<1>9. CASE moved # <<>>
  <2>1. next \in GoodReaders /\ next.slices = SlicesOf(rest, id + 1)
    <3>1. CASE id + 1 \in DOMAIN rest
      BY <1>6, <3>1, MapFields DEF GetOrCreateReader, SlicesOf
    <3>2. CASE id + 1 \notin DOMAIN rest
      <4>1. next = NewReader(<<>>) /\ SlicesOf(rest, id + 1) = <<>>
        BY <3>2 DEF GetOrCreateReader, SlicesOf
      <4>2. <<>> \in Seq(GoodSlices) /\ InOrder(<<>>)
        BY DEF InOrder
      <4> QED BY <4>1, <4>2, NewReaderOK
    <3> QED BY <3>1, <3>2
  <2> HIDE DEF next
  <2>2. more \in GoodReaders /\ Keeps(Elements(SlicesOf(rest, id + 1)) \cup Elements(moved), Elements(more.slices))
    BY <1>3, <2>1, MergeSlicesOK DEF Extends
  <2> HIDE DEF more
  <2> DEFINE V == Elements(moved)
             Z == {}
             up == id + 1
  <2>3. Keeps(Elements(SlicesOf(rest, up)) \cup V, Elements(more.slices) \cup Z) /\ up \in ReaderIDs
        /\ both = WithReader(rest, up, more)
    BY <2>2
  <2>4. /\ both \in ReaderMaps /\ DOMAIN both = DOMAIN rest \cup {up}
        /\ Keeps(AllSlices(rest) \cup V, AllSlices(both) \cup Z)
    <3>1. rest \in ReaderMaps
      BY <1>6
    <3>2. more \in GoodReaders
      BY <2>2
    <3> HIDE DEF V, Z, up, both
    <3> QED BY <2>3, <3>1, <3>2, PutReader
  <2>5. Keeps(AllSlices(rest) \cup V, AllSlices(both))
    BY <2>4
  <2>6. Keeps(AllSlices(rs), AllSlices(both))
    <3> DEFINE P == AllSlices(rs)
               Q == AllSlices(rest) \cup V
               R == AllSlices(both)
    <3>1. P \in SUBSET GoodSlices /\ Keeps(P, Q) /\ Keeps(Q, R)
      BY <1>7, <2>5, SlicesGood
    <3> HIDE DEF P, Q, R
    <3>2. Keeps(P, R)
      BY <3>1, KeepsThen
    <3> QED BY <3>2 DEF P, R
  <2> QED BY <1>2, <1>7, <1>9, <2>4, <2>6 DEF Evolves
<1> QED BY <1>8, <1>9

LEMMA OneSlice ==
  ASSUME NEW s \in GoodSlices
  PROVE  <<s>> \in Seq(GoodSlices) /\ InOrder(<<s>>) /\ Elements(<<s>>) = {s}
<1> DEFINE one == <<s>>
<1>1. one \in Seq(GoodSlices) /\ Len(one) = 1 /\ one[1] = s /\ 1..1 = {1}
  OBVIOUS
<1> HIDE DEF one
<1>2. InOrder(one) /\ Elements(one) = {s}
  BY <1>1 DEF InOrder, Elements
<1> QED BY <1>1, <1>2 DEF one

LEMMA NoSlice == <<>> \in Seq(GoodSlices) /\ InOrder(<<>>) /\ Elements(<<>>) = {}
BY DEF InOrder, Elements

LEMMA OneIfAny ==
  ASSUME NEW s \in GoodSlices, NEW out, out = NonEmpty(<<s>>)
  PROVE  out \in Seq(GoodSlices) /\ InOrder(out) /\ Keeps({s}, Elements(out))
<1> DEFINE one == <<s>>
<1>1. one \in Seq(GoodSlices) /\ InOrder(one) /\ Elements(one) = {s} /\ out = NonEmpty(one)
  BY OneSlice
<1> HIDE DEF one
<1>2. /\ out \in Seq(GoodSlices) /\ (InOrder(one) => InOrder(out))
      /\ Keeps(Elements(one), Elements(out))
  BY <1>1, NonEmptyOK
<1> QED BY <1>1, <1>2

LEMMA MakePart ==
  ASSUME NEW s, NEW a \in Seq(GoodSlices), InOrder(a), NEW b \in Seq(GoodSlices), InOrder(b),
         Keeps({s}, Elements(a) \cup Elements(b)), NEW p, p = <<a, b>>
  PROVE  PartOK(s, p)
BY DEF PartOK

\* The parts of a slice that the actions make: what remains, and what is moved.
LEMMA UnsplitOK == ASSUME NEW s \in GoodSlices PROVE PartOK(s, Unsplit(s))
<1> DEFINE a == <<s>>
           b == <<>>
           p == <<a, b>>
<1>1. a \in Seq(GoodSlices) /\ InOrder(a) /\ Elements(a) = {s}
  BY OneSlice
<1>2. b \in Seq(GoodSlices) /\ InOrder(b) /\ Elements(b) = {}
  BY NoSlice
<1>3. Keeps({s}, {s})
  BY KeepsSame
<1>4. Unsplit(s) = p
  BY DEF Unsplit
<1> HIDE DEF a, b
<1>5. Keeps({s}, Elements(a) \cup Elements(b))
  BY <1>1, <1>2, <1>3
<1>6. p = <<a, b>>
  OBVIOUS
<1> HIDE DEF p
<1>7. PartOK(s, p)
  BY <1>1, <1>2, <1>5, <1>6, MakePart
<1> QED BY <1>4, <1>7

LEMMA MovedWhole == ASSUME NEW s \in GoodSlices PROVE PartOK(s, << <<>>, <<s>> >>)
<1> DEFINE b == <<s>>
           a == <<>>
           p == <<a, b>>
<1>1. b \in Seq(GoodSlices) /\ InOrder(b) /\ Elements(b) = {s}
  BY OneSlice
<1>2. a \in Seq(GoodSlices) /\ InOrder(a) /\ Elements(a) = {}
  BY NoSlice
<1>3. Keeps({s}, {s})
  BY KeepsSame
<1> HIDE DEF a, b
<1>5. Keeps({s}, Elements(a) \cup Elements(b))
  BY <1>1, <1>2, <1>3
<1>6. p = <<a, b>>
  OBVIOUS
<1> HIDE DEF p
<1>7. PartOK(s, p)
  BY <1>1, <1>2, <1>5, <1>6, MakePart
<1> QED BY <1>7 DEF p, a, b

\* The tasks of some groups are moved, or cleared and moved.
LEMMA GroupsPartOK ==
  ASSUME NEW s \in GoodSlices, NEW P, NEW x, x = SplitByPredicate(s, P)
  PROVE  /\ PartOK(s, << NonEmpty(<<x[2]>>), <<x[1]>> >>)
         /\ PartOK(s, << NonEmpty(<<x[2]>>), <<Clear(x[1])>> >>)
<1>1. x[1] \in GoodSlices /\ x[2] \in GoodSlices /\ Keeps({s}, {x[1], x[2]})
  BY SplitByPredicateOK
<1>2. ASSUME NEW y \in GoodSlices, Keeps({x[1]}, {y})
      PROVE  PartOK(s, << NonEmpty(<<x[2]>>), <<y>> >>)
  <2> DEFINE a == NonEmpty(<<x[2]>>)
             b == <<y>>
             u == x[1]
             v == x[2]
             p == <<a, b>>
  <2>1. a \in Seq(GoodSlices) /\ InOrder(a) /\ Keeps({v}, Elements(a))
    BY <1>1, OneIfAny
  <2>2. b \in Seq(GoodSlices) /\ InOrder(b) /\ Elements(b) = {y}
    BY OneSlice
  <2>3. Keeps({u}, {y}) /\ Keeps({s}, {u, v}) /\ {s} \in SUBSET GoodSlices
    BY <1>1, <1>2
  <2>4. p = <<a, b>>
    OBVIOUS
  <2> HIDE DEF a, b, u, v, p
  <2>5. Keeps({v} \cup {u}, Elements(a) \cup Elements(b))
    BY <2>1, <2>2, <2>3, KeepsBoth
  <2>6. {v} \cup {u} = {u, v}
    OBVIOUS
  <2> DEFINE S == {s}
             T == {u, v}
             U == Elements(a) \cup Elements(b)
  <2>7. Keeps(S, T) /\ Keeps(T, U) /\ S \in SUBSET GoodSlices
    BY <2>3, <2>5, <2>6
  <2> HIDE DEF S, T, U
  <2>8. Keeps(S, U)
    BY <2>7, KeepsThen
  <2>9. PartOK(s, p)
    BY <2>1, <2>2, <2>4, <2>8, MakePart DEF S, U
  <2> QED BY <2>9 DEF p, a, b
<1>3. Keeps({x[1]}, {x[1]})
  BY <1>1, KeepsSame
<1>4. Clear(x[1]) \in GoodSlices /\ Keeps({x[1]}, {Clear(x[1])})
  BY <1>1, ClearOK
<1> QED BY <1>1, <1>2, <1>3, <1>4

LEMMA SplitHere ==
  ASSUME NEW s \in GoodSlices, NEW key \in Nat, CanSplit(s, key), NEW x, x = SplitByRange(s, key)
  PROVE  SplitsAt(s, key, x)
<1>1. s.min \in Nat /\ s.max \in Nat /\ s.min <= s.max
  BY SliceFields
<1>2. s.min <= key /\ key <= s.max
  BY <1>1 DEF CanSplit, ContainsKey
<1> QED BY <1>2, SplitByRangeOK

\* The tasks of a range are moved: what remains is below and above it.
LEMMA StuckPartOK ==
  ASSUME NEW s \in GoodSlices, NEW range, range.min \in Nat, range.max \in Nat, range.min <= range.max
  PROVE  PartOK(s, StuckSplitter(s, range))
<1> DEFINE lo == range.min
           hi == range.max
           atMin == IF CanSplit(s, lo) THEN SplitByRange(s, lo) ELSE <<>>
           above == IF atMin = <<>> THEN s ELSE atMin[2]
           atMax == IF CanSplit(above, hi) THEN SplitByRange(above, hi) ELSE <<>>
           stuck == IF atMax = <<>> THEN above ELSE atMax[1]
           remain == (IF atMin = <<>> THEN <<>> ELSE <<atMin[1]>>) \o
                     (IF atMax = <<>> THEN <<>> ELSE <<atMax[2]>>)
           some == NonEmpty(remain)
           out == IF lo <= s.min /\ s.max <= hi THEN << <<>>, <<s>> >>
                  ELSE IF remain = <<>> THEN Unsplit(s)
                  ELSE << some, <<stuck>> >>
<1>0. StuckSplitter(s, range) = out
  BY DEF StuckSplitter
<1>1. /\ CanSplit(s, lo) => SplitsAt(s, lo, atMin) /\ atMin # <<>> /\ above = atMin[2]
      /\ ~CanSplit(s, lo) => atMin = <<>> /\ above = s
  <2>1. CASE CanSplit(s, lo)
    <3>1. atMin = SplitByRange(s, lo)
      BY <2>1
    <3>2. atMin # <<>>
      BY <3>1 DEF SplitByRange
    <3>3. SplitsAt(s, lo, atMin)
      <4> HIDE DEF atMin
      <4> QED BY <2>1, <3>1, SplitHere
    <3> QED BY <2>1, <3>2, <3>3
  <2>2. CASE ~CanSplit(s, lo)
    BY <2>2
  <2> QED BY <2>1, <2>2
<1> HIDE DEF atMin
<1>2. above \in GoodSlices
  BY <1>1 DEF SplitsAt
<1> HIDE DEF above
<1>3. /\ CanSplit(above, hi) => SplitsAt(above, hi, atMax) /\ atMax # <<>> /\ stuck = atMax[1]
      /\ ~CanSplit(above, hi) => atMax = <<>> /\ stuck = above
  <2>1. CASE CanSplit(above, hi)
    <3>1. atMax = SplitByRange(above, hi)
      BY <2>1
    <3>2. atMax # <<>>
      BY <3>1 DEF SplitByRange
    <3>3. SplitsAt(above, hi, atMax)
      <4> HIDE DEF atMax
      <4> QED BY <2>1, <3>1, <1>2, SplitHere
    <3> QED BY <2>1, <3>2, <3>3
  <2>2. CASE ~CanSplit(above, hi)
    BY <2>2
  <2> QED BY <2>1, <2>2
<1> HIDE DEF atMax
<1>4. stuck \in GoodSlices
  BY <1>2, <1>3 DEF SplitsAt
<1> HIDE DEF stuck
<1> DEFINE L == IF atMin = <<>> THEN <<>> ELSE <<atMin[1]>>
           R == IF atMax = <<>> THEN <<>> ELSE <<atMax[2]>>
<1>5. L \in Seq(GoodSlices) /\ InOrder(L) /\ Keeps({s}, Elements(L) \cup {above})
      /\ \A x \in Elements(L) : x.max <= lo /\ above.min = lo
  <2>1. CASE CanSplit(s, lo)
    <3>1. SplitsAt(s, lo, atMin) /\ atMin # <<>> /\ above = atMin[2]
      BY <1>1, <2>1
    <3> DEFINE a == atMin[1]
    <3>2. a \in GoodSlices /\ a.max = lo /\ above.min = lo /\ Keeps({s}, {a, above})
      BY <3>1 DEF SplitsAt
    <3>3. L = <<a>>
      BY <3>1
    <3> HIDE DEF a, L
    <3>4. L \in Seq(GoodSlices) /\ InOrder(L) /\ Elements(L) = {a}
      BY <3>2, <3>3, OneSlice
    <3>5. Elements(L) \cup {above} = {a, above}
      BY <3>4
    <3>6. a.max <= lo
      BY <3>2
    <3> QED BY <3>2, <3>4, <3>5, <3>6
  <2>2. CASE ~CanSplit(s, lo)
    <3>1. L = <<>> /\ above = s
      BY <1>1, <2>2
    <3>2. L \in Seq(GoodSlices) /\ InOrder(L) /\ Elements(L) = {}
      BY <3>1, NoSlice
    <3>3. Keeps({s}, {s})
      BY KeepsSame
    <3>4. Elements(L) \cup {above} = {s}
      BY <3>1, <3>2
    <3> QED BY <3>2, <3>3, <3>4
  <2> QED BY <2>1, <2>2
<1>6. R \in Seq(GoodSlices) /\ InOrder(R) /\ Keeps({above}, Elements(R) \cup {stuck})
      /\ \A x \in Elements(R) : hi <= x.min
  <2>1. CASE CanSplit(above, hi)
    <3>1. SplitsAt(above, hi, atMax) /\ atMax # <<>> /\ stuck = atMax[1]
      BY <1>3, <2>1
    <3> DEFINE a == atMax[2]
    <3>2. a \in GoodSlices /\ a.min = hi /\ Keeps({above}, {stuck, a})
      BY <3>1 DEF SplitsAt
    <3>3. R = <<a>>
      BY <3>1
    <3> HIDE DEF a, R
    <3>4. R \in Seq(GoodSlices) /\ InOrder(R) /\ Elements(R) = {a}
      BY <3>2, <3>3, OneSlice
    <3>5. Elements(R) \cup {stuck} = {stuck, a}
      BY <3>4
    <3>6. hi <= a.min
      BY <3>2
    <3> QED BY <3>2, <3>4, <3>5, <3>6
  <2>2. CASE ~CanSplit(above, hi)
    <3>1. R = <<>> /\ stuck = above
      BY <1>3, <2>2
    <3>2. R \in Seq(GoodSlices) /\ InOrder(R) /\ Elements(R) = {}
      BY <3>1, NoSlice
    <3>3. Keeps({above}, {above})
      BY <1>2, KeepsSame
    <3>4. Elements(R) \cup {stuck} = {above}
      BY <3>1, <3>2
    <3> QED BY <3>2, <3>3, <3>4
  <2> QED BY <2>1, <2>2
<1>7. remain = L \o R
  OBVIOUS
<1> HIDE DEF L, R, remain
<1>8. remain \in Seq(GoodSlices) /\ InOrder(remain) /\ Elements(remain) = Elements(L) \cup Elements(R)
  <2>1. \A m \in 1..Len(L), n \in 1..Len(R) : L[m].max <= R[n].min
    <3> SUFFICES ASSUME NEW m \in 1..Len(L), NEW n \in 1..Len(R) PROVE L[m].max <= R[n].min
      OBVIOUS
    <3>1. L[m] \in Elements(L) /\ R[n] \in Elements(R) /\ L[m] \in GoodSlices /\ R[n] \in GoodSlices
      BY <1>5, <1>6, GoodElements
    <3>2. L[m].max <= lo /\ hi <= R[n].min
      BY <1>5, <1>6, <3>1
    <3>3. L[m].max \in Nat /\ R[n].min \in Nat
      BY <3>1, SliceFields
    <3> QED BY <3>2, <3>3
  <2> QED BY <1>5, <1>6, <1>7, <2>1, ConcatLists
<1>9. Keeps({s}, Elements(remain) \cup {stuck})
  <2> DEFINE X == Elements(L)
             Y == Elements(R) \cup {stuck}
             S == {s}
             A == {above}
             T == X \cup A
             Z == X \cup Y
  <2>1. X \in SUBSET GoodSlices /\ S \in SUBSET GoodSlices
    BY <1>5, GoodElements
  <2>2. Keeps(S, T) /\ Keeps(A, Y) /\ Z = Elements(remain) \cup {stuck}
    BY <1>5, <1>6, <1>8
  <2> HIDE DEF X, Y, S, A
  <2>3. Keeps(X, X)
    BY <2>1, KeepsSame
  <2>4. Keeps(T, Z)
    BY <2>2, <2>3, KeepsBoth
  <2> HIDE DEF T, Z
  <2>5. Keeps(S, Z)
    BY <2>1, <2>2, <2>4, KeepsThen
  <2> QED BY <2>2, <2>5 DEF S
<1>10. some \in Seq(GoodSlices) /\ InOrder(some) /\ Keeps(Elements(remain), Elements(some))
  BY <1>8, NonEmptyOK
<1> HIDE DEF some
<1>11. PartOK(s, << some, <<stuck>> >>)
  <2> DEFINE b == <<stuck>>
             p == <<some, b>>
             S == {s}
             T == Elements(remain) \cup {stuck}
             U == Elements(some) \cup {stuck}
  <2>1. b \in Seq(GoodSlices) /\ InOrder(b) /\ Elements(b) = {stuck}
    BY <1>4, OneSlice
  <2>2. Keeps({stuck}, {stuck})
    BY <1>4, KeepsSame
  <2>3. Keeps(T, U)
    BY <1>10, <2>2, KeepsBoth
  <2>4. Keeps(S, T) /\ S \in SUBSET GoodSlices
    BY <1>9
  <2> HIDE DEF S, T, U, b
  <2>5. Keeps(S, U)
    BY <2>3, <2>4, KeepsThen
  <2>6. Keeps({s}, Elements(some) \cup Elements(b))
    BY <2>1, <2>5 DEF S, U
  <2>7. p = <<some, b>>
    OBVIOUS
  <2> HIDE DEF p
  <2>8. PartOK(s, p)
    BY <1>10, <2>1, <2>6, <2>7, MakePart
  <2> QED BY <2>8 DEF p, b
<1>12. PartOK(s, out)
  BY <1>11, MovedWhole, UnsplitOK
<1> QED BY <1>0, <1>12

-----------------------------------------------------------------------------
(* Actions on the readers                                                  *)

\* The actions that move slices, for one reader.
LEMMA MoveGroupsFromOK ==
  ASSUME NEW rs \in ReaderMaps, NEW id \in DOMAIN rs, id + 1 \in ReaderIDs
  PROVE  Evolves(rs, MoveGroupsFrom(rs, id)) /\ DOMAIN rs \subseteq DOMAIN MoveGroupsFrom(rs, id)
<1> DEFINE groups == GroupsToMove(rs, id)
           q == rs[id].slices
           x(s) == SplitByPredicate(s, groups)
           Splitter(s) == IF IsEmpty([s EXCEPT !.predicate = @ \cap groups]) THEN Unsplit(s)
                          ELSE << NonEmpty(<<x(s)[2]>>), <<x(s)[1]>> >>
           parts == [n \in DOMAIN q |-> Splitter(q[n])]
           out == SplitAndMove(rs, id, parts)
<1>1. MoveGroupsFrom(rs, id) = IF groups = {} THEN rs ELSE out
  BY DEF MoveGroupsFrom
<1>2. \A s \in GoodSlices : PartOK(s, Splitter(s))
  BY UnsplitOK, GroupsPartOK
<1>3. q \in Seq(GoodSlices)
  BY MapFields, ReaderFields
<1> HIDE DEF Splitter
<1>4. DOMAIN parts = 1..Len(q) /\ \A n \in 1..Len(q) : PartOK(q[n], parts[n])
  BY <1>2, <1>3
<1> HIDE DEF parts
<1>5. Evolves(rs, out) /\ DOMAIN rs \subseteq DOMAIN out
  BY <1>4, SplitAndMoveOK
<1> QED BY <1>1, <1>5, EvolvesSame

LEMMA MoveSlicesOK ==
  ASSUME NEW rs \in ReaderMaps
  PROVE  Evolves(rs, MoveSlices(rs))
<1> DEFINE q == rs[DefaultReaderId].slices
           Splitter(s) == IF s.predicate = Universal THEN Unsplit(s) ELSE << <<>>, <<s>> >>
           parts == [n \in DOMAIN q |-> Splitter(q[n])]
           out == SplitAndMove(rs, DefaultReaderId, parts)
<1>1. \/ MoveSlices(rs) = rs
      \/ /\ DefaultReaderId \in DOMAIN rs /\ ~(MaxReaderCount <= DefaultReaderId + 1)
         /\ MoveSlices(rs) = out
  BY Zenon DEF MoveSlices
<1>2. CASE MoveSlices(rs) = rs
  BY <1>2, EvolvesSame
<1>3. CASE /\ DefaultReaderId \in DOMAIN rs /\ ~(MaxReaderCount <= DefaultReaderId + 1)
           /\ MoveSlices(rs) = out
  <2>1. DefaultReaderId + 1 \in ReaderIDs
    BY <1>3, QueueConstants DEF DefaultReaderId, ReaderIDs
  <2>2. \A s \in GoodSlices : PartOK(s, Splitter(s))
    BY UnsplitOK, MovedWhole
  <2>3. q \in Seq(GoodSlices)
    BY <1>3, MapFields, ReaderFields
  <2> HIDE DEF Splitter
  <2>4. DOMAIN parts = 1..Len(q) /\ \A n \in 1..Len(q) : PartOK(q[n], parts[n])
    BY <2>2, <2>3
  <2> HIDE DEF parts
  <2>5. Evolves(rs, out)
    BY <1>3, <2>1, <2>4, SplitAndMoveOK
  <2> QED BY <1>3, <2>5
<1> QED BY <1>1, <1>2, <1>3

\* Unloading slices of a reader: what is not done will be read again.
LEMMA ClearReaderOK ==
  ASSUME NEW rs \in ReaderMaps, NEW id \in DOMAIN rs, NEW toClear
  PROVE  Evolves(rs, ClearReader(rs, id, toClear)) /\ DOMAIN rs \subseteq DOMAIN ClearReader(rs, id, toClear)
<1> DEFINE GroupsOf(s) == {g \in Groups : <<s, g>> \in toClear}
           q == rs[id].slices
           Cleared(s) == IF GroupsOf(s) = {} THEN s ELSE Clear(s)
           x(s) == SplitByPredicate(s, GroupsOf(s))
           Splitter(s) == IF GroupsOf(s) = {} THEN Unsplit(s)
                          ELSE << NonEmpty(<<x(s)[2]>>), <<Clear(x(s)[1])>> >>
           list == [n \in DOMAIN q |-> Cleared(q[n])]
           parts == [n \in DOMAIN q |-> Splitter(q[n])]
           inPlace == WithReader(rs, id, ResetReader(list))
           out == SplitAndMove(rs, id, parts)
<1>1. ClearReader(rs, id, toClear) = IF id = MaxReaderCount - 1 THEN inPlace ELSE out
  BY DEF ClearReader
<1>2. q \in Seq(GoodSlices) /\ InOrder(q) /\ rs[id] \in GoodReaders /\ Len(q) \in Nat
  BY MapFields, ReaderFields
<1>3. \A s \in GoodSlices : PartOK(s, Splitter(s))
  BY UnsplitOK, GroupsPartOK
<1>4. ASSUME NEW s \in GoodSlices
      PROVE  /\ Cleared(s) \in GoodSlices /\ s.min <= Cleared(s).min /\ Cleared(s).max <= s.max
             /\ Keeps({s}, {Cleared(s)})
  <2>1. CASE GroupsOf(s) = {}
    <3>1. Cleared(s) = s
      BY <2>1
    <3>2. s.min <= s.min /\ s.max <= s.max
      BY SliceFields
    <3>3. Keeps({s}, {s})
      BY KeepsSame
    <3> HIDE DEF Cleared
    <3> QED BY <3>1, <3>2, <3>3
  <2>2. CASE GroupsOf(s) # {}
    <3>1. Cleared(s) = Clear(s)
      BY <2>2
    <3>2. /\ Clear(s) \in GoodSlices /\ s.min <= Clear(s).min /\ Clear(s).max = s.max
          /\ Keeps({s}, {Clear(s)})
      BY ClearOK
    <3>3. s.max <= s.max
      BY SliceFields
    <3> HIDE DEF Cleared
    <3> QED BY <3>1, <3>2, <3>3
  <2> QED BY <2>1, <2>2
<1> HIDE DEF Splitter, Cleared
<1>5. CASE id = MaxReaderCount - 1
  <2>1. /\ list \in Seq(GoodSlices) /\ Len(list) = Len(q) /\ \A n \in 1..Len(q) : list[n] = Cleared(q[n])
    <3>1. DOMAIN q = 1..Len(q) /\ \A n \in 1..Len(q) : q[n] \in GoodSlices
      BY <1>2
    <3>2. \A n \in 1..Len(q) : Cleared(q[n]) \in GoodSlices
      BY <1>4, <3>1
    <3>3. list = [n \in 1..Len(q) |-> Cleared(q[n])]
      BY <3>1
    <3> HIDE DEF list
    <3>4. list \in [1..Len(q) -> GoodSlices] /\ \A n \in 1..Len(q) : list[n] = Cleared(q[n])
      BY <3>2, <3>3
    <3> QED BY <1>2, <3>4, FunctionIsSeq
  <2> HIDE DEF list
  <2>2. \A n \in 1..Len(q) : q[n].min <= list[n].min /\ list[n].max <= q[n].max /\ Keeps({q[n]}, {list[n]})
    <3> SUFFICES ASSUME NEW n \in 1..Len(q)
                 PROVE  q[n].min <= list[n].min /\ list[n].max <= q[n].max /\ Keeps({q[n]}, {list[n]})
      OBVIOUS
    <3>1. q[n] \in GoodSlices /\ list[n] = Cleared(q[n])
      BY <1>2, <2>1
    <3> QED BY <1>4, <3>1
  <2>3. InOrder(list) /\ Keeps(Elements(q), Elements(list))
    <3> HIDE DEF q
    <3> QED BY <1>2, <2>1, <2>2, OneForOne
  <2> DEFINE r == ResetReader(list)
  <2>4. r \in GoodReaders /\ r.slices = list
    BY <2>1, <2>3, ResetReaderOK
  <2>5. Elements(rs[id].slices) \cup Elements(<<>>) = Elements(q)
    BY NoSlice
  <2> HIDE DEF r
  <2>6. Extends(rs[id], <<>>, r)
    BY <2>3, <2>4, <2>5 DEF Extends
  <2>7. Evolves(rs, WithReader(rs, id, r)) /\ DOMAIN WithReader(rs, id, r) = DOMAIN rs
    BY <2>6, EvolvesOne
  <2>8. ClearReader(rs, id, toClear) = WithReader(rs, id, r)
    BY <1>1, <1>5 DEF r
  <2> QED BY <2>7, <2>8
<1>6. CASE id # MaxReaderCount - 1
  <2>1. id + 1 \in ReaderIDs
    BY <1>6, MapFields, QueueConstants DEF ReaderIDs
  <2>2. DOMAIN parts = 1..Len(q) /\ \A n \in 1..Len(q) : PartOK(q[n], parts[n])
    BY <1>2, <1>3
  <2> HIDE DEF parts
  <2>3. Evolves(rs, out) /\ DOMAIN rs \subseteq DOMAIN out
    BY <2>1, <2>2, SplitAndMoveOK
  <2> QED BY <1>1, <1>6, <2>3
<1> QED BY <1>5, <1>6

-----------------------------------------------------------------------------
(* Actions on one reader after the other                                   *)

\* A fold stays in a set that every step stays in.
LEMMA FoldStays ==
  ASSUME NEW n \in Nat, NEW A, NEW c, c[1..0] \in A,
         \A k \in 1..n : c[1..k - 1] \in A => c[1..k] \in A
  PROVE  c[1..n] \in A
<1> DEFINE S == {k \in 0..n : c[1..k] \in A}
<1>1. 0 \in S
  OBVIOUS
<1>2. ASSUME NEW k \in 0..n - 1, k \in S PROVE k + 1 \in S
  <2>1. k + 1 \in 1..n /\ k + 1 \in 0..n /\ (k + 1) - 1 = k
    OBVIOUS
  <2>2. c[1..k] \in A
    BY <1>2
  <2> QED BY <2>1, <2>2
<1>3. \A k \in 0..n : k \in S
  <2> HIDE DEF S
  <2> QED BY <1>1, <1>2, UpTo
<1>4. n \in 0..n
  OBVIOUS
<1>5. n \in S
  <2> HIDE DEF S
  <2> QED BY <1>3, <1>4
<1> QED BY <1>5

\* The readers that rs may have become, with some more of them.
Later(rs) == {r \in ReaderMaps : Evolves(rs, r) /\ DOMAIN rs \subseteq DOMAIN r}

LEMMA LaterSame == ASSUME NEW rs \in ReaderMaps PROVE rs \in Later(rs)
BY EvolvesSame DEF Later

LEMMA LaterThen ==
  ASSUME NEW rs \in ReaderMaps, NEW r \in Later(rs), NEW u, Evolves(r, u), DOMAIN r \subseteq DOMAIN u
  PROVE  u \in Later(rs)
<1>1. r \in ReaderMaps /\ Evolves(rs, r) /\ DOMAIN rs \subseteq DOMAIN r
  BY DEF Later
<1>2. Evolves(rs, u)
  BY <1>1, EvolvesThen
<1>3. u \in ReaderMaps /\ DOMAIN rs \subseteq DOMAIN u
  BY <1>1 DEF Evolves
<1> QED BY <1>2, <1>3 DEF Later

\* The actions go from reader to reader.
LEMMA MoveGroupsOK == ASSUME NEW rs \in ReaderMaps PROVE Evolves(rs, MoveGroups(rs))
<1> DEFINE n == MaxReaderCount - 1
           A == Later(rs)
           idx == [k \in 1..n |-> k]
           Op(r, k) == IF k - 1 \in DOMAIN r THEN MoveGroupsFrom(r, k - 1) ELSE r
           out == FoldLeft(LAMBDA r, k : Op(r, k), rs, idx)
           h == [x \in (1..n) \X A |-> Op(x[2], x[1])]
           Rec(c) == c = [s \in SUBSET (1..n) |-> IF s = {} THEN rs ELSE Op(c[s \ {Max(s)}], idx[Max(s)])]
           c == CHOOSE c : Rec(c)
<1>0. MoveGroups(rs) = out
  BY DEF MoveGroups
<1>1. n \in Nat /\ rs \in A
  BY QueueConstants, LaterSame
<1>2. DOMAIN idx = 1..n /\ \A k \in 1..n : idx[k] = k
  BY <1>1
<1>3. \A k \in 1..n : (k - 1) + 1 \in ReaderIDs
  BY QueueConstants DEF ReaderIDs
<1> HIDE DEF n
<1>4. out = c[1..n]
  <2> HIDE DEF idx
  <2> QED BY <1>2 DEF FoldLeft, MapThenFoldSet
<1> HIDE DEF idx, out
<1>5. ASSUME NEW r \in A, NEW k \in 1..n PROVE Op(r, k) \in A
  <2>1. r \in ReaderMaps
    BY DEF Later
  <2>2. CASE k - 1 \in DOMAIN r
    <3> DEFINE id == k - 1
    <3>1. id \in DOMAIN r /\ id + 1 \in ReaderIDs
      BY <1>3, <2>2
    <3> HIDE DEF id
    <3>2. Evolves(r, MoveGroupsFrom(r, id)) /\ DOMAIN r \subseteq DOMAIN MoveGroupsFrom(r, id)
      BY <2>1, <3>1, MoveGroupsFromOK
    <3>3. MoveGroupsFrom(r, id) \in A
      BY <3>2, LaterThen
    <3> QED BY <2>2, <3>3 DEF id
  <2>3. CASE k - 1 \notin DOMAIN r
    BY <2>3
  <2> QED BY <2>2, <2>3
<1> HIDE DEF Op
<1>6. h \in [(1..n) \X A -> A]
  BY <1>5
<1>7. \A k \in 1..n : \A a \in A : h[<<k, a>>] = Op(a, k)
  OBVIOUS
<1>8. PICK f : Folding(f, n, rs, h) /\ f \in [SUBSET (1..n) -> A]
  <2> HIDE DEF A, h
  <2> QED BY <1>1, <1>6, FoldExists
<1>9. Rec(f)
  <2>1. f = [s \in SUBSET (1..n) |-> IF s = {} THEN rs ELSE h[<<Max(s), f[s \ {Max(s)}]>>]]
    BY <1>8 DEF Folding
  <2>2. ASSUME NEW s \in SUBSET (1..n), s # {}
        PROVE  h[<<Max(s), f[s \ {Max(s)}]>>] = Op(f[s \ {Max(s)}], idx[Max(s)])
    <3>1. Max(s) \in 1..n /\ s \ {Max(s)} \in SUBSET (1..n)
      BY <1>1, <2>2, GreatestPlace
    <3>2. f[s \ {Max(s)}] \in A /\ idx[Max(s)] = Max(s)
      BY <3>1, <1>2, <1>8
    <3> HIDE DEF h, A
    <3> QED BY <3>1, <3>2, <1>7
  <2> HIDE DEF h
  <2> QED BY <2>1, <2>2
<1>10. Rec(c)
  <2> HIDE DEF Rec
  <2> QED BY <1>9
<1> HIDE DEF c, h
<1>11. \A s \in SUBSET (1..n) : c[s] = IF s = {} THEN rs ELSE Op(c[s \ {Max(s)}], idx[Max(s)])
  BY <1>10
<1>12. c[1..0] = rs
  <2>1. 1..0 = {} /\ {} \in SUBSET (1..n)
    OBVIOUS
  <2> QED BY <1>11, <2>1
<1>13. ASSUME NEW k \in 1..n PROVE c[1..k] = Op(c[1..k - 1], k)
  <2>1. 1..k \in SUBSET (1..n) /\ 1..k # {} /\ Max(1..k) = k /\ (1..k) \ {k} = 1..k - 1
    BY <1>1, GreatestUpTo
  <2> DEFINE K == 1..k
  <2>2. c[K] = Op(c[K \ {Max(K)}], idx[Max(K)])
    <3>1. K \in SUBSET (1..n) /\ K # {}
      BY <2>1
    <3> HIDE DEF K
    <3> QED BY <1>11, <3>1
  <2>3. Max(K) = k /\ K \ {Max(K)} = 1..k - 1 /\ idx[k] = k
    BY <1>2, <2>1
  <2> HIDE DEF K
  <2>4. c[K] = Op(c[1..k - 1], k)
    BY <2>2, <2>3
  <2> QED BY <2>4 DEF K
<1> HIDE DEF A
<1>14. c[1..n] \in A
  <2>1. c[1..0] \in A
    BY <1>1, <1>12
  <2>2. \A k \in 1..n : c[1..k - 1] \in A => c[1..k] \in A
    BY <1>5, <1>13
  <2> QED BY <1>1, <2>1, <2>2, FoldStays
<1>15. Evolves(rs, c[1..n])
  BY <1>14 DEF A, Later
<1> QED BY <1>0, <1>4, <1>15

ClearedInOrder(rs, order, toClear) == FoldLeft(LAMBDA r, id : ClearReader(r, id, toClear), rs, order)

LEMMA ClearInOrderOK ==
  ASSUME NEW rs \in ReaderMaps, NEW n \in Nat, NEW order \in [1..n -> DOMAIN rs], NEW toClear
  PROVE  Evolves(rs, ClearedInOrder(rs, order, toClear))
<1> DEFINE A == Later(rs)
           Op(r, id) == ClearReader(r, id, toClear)
           out == FoldLeft(LAMBDA r, id : ClearReader(r, id, toClear), rs, order)
           h == [x \in (1..n) \X A |-> Op(x[2], order[x[1]])]
           Rec(c) == c = [s \in SUBSET (1..n) |-> IF s = {} THEN rs ELSE Op(c[s \ {Max(s)}], order[Max(s)])]
           c == CHOOSE c : Rec(c)
<1>1. rs \in A
  BY LaterSame
<1>2. DOMAIN order = 1..n /\ \A k \in 1..n : order[k] \in DOMAIN rs
  OBVIOUS
<1>4. out = c[1..n]
  BY <1>2 DEF FoldLeft, MapThenFoldSet
<1> HIDE DEF out
<1>5. ASSUME NEW r \in A, NEW k \in 1..n PROVE Op(r, order[k]) \in A
  <2> DEFINE id == order[k]
             u == ClearReader(r, id, toClear)
  <2>1. r \in ReaderMaps /\ DOMAIN rs \subseteq DOMAIN r
    BY DEF Later
  <2>2. id \in DOMAIN r
    BY <1>2, <2>1
  <2> HIDE DEF id
  <2>3. Evolves(r, u) /\ DOMAIN r \subseteq DOMAIN u
    BY <2>1, <2>2, ClearReaderOK
  <2>4. u \in A
    <3> HIDE DEF u
    <3> QED BY <2>3, LaterThen
  <2> QED BY <2>4 DEF id
<1> HIDE DEF Op
<1>6. h \in [(1..n) \X A -> A]
  BY <1>5
<1>7. \A k \in 1..n : \A a \in A : h[<<k, a>>] = Op(a, order[k])
  OBVIOUS
<1>8. PICK f : Folding(f, n, rs, h) /\ f \in [SUBSET (1..n) -> A]
  <2> HIDE DEF A, h
  <2> QED BY <1>1, <1>6, FoldExists
<1>9. Rec(f)
  <2>1. f = [s \in SUBSET (1..n) |-> IF s = {} THEN rs ELSE h[<<Max(s), f[s \ {Max(s)}]>>]]
    BY <1>8 DEF Folding
  <2>2. ASSUME NEW s \in SUBSET (1..n), s # {}
        PROVE  h[<<Max(s), f[s \ {Max(s)}]>>] = Op(f[s \ {Max(s)}], order[Max(s)])
    <3>1. Max(s) \in 1..n /\ s \ {Max(s)} \in SUBSET (1..n)
      BY <2>2, GreatestPlace
    <3>2. f[s \ {Max(s)}] \in A
      BY <3>1, <1>8
    <3> HIDE DEF h, A
    <3> QED BY <3>1, <3>2, <1>7
  <2> HIDE DEF h
  <2> QED BY <2>1, <2>2
<1>10. Rec(c)
  <2> HIDE DEF Rec
  <2> QED BY <1>9
<1> HIDE DEF c, h
<1>11. \A s \in SUBSET (1..n) : c[s] = IF s = {} THEN rs ELSE Op(c[s \ {Max(s)}], order[Max(s)])
  BY <1>10
<1>12. c[1..0] = rs
  <2>1. 1..0 = {} /\ {} \in SUBSET (1..n)
    OBVIOUS
  <2> QED BY <1>11, <2>1
<1>13. ASSUME NEW k \in 1..n PROVE c[1..k] = Op(c[1..k - 1], order[k])
  <2>1. 1..k \in SUBSET (1..n) /\ 1..k # {} /\ Max(1..k) = k /\ (1..k) \ {k} = 1..k - 1
    BY GreatestUpTo
  <2> DEFINE K == 1..k
  <2>2. c[K] = Op(c[K \ {Max(K)}], order[Max(K)])
    <3>1. K \in SUBSET (1..n) /\ K # {}
      BY <2>1
    <3> HIDE DEF K
    <3> QED BY <1>11, <3>1
  <2>3. Max(K) = k /\ K \ {Max(K)} = 1..k - 1
    BY <2>1
  <2> HIDE DEF K
  <2>4. c[K] = Op(c[1..k - 1], order[k])
    BY <2>2, <2>3
  <2> QED BY <2>4 DEF K
<1> HIDE DEF A
<1>14. c[1..n] \in A
  <2>1. c[1..0] \in A
    BY <1>1, <1>12
  <2>2. \A k \in 1..n : c[1..k - 1] \in A => c[1..k] \in A
    BY <1>5, <1>13
  <2> QED BY <2>1, <2>2, FoldStays
<1>15. Evolves(rs, c[1..n])
  BY <1>14 DEF A, Later
<1> QED BY <1>4, <1>15 DEF out, ClearedInOrder

LEMMA ClearReadersOK ==
  ASSUME NEW rs \in ReaderMaps, NEW toClear, NEW out \in ClearReaders(rs, toClear)
  PROVE  Evolves(rs, out)
<1>1. PICK order \in SetToSeqs(DOMAIN rs) : out = ClearedInOrder(rs, order, toClear)
  BY DEF ClearReaders, ClearedInOrder
<1>2. Cardinality(DOMAIN rs) \in Nat
  <2>1. IsFiniteSet(ReaderIDs)
    <3>1. 0 \in Int /\ MaxReaderCount - 1 \in Int
      BY QueueConstants
    <3> QED BY <3>1, FS_Interval DEF ReaderIDs
  <2>2. IsFiniteSet(DOMAIN rs)
    BY <2>1, MapFields, FS_Subset
  <2> QED BY <2>2, FS_CardinalityType
<1> DEFINE n == Cardinality(DOMAIN rs)
<1>3. n \in Nat /\ order \in [1..n -> DOMAIN rs]
  BY <1>2 DEF SetToSeqs
<1> HIDE DEF n
<1> QED BY <1>1, <1>3, ClearInOrderOK

\* Compaction, whichever candidates are picked.
LEMMA FindAndCompactOK ==
  ASSUME NEW rs \in ReaderMaps, NEW ids, NEW universal, NEW target,
         NEW out \in FindAndCompact(rs, ids, universal, target)
  PROVE  Evolves(rs, out)
<1>1. \/ out = rs
      \/ \E c : out = [id \in DOMAIN rs |-> IF id \notin ids THEN rs[id]
                          ELSE CompactSlices(rs[id], {n \in DOMAIN rs[id].slices : <<id, n>> \in c})]
  BY Zenon DEF FindAndCompact
<1>2. CASE out = rs
  BY <1>2, EvolvesSame
<1>3. ASSUME NEW c, out = [id \in DOMAIN rs |-> IF id \notin ids THEN rs[id]
                          ELSE CompactSlices(rs[id], {n \in DOMAIN rs[id].slices : <<id, n>> \in c})]
      PROVE  Evolves(rs, out)
  <2> DEFINE chosen(id) == {n \in DOMAIN rs[id].slices : <<id, n>> \in c}
  <2>1. DOMAIN out = DOMAIN rs /\ out = [id \in DOMAIN rs |-> out[id]]
        /\ \A id \in DOMAIN rs : out[id] = IF id \notin ids THEN rs[id] ELSE CompactSlices(rs[id], chosen(id))
    BY <1>3
  <2> HIDE DEF chosen
  <2>2. ASSUME NEW id \in DOMAIN rs PROVE Extends(rs[id], <<>>, out[id])
    <3>1. rs[id] \in GoodReaders
      BY MapFields
    <3>2. CASE id \notin ids
      <4>1. out[id] = rs[id]
        BY <2>1, <3>2
      <4>2. rs[id].slices \in Seq(GoodSlices)
        BY <3>1, ReaderFields
      <4>3. Keeps(Elements(rs[id].slices), Elements(rs[id].slices))
        BY <4>2, GoodElements, KeepsSame
      <4>4. Elements(rs[id].slices) \cup Elements(<<>>) = Elements(rs[id].slices)
        BY NoSlice
      <4> QED BY <3>1, <4>1, <4>3, <4>4 DEF Extends
    <3>3. CASE id \in ids
      <4>1. out[id] = CompactSlices(rs[id], chosen(id))
        BY <2>1, <3>3
      <4> QED BY <3>1, <4>1, CompactSlicesOK
    <3> QED BY <3>2, <3>3
  <2> QED BY <2>1, <2>2, EvolvesEach
<1> QED BY <1>1, <1>2, <1>3

LEMMA CompactedOK ==
  ASSUME NEW rs \in ReaderMaps, NEW out \in Compacted(rs)
  PROVE  Evolves(rs, out)
<1> DEFINE A == {r \in ReaderMaps : Evolves(rs, r)}
           nonDefault == ReaderIDs \ {DefaultReaderId}
           Stage(readersBefore, ids, universal, target) ==
             UNION {FindAndCompact(r, ids, universal, target) : r \in readersBefore}
           first  == Stage({rs}, nonDefault, FALSE, TargetSliceCount)
           second == Stage(first, {DefaultReaderId}, FALSE, TargetSliceCount)
           third  == Stage(second, nonDefault, TRUE, SliceCountCriticalThreshold)
           fourth == Stage(third, {DefaultReaderId}, TRUE, SliceCountCriticalThreshold)
<1>1. out \in fourth
  BY Zenon DEF Compacted
<1>2. ASSUME NEW R \in SUBSET A, NEW ids, NEW u, NEW target PROVE Stage(R, ids, u, target) \in SUBSET A
  <2> SUFFICES ASSUME NEW x \in Stage(R, ids, u, target) PROVE x \in A
    OBVIOUS
  <2>1. PICK r \in R : x \in FindAndCompact(r, ids, u, target)
    OBVIOUS
  <2>2. r \in ReaderMaps /\ Evolves(rs, r)
    OBVIOUS
  <2>3. Evolves(r, x)
    BY <2>1, <2>2, FindAndCompactOK
  <2>4. Evolves(rs, x) /\ x \in ReaderMaps
    BY <2>2, <2>3, EvolvesThen DEF Evolves
  <2> QED BY <2>4
<1> HIDE DEF Stage
<1>3. {rs} \in SUBSET A
  BY EvolvesSame
<1> HIDE DEF A
<1>4. first \in SUBSET A
  BY <1>2, <1>3
<1> HIDE DEF first
<1>5. second \in SUBSET A
  BY <1>2, <1>4
<1> HIDE DEF second
<1>6. third \in SUBSET A
  BY <1>2, <1>5
<1> HIDE DEF third
<1>7. fourth \in SUBSET A
  BY <1>2, <1>6
<1> HIDE DEF fourth
<1> QED BY <1>1, <1>7 DEF A

LEMMA StuckRangeOK ==
  ASSUME NEW rs \in ReaderMaps, IsScheduled, DefaultReaderId \in DOMAIN rs, NEW min \in Nat,
         NEW out, out = SplitAndMove(rs, DefaultReaderId,
                            [k \in DOMAIN rs[DefaultReaderId].slices |->
                                StuckSplitter(rs[DefaultReaderId].slices[k], NewRange(min, min + TaskIDsPerTime))])
  PROVE  Evolves(rs, out)
<1> DEFINE q == rs[DefaultReaderId].slices
           range == NewRange(min, min + TaskIDsPerTime)
           parts == [k \in DOMAIN q |-> StuckSplitter(q[k], range)]
<1>1. DefaultReaderId + 1 \in ReaderIDs
  BY QueueConstants DEF IsScheduled, DefaultReaderId, ReaderIDs
<1>2. range.min \in Nat /\ range.max \in Nat /\ range.min <= range.max
  BY QueueConstants DEF NewRange
<1>3. out = SplitAndMove(rs, DefaultReaderId, parts)
  OBVIOUS
<1>4. q \in Seq(GoodSlices) /\ DOMAIN q = 1..Len(q)
  BY MapFields, ReaderFields
<1> HIDE DEF range
<1>5. DOMAIN parts = 1..Len(q) /\ \A n \in 1..Len(q) : PartOK(q[n], parts[n])
  BY <1>2, <1>4, StuckPartOK
<1> HIDE DEF parts
<1> QED BY <1>1, <1>3, <1>5, SplitAndMoveOK

\* The action of a checkpoint, and the removal of idle readers after it.
LEMMA CheckpointActionOK == ASSUME NEW rs \in ReaderMaps PROVE Evolves(rs, CheckpointAction(rs))
BY MoveGroupsOK, MoveSlicesOK DEF CheckpointAction

LEMMA WithoutIdleReadersOK ==
  ASSUME NEW rs \in ReaderMaps
  PROVE  Evolves(rs, WithoutIdleReaders(rs))
<1> DEFINE D == {i \in DOMAIN rs : i = DefaultReaderId \/ rs[i].slices # <<>>}
           out == [id \in D |-> rs[id]]
<1>1. WithoutIdleReaders(rs) = out
  BY DEF WithoutIdleReaders
<1>2. D \in SUBSET ReaderIDs /\ out \in [D -> GoodReaders]
  BY MapFields
<1>3. out \in ReaderMaps /\ DOMAIN out = D
  BY <1>2, MakeMap
<1>4. AllSlices(out) = AllSlices(rs)
  <2>1. ASSUME NEW s \in AllSlices(rs) PROVE s \in AllSlices(out)
    <3>1. PICK id \in DOMAIN rs : s \in Elements(rs[id].slices)
      BY DEF AllSlices
    <3>2. rs[id].slices # <<>>
      BY <3>1, NoSlice
    <3> QED BY <3>1, <3>2 DEF AllSlices
  <2>2. ASSUME NEW s \in AllSlices(out) PROVE s \in AllSlices(rs)
    BY DEF AllSlices
  <2> HIDE DEF out
  <2> QED BY <2>1, <2>2
<1>5. Keeps(AllSlices(rs), AllSlices(rs))
  BY SlicesGood, KeepsSame
<1> HIDE DEF out
<1> QED BY <1>1, <1>3, <1>4, <1>5 DEF Evolves

-----------------------------------------------------------------------------
(* Loading tasks                                                           *)

\* What is left of the iterators of a slice from a key on.
LEMMA AfterOK ==
  ASSUME NEW its, NEW lo \in Nat, NEW hi \in Nat, IteratorsOK(its, lo, hi), NEW key \in Nat,
         NEW out, out = IteratorsAfter(its, key)
  PROVE  /\ IteratorsOK(out, lo, hi)
         /\ \A k \in Nat : Reads(its, k) /\ key <= k => Reads(out, k)
<1> DEFINE I == {n \in DOMAIN its : its[n].max >= key}
           sel == Selected(its, I)
<1>1. /\ its \in Seq(AnyRange) /\ DOMAIN its = 1..Len(its)
      /\ \A n \in 1..Len(its) : /\ its[n].min \in Nat /\ its[n].max \in Nat
                                /\ lo <= its[n].min /\ its[n].min <= its[n].max /\ its[n].max <= hi
  BY IteratorFields
<1>2. I \in SUBSET (1..Len(its))
  BY <1>1
<1>3. \A n \in 1..Len(its) : n \in I <=> its[n].max >= key
  BY <1>1
<1>4. out = [n \in DOMAIN sel |-> NewRange(MaxOf(sel[n].min, key), sel[n].max)]
  BY DEF IteratorsAfter
<1> HIDE DEF I
<1>5. sel \in Seq(AnyRange) /\ \E p : Picks(sel, its, I, p)
  BY <1>1, <1>2, SelectedPicks
<1> HIDE DEF sel
<1>6. PICK p : Picks(sel, its, I, p)
  BY <1>5
<1>7. Len(sel) \in Nat /\ DOMAIN sel = 1..Len(sel)
  BY <1>5
<1>8. ASSUME NEW n \in 1..Len(sel)
      PROVE  /\ out[n] \in AnyRange
             /\ out[n].min = MaxOf(sel[n].min, key) /\ out[n].max = sel[n].max
             /\ out[n].max <= sel[n].max /\ out[n].min <= out[n].max /\ lo <= out[n].min /\ out[n].max <= hi
             /\ sel[n].min <= out[n].min
  <2>1. p[n] \in I /\ sel[n] = its[p[n]]
    BY <1>6 DEF Picks
  <2>2. sel[n].min \in Nat /\ sel[n].max \in Nat /\ sel[n].max <= hi /\ sel[n].min <= sel[n].max
        /\ sel[n].max >= key /\ lo <= sel[n].min
    BY <1>1, <1>2, <1>3, <2>1
  <2>3. out[n] = [min |-> MaxOf(sel[n].min, key), max |-> sel[n].max]
    BY <1>4, <1>7 DEF NewRange
  <2>4. MaxOf(sel[n].min, key) \in Nat /\ sel[n].min <= MaxOf(sel[n].min, key)
        /\ lo <= MaxOf(sel[n].min, key) /\ MaxOf(sel[n].min, key) <= sel[n].max
    BY <2>2 DEF MaxOf
  <2> QED BY <2>2, <2>3, <2>4 DEF AnyRange
<1>9. out \in [1..Len(sel) -> AnyRange]
  <2> DEFINE g(n) == NewRange(MaxOf(sel[n].min, key), sel[n].max)
  <2>1. out = [n \in 1..Len(sel) |-> g(n)]
    BY <1>4, <1>7
  <2> HIDE DEF g
  <2>2. \A n \in 1..Len(sel) : out[n] = g(n)
    BY <2>1
  <2>3. \A n \in 1..Len(sel) : g(n) \in AnyRange
    BY <2>2, <1>8
  <2> HIDE DEF AnyRange
  <2> QED BY <2>1, <2>3
<1>10. IteratorsOK(out, lo, hi) /\ Len(out) = Len(sel)
  <2>1. out \in Seq(AnyRange) /\ Len(out) = Len(sel)
    BY <1>7, <1>9, FunctionIsSeq
  <2>2. \A n \in 1..Len(sel) :
            /\ sel[n].min <= out[n].min /\ out[n].max <= sel[n].max
            /\ out[n].min <= out[n].max /\ lo <= out[n].min /\ out[n].max <= hi
    BY <1>8
  <2> HIDE DEF AnyRange
  <2> QED BY <1>2, <1>6, <1>7, <2>1, <2>2, CutIterators
<1>11. ASSUME NEW k \in Nat, Reads(its, k), key <= k PROVE Reads(out, k)
  <2>1. PICK m \in 1..Len(its) : its[m].min <= k /\ k < its[m].max
    BY <1>11 DEF Reads, ContainsKey
  <2>2. m \in I
    BY <2>1, <1>1, <1>3, <1>11
  <2>3. PICK n \in 1..Len(sel) : p[n] = m
    BY <2>2, <1>6 DEF Picks
  <2>4. sel[n] = its[m]
    BY <2>3, <1>6 DEF Picks
  <2>5. out[n].min <= k /\ k < out[n].max
    BY <1>8, <1>11, <2>1, <2>4, <1>1 DEF MaxOf
  <2> QED BY <2>5, <1>10 DEF Reads, ContainsKey
<1> QED BY <1>10, <1>11

\* A slice with other executables and iterators.
Remade(s, its, tr) ==
    [s EXCEPT !.iterators = its, !.pending = tr.pending, !.acked = tr.acked,
              !.pendingPerKey = tr.pendingPerKey]

LEMMA MakeSlice ==
  ASSUME NEW s \in GoodSlices, NEW its, IteratorsOK(its, s.min, s.max), NEW tr, TrackerOK(tr),
         \A t \in Tracked(tr) : s.min <= t.key /\ t.key < s.max /\ t.group \in s.predicate,
         NEW out, out = Remade(s, its, tr)
  PROVE  /\ out \in GoodSlices /\ out.min = s.min /\ out.max = s.max /\ out.predicate = s.predicate
         /\ out.iterators = its /\ out.pending = tr.pending /\ out.acked = tr.acked
<1>1. s \in SliceRecords /\ s.min <= s.max
  BY SliceFields
<1>2. its \in Seq(AnyRange)
  BY DEF IteratorsOK
<1>3. tr.pending \in SUBSET AnyTask /\ tr.acked \in SUBSET AnyTask /\ tr.pendingPerKey \in [Groups -> Nat]
  BY DEF TrackerOK
<1>4. /\ out.min = s.min /\ out.max = s.max /\ out.predicate = s.predicate
      /\ out.iterators = its /\ out.pending = tr.pending /\ out.acked = tr.acked
      /\ out.pendingPerKey = tr.pendingPerKey
  BY <1>1 DEF SliceRecords, Remade
<1>5. out \in SliceRecords
  BY <1>1, <1>2, <1>3 DEF SliceRecords, Remade
<1>6. Tracked(out) = Tracked(tr)
  BY <1>4 DEF Tracked
<1>7. TrackerOK(out)
  BY <1>4, <1>6 DEF TrackerOK
<1>8. \A t \in Tracked(out) : ScopeContains(out, t)
  BY <1>4, <1>6 DEF ScopeContains, ContainsKey
<1>9. SliceOK(out)
  BY <1>1, <1>4, <1>7, <1>8 DEF SliceOK
<1> QED BY <1>4, <1>5, <1>9 DEF GoodSlices

\* A slice with the executables of a load, of which some may be loaded once more.
LEMMA WithExecutablesOK ==
  ASSUME NEW s \in GoodSlices, NEW tasks \in SUBSET AnyTask, IsFiniteSet(tasks),
         \A t \in tasks : s.min <= t.key /\ t.key < s.max /\ t.group \in s.predicate,
         NEW its, IteratorsOK(its, s.min, s.max),
         NEW out, out = WithExecutables(s, tasks, its)
  PROVE  /\ out \in GoodSlices /\ out.min = s.min /\ out.max = s.max /\ out.predicate = s.predicate
         /\ out.iterators = its /\ out.pending = s.pending \cup tasks /\ out.acked = s.acked \ tasks
<1> DEFINE tr == [pending |-> s.pending \cup tasks, acked |-> s.acked \ tasks,
                  pendingPerKey |-> [g \in Groups |-> s.pendingPerKey[g] + CountOf(tasks, g)]]
<1>1. /\ tr.pending = s.pending \cup tasks /\ tr.acked = s.acked \ tasks
      /\ tr.pendingPerKey = [g \in Groups |-> s.pendingPerKey[g] + CountOf(tasks, g)]
  OBVIOUS
<1>2. s \in SliceRecords
  BY SliceFields
<1>3. out = Remade(s, its, tr)
  BY <1>2 DEF WithExecutables, SliceRecords, Remade
<1> HIDE DEF tr
<1>4. /\ TrackerOK(s)
      /\ \A t \in Tracked(s) : s.min <= t.key /\ t.key < s.max /\ t.group \in s.predicate
  BY SliceFields
<1>5. /\ s.pending \in SUBSET AnyTask /\ s.acked \in SUBSET AnyTask /\ s.pending \cap s.acked = {}
      /\ IsFiniteSet(s.pending) /\ IsFiniteSet(s.acked)
      /\ \A g \in Groups : s.pendingPerKey[g] \in Nat /\ CountOf(Tracked(s), g) <= s.pendingPerKey[g]
  BY <1>4 DEF TrackerOK
<1>6. Tracked(tr) = Tracked(s) \cup tasks
  BY <1>1 DEF Tracked
<1>7. IsFiniteSet(Tracked(s))
  BY <1>5, FS_Union DEF Tracked
<1>8. ASSUME NEW g \in Groups
      PROVE  /\ s.pendingPerKey[g] + CountOf(tasks, g) \in Nat
             /\ CountOf(Tracked(tr), g) <= s.pendingPerKey[g] + CountOf(tasks, g)
  <2>1. CountOf(Tracked(s), g) \in Nat /\ CountOf(tasks, g) \in Nat /\ CountOf(Tracked(tr), g) \in Nat
    <3>1. IsFiniteSet(Tracked(tr))
      BY <1>6, <1>7, FS_Union
    <3> QED BY <1>7, <3>1, CountFinite
  <2>2. CountOf(Tracked(tr), g) <= CountOf(Tracked(s), g) + CountOf(tasks, g)
    BY <1>6, <1>7, CountUnion
  <2> QED BY <1>5, <2>1, <2>2
<1>9. IsFiniteSet(tr.pending) /\ IsFiniteSet(tr.acked)
  <2>1. IsFiniteSet(s.pending \cup tasks)
    BY <1>5, FS_Union
  <2>2. IsFiniteSet(s.acked \ tasks)
    BY <1>5, FS_Subset
  <2> QED BY <1>1, <2>1, <2>2
<1>10. /\ tr.pending \in SUBSET AnyTask /\ tr.acked \in SUBSET AnyTask
       /\ tr.pending \cap tr.acked = {}
  BY <1>1, <1>5
<1>11. TrackerOK(tr)
  <2>1. /\ tr.pendingPerKey \in [Groups -> Nat]
        /\ \A g \in Groups : CountOf(Tracked(tr), g) <= tr.pendingPerKey[g]
    BY <1>1, <1>8
  <2> QED BY <1>9, <1>10, <2>1 DEF TrackerOK
<1>12. \A t \in Tracked(tr) : s.min <= t.key /\ t.key < s.max /\ t.group \in s.predicate
  BY <1>4, <1>6
<1> QED BY <1>1, <1>3, <1>11, <1>12, MakeSlice

\* A slice that has read on from the store has what it held and is stored.
LEMMA SelectTasksOK ==
  ASSUME NEW s \in GoodSlices, stored \in SUBSET AnyTask, IsFiniteSet(stored), NEW out \in SelectTasks(s)
  PROVE  /\ out \in GoodSlices /\ out.min = s.min /\ out.max = s.max
         /\ out.pending \subseteq s.pending \cup stored /\ out.acked \subseteq s.acked
         /\ Len(out.iterators) \in Nat
         /\ \A t \in stored : Holds(s, t) => Holds(out, t)
<1> DEFINE its == s.iterators
           inStore == {t \in stored : \E n \in DOMAIN its : ContainsKey(its[n], t.key)}
           passing == {t \in inStore : t.group \in s.predicate}
           Upto(key) == {t \in passing : t.key < key}
<1>1. /\ IteratorsOK(its, s.min, s.max) /\ s.min \in Nat /\ s.max \in Nat
      /\ its \in Seq(AnyRange) /\ DOMAIN its = 1..Len(its)
  BY SliceFields
<1>2. \A t \in stored : t.key \in Nat /\ t \in AnyTask
  BY DEF AnyTask
<1>3. \A t \in stored : t \in passing <=> Reads(its, t.key) /\ t.group \in s.predicate
  BY <1>1 DEF Reads
<1>4. /\ passing \in SUBSET stored
      /\ \A t \in passing : s.min <= t.key /\ t.key < s.max /\ t.group \in s.predicate
  <2> SUFFICES ASSUME NEW t \in passing PROVE s.min <= t.key /\ t.key < s.max /\ t.group \in s.predicate
    OBVIOUS
  <2>1. t \in stored /\ Reads(its, t.key) /\ t.group \in s.predicate
    BY <1>3
  <2> HIDE DEF its
  <2> QED BY <1>1, <1>2, <2>1, ReadsInRange
<1>5. \/ out = WithExecutables(s, passing, <<>>)
      \/ \E key \in StopKeys(s, inStore) : out = WithExecutables(s, Upto(key), IteratorsAfter(its, key))
  BY Zenon DEF SelectTasks
<1>6. \A key \in StopKeys(s, inStore) : key \in Nat
  <2> SUFFICES ASSUME NEW key \in StopKeys(s, inStore) PROVE key \in Nat
    OBVIOUS
  <2>1. CASE \E t \in inStore : key = t.key + 1
    BY <1>2, <2>1
  <2>2. CASE \E n \in DOMAIN its : key = its[n].min
    <3>1. \A n \in DOMAIN its : its[n] \in AnyRange
      BY <1>1
    <3> QED BY <2>2, <3>1 DEF AnyRange
  <2> QED BY <2>1, <2>2 DEF StopKeys
<1> HIDE DEF passing, inStore
<1>7. ASSUME NEW key \in Nat \cup {-1}, NEW left, IteratorsOK(left, s.min, s.max),
             NEW tasks \in SUBSET passing,
             \A t \in passing : t \in tasks \/ Reads(left, t.key),
             out = WithExecutables(s, tasks, left)
      PROVE  /\ out \in GoodSlices /\ out.min = s.min /\ out.max = s.max
             /\ out.pending \subseteq s.pending \cup stored /\ out.acked \subseteq s.acked
             /\ Len(out.iterators) \in Nat
             /\ \A t \in stored : Holds(s, t) => Holds(out, t)
  <2>1. tasks \in SUBSET AnyTask /\ IsFiniteSet(tasks) /\ tasks \subseteq stored
        /\ \A t \in tasks : s.min <= t.key /\ t.key < s.max /\ t.group \in s.predicate
    BY <1>4, <1>7, FS_Subset
  <2>2. /\ out \in GoodSlices /\ out.min = s.min /\ out.max = s.max /\ out.predicate = s.predicate
        /\ out.iterators = left /\ out.pending = s.pending \cup tasks /\ out.acked = s.acked \ tasks
    BY <1>7, <2>1, WithExecutablesOK
  <2>3. Len(left) \in Nat
    <3>1. left \in Seq(AnyRange)
      BY <1>7 DEF IteratorsOK
    <3> QED BY <3>1
  <2>4. ASSUME NEW t \in stored, Holds(s, t) PROVE Holds(out, t)
    <3>1. CASE t \in s.pending
      BY <2>2, <3>1 DEF Holds
    <3>2. CASE t \notin s.pending
      <4>1. t \in passing
        BY <1>3, <2>4, <3>2 DEF Holds
      <4>2. t.group \in s.predicate
        BY <1>4, <4>1
      <4> QED BY <1>7, <2>2, <4>1, <4>2 DEF Holds
    <3> QED BY <3>1, <3>2
  <2> QED BY <2>1, <2>2, <2>3, <2>4
<1>8. CASE out = WithExecutables(s, passing, <<>>)
  <2> DEFINE none == <<>>
  <2>1. IteratorsOK(none, s.min, s.max)
    BY DEF IteratorsOK
  <2>2. out = WithExecutables(s, passing, none)
    BY <1>8
  <2>3. -1 \in Nat \cup {-1} /\ passing \in SUBSET passing
        /\ \A t \in passing : t \in passing \/ Reads(none, t.key)
    OBVIOUS
  <2> HIDE DEF none
  <2> QED BY <1>7, <2>1, <2>2, <2>3
<1>9. ASSUME NEW key \in StopKeys(s, inStore), out = WithExecutables(s, Upto(key), IteratorsAfter(its, key))
      PROVE  /\ out \in GoodSlices /\ out.min = s.min /\ out.max = s.max
             /\ out.pending \subseteq s.pending \cup stored /\ out.acked \subseteq s.acked
             /\ Len(out.iterators) \in Nat
             /\ \A t \in stored : Holds(s, t) => Holds(out, t)
  <2> DEFINE left == IteratorsAfter(its, key)
             tasks == Upto(key)
  <2>1. key \in Nat
    BY <1>6
  <2>2. IteratorsOK(left, s.min, s.max) /\ \A k \in Nat : Reads(its, k) /\ key <= k => Reads(left, k)
    <3> HIDE DEF its
    <3> QED BY <1>1, <2>1, AfterOK
  <2>3. tasks \in SUBSET passing
    OBVIOUS
  <2>4. ASSUME NEW t \in passing PROVE t \in tasks \/ Reads(left, t.key)
    <3>1. t \in stored /\ t.key \in Nat
      BY <1>2, <1>4
    <3>2. Reads(its, t.key)
      BY <1>3, <3>1
    <3>3. t.key < key \/ key <= t.key
      BY <2>1, <3>1
    <3> HIDE DEF left
    <3> QED BY <2>2, <3>1, <3>2, <3>3
  <2>5. out = WithExecutables(s, tasks, left)
    BY <1>9
  <2> HIDE DEF tasks, left
  <2> QED BY <1>7, <2>1, <2>2, <2>3, <2>4, <2>5
<1> QED BY <1>5, <1>8, <1>9

\* An executable of a slice is acknowledged.
Acknowledged(s, t) == [s EXCEPT !.pending = @ \ {t}, !.acked = @ \cup {t}]

\* Acknowledging a task takes nothing else from its slice.
LEMMA AckedOK ==
  ASSUME NEW s \in GoodSlices, NEW t \in s.pending, NEW out, out = Acknowledged(s, t)
  PROVE  /\ out \in GoodSlices /\ out.min = s.min /\ out.max = s.max
         /\ out.pending \subseteq s.pending /\ out.acked = s.acked \cup {t}
         /\ \A u : u # t /\ Holds(s, u) => Holds(out, u)
<1> DEFINE tr == [pending |-> s.pending \ {t}, acked |-> s.acked \cup {t}, pendingPerKey |-> s.pendingPerKey]
<1>1. /\ tr.pending = s.pending \ {t} /\ tr.acked = s.acked \cup {t} /\ tr.pendingPerKey = s.pendingPerKey
  OBVIOUS
<1>2. /\ s \in SliceRecords /\ TrackerOK(s) /\ IteratorsOK(s.iterators, s.min, s.max)
      /\ \A u \in Tracked(s) : s.min <= u.key /\ u.key < s.max /\ u.group \in s.predicate
  BY SliceFields
<1>3. out = Remade(s, s.iterators, tr)
  BY <1>2 DEF SliceRecords, Remade, Acknowledged
<1> HIDE DEF tr
<1>4. Tracked(tr) = Tracked(s)
  BY <1>1 DEF Tracked
<1>5. TrackerOK(tr)
  <2>1. /\ s.pending \in SUBSET AnyTask /\ s.acked \in SUBSET AnyTask /\ s.pending \cap s.acked = {}
        /\ IsFiniteSet(s.pending) /\ IsFiniteSet(s.acked)
    BY <1>2 DEF TrackerOK
  <2>2. IsFiniteSet(tr.pending) /\ IsFiniteSet(tr.acked)
    BY <1>1, <2>1, FS_RemoveElement, FS_AddElement
  <2>3. tr.pending \in SUBSET AnyTask /\ tr.acked \in SUBSET AnyTask /\ tr.pending \cap tr.acked = {}
    BY <1>1, <2>1
  <2>4. /\ tr.pendingPerKey \in [Groups -> Nat]
        /\ \A g \in Groups : CountOf(Tracked(tr), g) <= tr.pendingPerKey[g]
    BY <1>1, <1>2, <1>4 DEF TrackerOK
  <2> QED BY <2>2, <2>3, <2>4 DEF TrackerOK
<1>6. \A u \in Tracked(tr) : s.min <= u.key /\ u.key < s.max /\ u.group \in s.predicate
  BY <1>2, <1>4
<1>7. /\ out \in GoodSlices /\ out.min = s.min /\ out.max = s.max /\ out.predicate = s.predicate
      /\ out.iterators = s.iterators /\ out.pending = tr.pending /\ out.acked = tr.acked
  <2> DEFINE its == s.iterators
  <2>1. IteratorsOK(its, s.min, s.max) /\ out = Remade(s, its, tr)
    BY <1>2, <1>3
  <2> HIDE DEF its
  <2>2. /\ out \in GoodSlices /\ out.min = s.min /\ out.max = s.max /\ out.predicate = s.predicate
        /\ out.iterators = its /\ out.pending = tr.pending /\ out.acked = tr.acked
    BY <1>5, <1>6, <2>1, MakeSlice
  <2> QED BY <2>2 DEF its
<1>8. \A u : u # t /\ Holds(s, u) => Holds(out, u)
  BY <1>1, <1>7 DEF Holds
<1> QED BY <1>1, <1>7, <1>8

\* One slice in the place of another.
OneFor(rs, s, x, out) ==
    /\ out \in ReaderMaps
    /\ s \in AllSlices(rs) /\ x \in AllSlices(out) /\ x.min = s.min /\ x.max = s.max
    /\ \A y \in AllSlices(out) : y = x \/ y \in AllSlices(rs)
    /\ \A y \in AllSlices(rs) : y = s \/ y \in AllSlices(out)

LEMMA InPlace ==
  ASSUME NEW rs \in ReaderMaps, NEW id \in DOMAIN rs, NEW n \in 1..Len(rs[id].slices),
         NEW x \in GoodSlices, x.min = rs[id].slices[n].min, x.max = rs[id].slices[n].max,
         NEW r, r.slices = [rs[id].slices EXCEPT ![n] = x],
         r = [slices |-> r.slices, nextReadSlice |-> r.nextReadSlice],
         r.nextReadSlice \in {Removed, 0} \cup 1..Len(rs[id].slices),
         NEW out, out = WithReader(rs, id, r)
  PROVE  OneFor(rs, rs[id].slices[n], x, out)
<1> DEFINE q == rs[id].slices
           s == q[n]
           u == r.slices
<1>1. q \in Seq(GoodSlices) /\ InOrder(q) /\ Len(q) \in Nat /\ DOMAIN q = 1..Len(q)
  BY MapFields, ReaderFields
<1>2. u \in [1..Len(q) -> GoodSlices] /\ u[n] = x /\ \A k \in 1..Len(q) : k # n => u[k] = q[k]
  BY <1>1
<1> HIDE DEF u
<1>3. u \in Seq(GoodSlices) /\ Len(u) = Len(q)
  BY <1>1, <1>2, FunctionIsSeq
<1>4. InOrder(u)
  <2>1. \A k \in 1..Len(q) : u[k].min = q[k].min /\ u[k].max = q[k].max
    BY <1>2
  <2> QED BY <1>1, <1>3, <2>1 DEF InOrder
<1>5. r \in GoodReaders
  <2>1. r = [slices |-> u, nextReadSlice |-> r.nextReadSlice] /\ r.nextReadSlice \in {Removed, 0} \cup 1..Len(u)
    BY <1>3 DEF u
  <2> QED BY <1>3, <1>4, <2>1, MakeReader
<1>6. /\ out = [i \in DOMAIN rs |-> IF i = id THEN r ELSE rs[i]] /\ DOMAIN out = DOMAIN rs
      /\ out[id] = r /\ \A i \in DOMAIN rs \ {id} : out[i] = rs[i]
  <2>1. DOMAIN rs \cup {id} = DOMAIN rs
    OBVIOUS
  <2> QED BY <2>1 DEF WithReader
<1>7. out \in ReaderMaps
  <2>1. out \in [DOMAIN rs -> GoodReaders]
    BY <1>5, <1>6, MapFields
  <2> QED BY <2>1, MapFields, MakeMap
<1>8. s \in AllSlices(rs)
  BY <1>1 DEF AllSlices, Elements
<1>9. x \in AllSlices(out)
  <2>1. x \in Elements(out[id].slices)
    BY <1>2, <1>3, <1>6 DEF Elements, u
  <2> QED BY <1>6, <2>1 DEF AllSlices
<1>10. ASSUME NEW y \in AllSlices(out) PROVE y = x \/ y \in AllSlices(rs)
  <2>1. PICK i \in DOMAIN rs : y \in Elements(out[i].slices)
    BY <1>6 DEF AllSlices
  <2>2. CASE i # id
    BY <1>6, <2>1, <2>2 DEF AllSlices
  <2>3. CASE i = id
    <3>1. PICK k \in 1..Len(q) : y = u[k]
      BY <1>3, <1>6, <2>1, <2>3 DEF Elements, u
    <3>2. y = x \/ y \in Elements(q)
      BY <1>2, <3>1 DEF Elements
    <3> QED BY <3>2 DEF AllSlices
  <2> QED BY <2>2, <2>3
<1>11. ASSUME NEW y \in AllSlices(rs) PROVE y = s \/ y \in AllSlices(out)
  <2>1. PICK i \in DOMAIN rs : y \in Elements(rs[i].slices)
    BY DEF AllSlices
  <2>2. CASE i # id
    BY <1>6, <2>1, <2>2 DEF AllSlices
  <2>3. CASE i = id
    <3>1. PICK k \in 1..Len(q) : y = q[k]
      BY <2>1, <2>3 DEF Elements
    <3>2. y = s \/ y \in Elements(u)
      BY <1>2, <1>3, <3>1 DEF Elements
    <3> QED BY <1>6, <3>2 DEF AllSlices, u
  <2> QED BY <2>2, <2>3
<1> QED BY <1>7, <1>8, <1>9, <1>10, <1>11 DEF OneFor

-----------------------------------------------------------------------------
(* The inductive invariant                                                 *)

\* The slices of the readers are between lo and hi, track tasks A of which E are executed, and
\* below hi hold all that are not.
ReadersOK(rs, A, E, lo, hi) ==
    /\ rs \in ReaderMaps
    /\ \A s \in AllSlices(rs) : lo <= s.min /\ s.max <= hi /\ s.pending \subseteq A /\ s.acked \subseteq E
    /\ \A t \in A \ E : t.key < hi => \E s \in AllSlices(rs) : Holds(s, t)

MinsAbove(rs, mark) == \A s \in AllSlices(rs) : mark <= s.min

\* One slice is changed in its place: loading, acknowledging.
LEMMA OneChanged ==
  ASSUME NEW rs, NEW A, NEW E, NEW F, E \subseteq F, NEW lo, NEW hi, ReadersOK(rs, A, E, lo, hi),
         NEW s, NEW x, NEW out, OneFor(rs, s, x, out), x.pending \subseteq A, x.acked \subseteq F,
         \A t \in A \ F : Holds(s, t) => Holds(x, t)
  PROVE  /\ ReadersOK(out, A, F, lo, hi)
         /\ \A mark : MinsAbove(rs, mark) => MinsAbove(out, mark)
<1>1. /\ out \in ReaderMaps /\ s \in AllSlices(rs) /\ x \in AllSlices(out) /\ x.min = s.min /\ x.max = s.max
      /\ \A y \in AllSlices(out) : y = x \/ y \in AllSlices(rs)
      /\ \A y \in AllSlices(rs) : y = s \/ y \in AllSlices(out)
  BY DEF OneFor
<1>2. \A y \in AllSlices(rs) : lo <= y.min /\ y.max <= hi /\ y.pending \subseteq A /\ y.acked \subseteq E
  BY DEF ReadersOK
<1>3. \A y \in AllSlices(out) : lo <= y.min /\ y.max <= hi /\ y.pending \subseteq A /\ y.acked \subseteq F
  <2> SUFFICES ASSUME NEW y \in AllSlices(out)
               PROVE  lo <= y.min /\ y.max <= hi /\ y.pending \subseteq A /\ y.acked \subseteq F
    OBVIOUS
  <2>1. CASE y = x
    BY <1>1, <1>2, <2>1
  <2>2. CASE y \in AllSlices(rs)
    BY <1>2, <2>2
  <2> QED BY <1>1, <2>1, <2>2
<1>4. ASSUME NEW t \in A \ F, t.key < hi PROVE \E y \in AllSlices(out) : Holds(y, t)
  <2>1. PICK y \in AllSlices(rs) : Holds(y, t)
    BY <1>4 DEF ReadersOK
  <2> QED BY <1>1, <2>1
<1>5. ASSUME NEW mark, MinsAbove(rs, mark) PROVE MinsAbove(out, mark)
  BY <1>1, <1>5 DEF MinsAbove
<1> QED BY <1>1, <1>3, <1>4, <1>5 DEF ReadersOK

\* The readers go on, with slices X for what is new from hi to top.
LEMMA ReadOn ==
  ASSUME NEW rs, NEW A \in SUBSET AnyTask, NEW E, NEW lo \in Nat, NEW hi \in Nat, NEW top \in Nat, hi <= top,
         ReadersOK(rs, A, E, lo, hi),
         NEW X \in SUBSET GoodSlices,
         \A x \in X : lo <= x.min /\ x.max <= top /\ x.pending = {} /\ x.acked = {},
         \A t \in A : hi <= t.key /\ t.key < top => \E x \in X : Holds(x, t),
         NEW out \in ReaderMaps, Keeps(AllSlices(rs) \cup X, AllSlices(out))
  PROVE  ReadersOK(out, A, E, lo, top)
<1> DEFINE V == AllSlices(rs) \cup X
           W == AllSlices(out)
<1>1. /\ rs \in ReaderMaps
      /\ \A s \in AllSlices(rs) : lo <= s.min /\ s.max <= hi /\ s.pending \subseteq A /\ s.acked \subseteq E
      /\ \A t \in A \ E : t.key < hi => \E s \in AllSlices(rs) : Holds(s, t)
  BY DEF ReadersOK
<1>2. AllSlices(rs) \in SUBSET GoodSlices /\ W \in SUBSET GoodSlices
  BY <1>1, SlicesGood
<1>3. \A s \in GoodSlices : s.min \in Nat /\ s.max \in Nat
  BY SliceFields
<1>4. \A v \in V : lo <= v.min /\ v.max <= top /\ v.pending \subseteq A /\ v.acked \subseteq E
  <2> SUFFICES ASSUME NEW v \in V PROVE lo <= v.min /\ v.max <= top /\ v.pending \subseteq A /\ v.acked \subseteq E
    OBVIOUS
  <2>1. CASE v \in X
    BY <2>1
  <2>2. CASE v \in AllSlices(rs)
    BY <1>1, <1>2, <1>3, <2>2
  <2> QED BY <2>1, <2>2
<1>5. V \in SUBSET GoodSlices /\ Keeps(V, W)
  BY <1>2
<1>6. \A t \in A \ E : t.key < top => \E v \in V : Holds(v, t)
  <2> SUFFICES ASSUME NEW t \in A \ E, t.key < top PROVE \E v \in V : Holds(v, t)
    OBVIOUS
  <2>1. t.key \in Nat
    BY DEF AnyTask
  <2>2. CASE t.key < hi
    BY <1>1, <2>2
  <2>3. CASE hi <= t.key
    BY <2>3
  <2> QED BY <2>1, <2>2, <2>3
<1> HIDE DEF V, W
<1>7. ASSUME NEW w \in W PROVE lo <= w.min /\ w.max <= top /\ w.pending \subseteq A /\ w.acked \subseteq E
  <2>1. w.min \in Nat /\ w.max \in Nat
    BY <1>2, <1>3
  <2>2. PICK v \in V : v.min <= w.min
    BY <1>5 DEF Keeps
  <2>3. PICK u \in V : w.max <= u.max
    BY <1>5 DEF Keeps
  <2>4. v.min \in Nat /\ u.max \in Nat
    BY <1>3, <1>5
  <2>5. lo <= v.min /\ u.max <= top
    BY <1>4
  <2>6. lo <= w.min
    BY <2>1, <2>2, <2>4, <2>5
  <2>7. w.max <= top
    BY <2>1, <2>3, <2>4, <2>5
  <2>8. w.pending \subseteq A
    <3>1. \A t \in w.pending : \E z \in V : t \in z.pending
      BY <1>5 DEF Keeps
    <3> QED BY <1>4, <3>1
  <2>9. w.acked \subseteq E
    <3>1. \A t \in w.acked : \E z \in V : t \in z.acked
      BY <1>5 DEF Keeps
    <3> QED BY <1>4, <3>1
  <2> QED BY <2>6, <2>7, <2>8, <2>9
<1>8. ASSUME NEW t \in A \ E, t.key < top PROVE \E w \in W : Holds(w, t)
  <2>1. t \in AnyTask /\ (\A v \in V : t \notin v.acked) /\ (\E v \in V : Holds(v, t))
    BY <1>4, <1>6, <1>8
  <2> QED BY <1>5, <2>1 DEF Keeps
<1> QED BY <1>7, <1>8 DEF ReadersOK, W

\* What evolves keeps its invariant, and tasks above the read part do not matter to it.
LEMMA EvolvesOK ==
  ASSUME NEW rs, NEW A \in SUBSET AnyTask, NEW E, NEW lo \in Nat, NEW hi \in Nat, ReadersOK(rs, A, E, lo, hi),
         NEW out, Evolves(rs, out)
  PROVE  ReadersOK(out, A, E, lo, hi)
<1> DEFINE none == {}
<1>1. Keeps(AllSlices(rs) \cup none, AllSlices(out)) /\ out \in ReaderMaps
  BY DEF Evolves
<1>2. none \in SUBSET GoodSlices /\ \A x \in none : lo <= x.min /\ x.max <= hi /\ x.pending = {} /\ x.acked = {}
  OBVIOUS
<1>3. hi <= hi /\ \A t \in A : hi <= t.key /\ t.key < hi => \E x \in none : Holds(x, t)
  <2>1. \A t \in A : t.key \in Nat
    BY DEF AnyTask
  <2> QED BY <2>1
<1> HIDE DEF none
<1> QED BY <1>1, <1>2, <1>3, ReadOn

LEMMA MoreTasks ==
  ASSUME NEW rs, NEW A, NEW B, A \subseteq B, NEW E, NEW lo, NEW hi,
         \A t \in B \ A : ~(t.key < hi), ReadersOK(rs, A, E, lo, hi)
  PROVE  ReadersOK(rs, B, E, lo, hi)
<1>1. \A s \in AllSlices(rs) : lo <= s.min /\ s.max <= hi /\ s.pending \subseteq B /\ s.acked \subseteq E
  BY DEF ReadersOK
<1>2. \A t \in B \ E : t.key < hi => \E s \in AllSlices(rs) : Holds(s, t)
  <2> SUFFICES ASSUME NEW t \in B \ E, t.key < hi PROVE \E s \in AllSlices(rs) : Holds(s, t)
    OBVIOUS
  <2>1. t \in A \ E
    OBVIOUS
  <2> QED BY <2>1 DEF ReadersOK
<1> QED BY <1>1, <1>2 DEF ReadersOK

\* Keys without the task ID.
LEMMA FireTimes ==
  ASSUME NEW k \in Nat
  PROVE  FireTimeOnly(k) \in Nat /\ FireTimeOnly(k) <= k /\ (~IsScheduled => FireTimeOnly(k) = k)
<1>1. TaskIDsPerTime \in Nat /\ TaskIDsPerTime > 0 /\ (~IsScheduled => TaskIDsPerTime = 1)
  BY QueueConstants DEF IsScheduled
<1> DEFINE n == TaskIDsPerTime
           d == k \div n
<1>2. d \in Nat /\ k % n \in Nat /\ k = n * d + (k % n)
  BY <1>1
<1>3. d * n = n * d /\ n * d \in Nat
  BY <1>1, <1>2
<1>4. n = 1 => d * n = k
  BY <1>2
<1> QED BY <1>1, <1>2, <1>3, <1>4 DEF FireTimeOnly

LEMMA FirstKeys == FirstKey \in Nat /\ MaxKey \in Nat /\ FirstKey <= MaxKey
BY QueueConstants DEF FirstKey, MinimumKey

LEMMA TaskFields == \A t \in Tasks : t \in AnyTask /\ t.key \in FirstKey..MaxKey - 1
<1>1. FirstKey..MaxKey - 1 \subseteq Nat
  BY FirstKeys
<1> QED BY <1>1 DEF Tasks, AnyTask

ScopeRecords == [min : Nat, max : Nat, predicate : SUBSET Universal]

ScopesOK(q, high) ==
    /\ q \in Seq(ScopeRecords) /\ 0 < Len(q) /\ InOrder(q)
    /\ \A n \in 1..Len(q) : FirstKey <= q[n].min /\ q[n].min <= q[n].max /\ q[n].max <= high

\* The scopes of a queue state, which may be saved while w is the read watermark, have all of the
\* tasks A below its own watermark that are not among those executed, E.
StateOK(st, A, E, w) ==
    /\ st.exclusiveReaderHighWatermark \in FirstKey..MaxKey /\ st.exclusiveReaderHighWatermark <= w
    /\ DOMAIN st.readerScopes \subseteq ReaderIDs
    /\ \A id \in DOMAIN st.readerScopes : ScopesOK(st.readerScopes[id], st.exclusiveReaderHighWatermark)
    /\ \A t \in A \ E : t.key < st.exclusiveReaderHighWatermark =>
          \E id \in DOMAIN st.readerScopes : \E n \in 1..Len(st.readerScopes[id]) :
              ScopeContains(st.readerScopes[id][n], t)

\* The state of a queue that has none.
LEMMA NoQueueStateOK ==
  ASSUME NEW A \in SUBSET Tasks, NEW E, NEW w, FirstKey <= w
  PROVE  /\ StateOK(NoQueueState, A, E, w) /\ LeastKey(NoQueueState) = FirstKey
         /\ NoQueueState.exclusiveReaderHighWatermark = FirstKey
<1>1. /\ NoQueueState.exclusiveReaderHighWatermark = FirstKey
      /\ DOMAIN NoQueueState.readerScopes = {}
  BY DEF NoQueueState, QueueState
<1>2. FirstKey \in FirstKey..MaxKey
  BY FirstKeys
<1>3. \A t \in A : ~(t.key < FirstKey)
  BY FirstKeys, TaskFields
<1>4. LeastKey(NoQueueState) = FirstKey
  <2> DEFINE S == {FirstKey} \cup {NoQueueState.readerScopes[id][1].min : id \in DOMAIN NoQueueState.readerScopes}
  <2>1. S = {FirstKey}
    BY <1>1
  <2>2. LeastKey(NoQueueState) = Min(S)
    BY <1>1 DEF LeastKey
  <2>3. FirstKey <= FirstKey
    BY FirstKeys
  <2> HIDE DEF S
  <2> QED BY <2>1, <2>2, <2>3 DEF Min
<1> QED BY <1>1, <1>2, <1>3, <1>4 DEF StateOK

\* What is good as a state stays so.
LEMMA StateStays ==
  ASSUME NEW st, NEW A, NEW E, NEW w \in Nat, StateOK(st, A, E, w),
         NEW B \in SUBSET AnyTask, A \subseteq B, NEW F, E \subseteq F, NEW v \in Nat, w <= v,
         \A t \in B \ A : w <= t.key
  PROVE  StateOK(st, B, F, v)
<1> DEFINE high == st.exclusiveReaderHighWatermark
<1>1. high \in FirstKey..MaxKey /\ high <= w /\ high \in Nat
  BY FirstKeys DEF StateOK
<1>2. high <= v
  BY <1>1
<1>3. \A t \in B \ F : t.key < high => t \in A \ E
  <2> SUFFICES ASSUME NEW t \in B \ F, t.key < high PROVE t \in A
    OBVIOUS
  <2>1. t.key \in Nat
    BY DEF AnyTask
  <2> QED BY <1>1, <2>1
<1> QED BY <1>1, <1>2, <1>3 DEF StateOK

\* The least key of a state.
LEMMA LeastKeyOK ==
  ASSUME NEW st, NEW A, NEW E, NEW w, StateOK(st, A, E, w)
  PROVE  /\ LeastKey(st) \in Nat /\ FirstKey <= LeastKey(st)
         /\ LeastKey(st) <= st.exclusiveReaderHighWatermark
         /\ \A id \in DOMAIN st.readerScopes : \A n \in 1..Len(st.readerScopes[id]) :
               LeastKey(st) <= st.readerScopes[id][n].min
         /\ \A lo \in Nat : /\ lo <= st.exclusiveReaderHighWatermark
                            /\ \A id \in DOMAIN st.readerScopes : lo <= st.readerScopes[id][1].min
                            => lo <= LeastKey(st)
<1> DEFINE high == st.exclusiveReaderHighWatermark
           sc == st.readerScopes
           S == {high} \cup {sc[id][1].min : id \in DOMAIN sc}
<1>1. high \in Nat /\ FirstKey <= high
  BY FirstKeys DEF StateOK
<1>2. ASSUME NEW id \in DOMAIN sc
      PROVE  /\ Len(sc[id]) \in Nat /\ 1 \in 1..Len(sc[id]) /\ InOrder(sc[id])
             /\ \A n \in 1..Len(sc[id]) : sc[id][n].min \in Nat /\ sc[id][n].max \in Nat
                                          /\ FirstKey <= sc[id][n].min /\ sc[id][n].min <= sc[id][n].max
  <2>1. ScopesOK(sc[id], high)
    BY DEF StateOK
  <2> HIDE DEF sc
  <2>2. sc[id] \in Seq(ScopeRecords) /\ 0 < Len(sc[id])
    BY <2>1 DEF ScopesOK
  <2>3. Len(sc[id]) \in Nat /\ \A n \in 1..Len(sc[id]) : sc[id][n] \in ScopeRecords
    BY <2>2
  <2> QED BY <2>1, <2>2, <2>3 DEF ScopesOK, ScopeRecords
<1>3. S \in SUBSET Nat /\ S # {}
  BY <1>1, <1>2
<1>4. LeastKey(st) = Min(S)
  BY DEF LeastKey
<1>5. Min(S) \in S /\ \A y \in S : Min(S) <= y
  <2> HIDE DEF S
  <2>1. \E x \in S : \A y \in S : x <= y
    BY <1>3, LeastNumber
  <2> QED BY <2>1 DEF Min
<1> DEFINE k == LeastKey(st)
<1>6. k \in Nat /\ k \in S /\ k <= high /\ \A id \in DOMAIN sc : k <= sc[id][1].min
  <2>1. high \in S /\ \A id \in DOMAIN sc : sc[id][1].min \in S
    OBVIOUS
  <2> HIDE DEF S
  <2> QED BY <1>3, <1>4, <1>5, <2>1
<1>7. k = high \/ \E id \in DOMAIN sc : k = sc[id][1].min
  BY <1>6
<1> HIDE DEF S, k
<1>8. FirstKey <= k
  BY <1>1, <1>2, <1>7
<1>9. ASSUME NEW id \in DOMAIN sc, NEW n \in 1..Len(sc[id]) PROVE k <= sc[id][n].min
  <2>1. k <= sc[id][1].min
    BY <1>6
  <2>2. sc[id][1].min \in Nat /\ sc[id][1].max \in Nat /\ sc[id][n].min \in Nat
        /\ sc[id][1].min <= sc[id][1].max
    BY <1>2
  <2>3. n = 1 \/ sc[id][1].max <= sc[id][n].min
    BY <1>2 DEF InOrder
  <2> QED BY <1>6, <2>1, <2>2, <2>3
<1>10. ASSUME NEW lo \in Nat, lo <= high, \A id \in DOMAIN sc : lo <= sc[id][1].min PROVE lo <= k
  BY <1>7, <1>10
<1> QED BY <1>6, <1>8, <1>9, <1>10 DEF k

\* Readers for a state that was saved.
LEMMA ReadersOfOK ==
  ASSUME NEW st, NEW A \in SUBSET AnyTask, NEW E, NEW w, StateOK(st, A, E, w),
         NEW lo, lo = LeastKey(st)
  PROVE  ReadersOK(ReadersOf(st), A, E, lo, st.exclusiveReaderHighWatermark)
<1> DEFINE high == st.exclusiveReaderHighWatermark
           sc == st.readerScopes
           list(id) == [n \in DOMAIN sc[id] |-> NewSlice(sc[id][n])]
           rs == [id \in DOMAIN sc |-> NewReader(list(id))]
<1>1. ReadersOf(st) = rs
  BY DEF ReadersOf
<1>2. DOMAIN sc \in SUBSET ReaderIDs /\ \A id \in DOMAIN sc : ScopesOK(sc[id], high)
  BY DEF StateOK
<1>3. \A id \in DOMAIN sc : \A n \in 1..Len(sc[id]) : lo <= sc[id][n].min
  BY LeastKeyOK
<1>4. ASSUME NEW id \in DOMAIN sc
      PROVE  /\ list(id) \in Seq(GoodSlices) /\ InOrder(list(id)) /\ Len(list(id)) = Len(sc[id])
             /\ \A n \in 1..Len(sc[id]) :
                   LET s == list(id)[n] IN
                   /\ lo <= s.min /\ s.max <= high /\ s.pending = {} /\ s.acked = {}
                   /\ \A t \in AnyTask : ScopeContains(sc[id][n], t) => Holds(s, t)
  <2> DEFINE q == sc[id]
             u == list(id)
  <2>1. /\ q \in Seq(ScopeRecords) /\ InOrder(q) /\ Len(q) \in Nat /\ DOMAIN q = 1..Len(q)
        /\ \A n \in 1..Len(q) : q[n].min <= q[n].max /\ q[n].max <= high
    BY <1>2 DEF ScopesOK
  <2>2. ASSUME NEW n \in 1..Len(q)
        PROVE  /\ NewSlice(q[n]) \in GoodSlices
               /\ NewSlice(q[n]).min = q[n].min /\ NewSlice(q[n]).max = q[n].max
               /\ NewSlice(q[n]).pending = {} /\ NewSlice(q[n]).acked = {}
               /\ \A t \in AnyTask : ScopeContains(q[n], t) => Holds(NewSlice(q[n]), t)
    <3> DEFINE a == q[n].min
               b == q[n].max
               P == q[n].predicate
               s == NewSlice(q[n])
    <3>1. q[n] \in ScopeRecords
      BY <2>1
    <3>2. q[n] = NewScope(a, b, P) /\ a \in Nat /\ b \in Nat /\ a <= b /\ P \in SUBSET Universal
      BY <2>1, <3>1 DEF ScopeRecords, NewScope
    <3>3. s = NewSlice(NewScope(a, b, P))
      BY <3>2
    <3>4. \A t \in AnyTask : ScopeContains(q[n], t) => a <= t.key /\ t.key < b /\ t.group \in P
      BY DEF ScopeContains, ContainsKey
    <3> HIDE DEF a, b, P, s
    <3>5. /\ s \in GoodSlices /\ s.min = a /\ s.max = b /\ P \subseteq s.predicate
          /\ s.pending = {} /\ s.acked = {}
          /\ \A t \in AnyTask : a <= t.key /\ t.key < b /\ t.group \in P => Holds(s, t)
      BY <3>2, <3>3, NewSliceOK
    <3>6. \A t \in AnyTask : ScopeContains(q[n], t) => Holds(s, t)
      BY <3>4, <3>5
    <3> QED BY <3>5, <3>6 DEF s, a, b
  <2>3. u = [n \in 1..Len(q) |-> NewSlice(q[n])]
    BY <2>1
  <2>4. u \in [1..Len(q) -> GoodSlices] /\ \A n \in 1..Len(q) : u[n] = NewSlice(q[n])
    BY <2>2, <2>3
  <2> HIDE DEF u
  <2>5. u \in Seq(GoodSlices) /\ Len(u) = Len(q)
    BY <2>1, <2>4, FunctionIsSeq
  <2>6. InOrder(u)
    BY <2>1, <2>2, <2>4, <2>5 DEF InOrder
  <2>7. \A n \in 1..Len(q) : lo <= q[n].min
    BY <1>3
  <2> HIDE DEF q
  <2>8. \A n \in 1..Len(q) :
           /\ lo <= u[n].min /\ u[n].max <= high /\ u[n].pending = {} /\ u[n].acked = {}
           /\ \A t \in AnyTask : ScopeContains(q[n], t) => Holds(u[n], t)
    BY <2>1, <2>2, <2>4, <2>7
  <2> QED BY <2>5, <2>6, <2>8 DEF u, q
<1> HIDE DEF list
<1>5. ASSUME NEW id \in DOMAIN sc PROVE rs[id] \in GoodReaders /\ rs[id].slices = list(id)
  <2>1. list(id) \in Seq(GoodSlices) /\ InOrder(list(id))
    BY <1>4
  <2> QED BY <2>1, NewReaderOK
<1> HIDE DEF sc
<1>6. DOMAIN rs = DOMAIN sc /\ rs \in [DOMAIN sc -> GoodReaders]
  BY <1>5
<1> HIDE DEF rs
<1>7. rs \in ReaderMaps
  BY <1>2, <1>6, MakeMap
<1>8. ASSUME NEW s \in AllSlices(rs)
      PROVE  lo <= s.min /\ s.max <= high /\ s.pending \subseteq A /\ s.acked \subseteq E
  <2>1. PICK id \in DOMAIN sc : s \in Elements(rs[id].slices)
    BY <1>6 DEF AllSlices
  <2>2. PICK n \in 1..Len(sc[id]) : s = list(id)[n]
    BY <1>4, <1>5, <2>1 DEF Elements
  <2> QED BY <1>4, <2>2
<1>9. ASSUME NEW t \in A \ E, t.key < high PROVE \E s \in AllSlices(rs) : Holds(s, t)
  <2>1. PICK id \in DOMAIN sc : \E n \in 1..Len(sc[id]) : ScopeContains(sc[id][n], t)
    BY <1>9 DEF StateOK, sc
  <2>2. PICK n \in 1..Len(sc[id]) : ScopeContains(sc[id][n], t)
    BY <2>1
  <2>3. Holds(list(id)[n], t)
    BY <1>4, <2>2
  <2>4. list(id)[n] \in Elements(rs[id].slices)
    BY <1>4, <1>5 DEF Elements
  <2>5. list(id)[n] \in AllSlices(rs)
    BY <1>6, <2>4 DEF AllSlices
  <2> QED BY <2>3, <2>5
<1> QED BY <1>1, <1>7, <1>8, <1>9 DEF ReadersOK

\* The state that is saved for the readers there are.
LEMMA ScopesOfOK ==
  ASSUME NEW rs, NEW A \in SUBSET AnyTask, NEW E, NEW lo \in Nat, NEW hi \in Nat, FirstKey <= lo, lo <= hi,
         ReadersOK(rs, A, E, lo, hi), NEW w, hi <= w, hi <= MaxKey,
         NEW st, st = QueueState(ScopesOf(rs), hi)
  PROVE  /\ StateOK(st, A, E, w) /\ st.exclusiveReaderHighWatermark = hi
         /\ lo <= LeastKey(st) /\ MinsAbove(rs, LeastKey(st))
<1> DEFINE D == {i \in DOMAIN rs : rs[i].slices # <<>>}
           list(id) == [n \in DOMAIN rs[id].slices |-> ScopeOf(rs[id].slices[n])]
<1>1. /\ st.exclusiveReaderHighWatermark = hi /\ st.readerScopes = [id \in D |-> list(id)]
  BY DEF QueueState, ScopesOf
<1>2. /\ rs \in ReaderMaps
      /\ \A s \in AllSlices(rs) : lo <= s.min /\ s.max <= hi
  BY DEF ReadersOK
<1>3. D \subseteq DOMAIN rs /\ D \subseteq ReaderIDs
  BY <1>2, MapFields
<1>4. ASSUME NEW id \in D
      PROVE  /\ ScopesOK(list(id), hi) /\ Len(list(id)) = Len(rs[id].slices)
             /\ \A n \in 1..Len(list(id)) : list(id)[n] = ScopeOf(rs[id].slices[n]) /\ lo <= list(id)[n].min
  <2> DEFINE q == rs[id].slices
             u == list(id)
  <2>1. /\ q \in Seq(GoodSlices) /\ InOrder(q) /\ Len(q) \in Nat /\ DOMAIN q = 1..Len(q) /\ q # <<>>
        /\ Elements(q) \subseteq AllSlices(rs)
    BY <1>2, <1>3, MapFields, ReaderFields, SlicesGood
  <2>2. 0 < Len(q)
    BY <2>1
  <2>3. ASSUME NEW n \in 1..Len(q)
        PROVE  /\ ScopeOf(q[n]) \in ScopeRecords
               /\ ScopeOf(q[n]).min = q[n].min /\ ScopeOf(q[n]).max = q[n].max
               /\ lo <= q[n].min /\ FirstKey <= q[n].min /\ q[n].min <= q[n].max /\ q[n].max <= hi
    <3>1. q[n] \in GoodSlices /\ q[n] \in AllSlices(rs)
      BY <2>1 DEF Elements
    <3>2. /\ q[n].min \in Nat /\ q[n].max \in Nat /\ q[n].min <= q[n].max
          /\ q[n].predicate \in SUBSET Universal
      BY <3>1, SliceFields
    <3>3. lo <= q[n].min /\ q[n].max <= hi
      BY <1>2, <3>1
    <3>4. FirstKey <= q[n].min
      BY <3>2, <3>3, FirstKeys
    <3> QED BY <3>2, <3>3, <3>4 DEF ScopeOf, NewScope, ScopeRecords
  <2>4. u = [n \in 1..Len(q) |-> ScopeOf(q[n])]
    BY <2>1
  <2>5. u \in [1..Len(q) -> ScopeRecords] /\ \A n \in 1..Len(q) : u[n] = ScopeOf(q[n])
    BY <2>3, <2>4
  <2> HIDE DEF u
  <2>6. u \in Seq(ScopeRecords) /\ Len(u) = Len(q)
    BY <2>1, <2>5, FunctionIsSeq
  <2>7. InOrder(u)
    BY <2>1, <2>3, <2>5, <2>6 DEF InOrder
  <2>8. \A n \in 1..Len(u) : FirstKey <= u[n].min /\ u[n].min <= u[n].max /\ u[n].max <= hi /\ lo <= u[n].min
    BY <2>3, <2>5, <2>6
  <2>9. ScopesOK(u, hi)
    BY <2>2, <2>6, <2>7, <2>8 DEF ScopesOK
  <2> QED BY <2>5, <2>6, <2>8, <2>9 DEF u
<1> HIDE DEF list
<1>5. DOMAIN st.readerScopes = D /\ \A id \in D : st.readerScopes[id] = list(id)
  BY <1>1
<1>6. ASSUME NEW s \in AllSlices(rs)
      PROVE  \E id \in D : \E n \in 1..Len(list(id)) : list(id)[n] = ScopeOf(s) /\ s = rs[id].slices[n]
  <2>1. PICK id \in DOMAIN rs : s \in Elements(rs[id].slices)
    BY DEF AllSlices
  <2>2. id \in D
    BY <2>1, NoSlice
  <2>3. PICK n \in 1..Len(rs[id].slices) : s = rs[id].slices[n]
    BY <2>1 DEF Elements
  <2> HIDE DEF D
  <2> QED BY <1>4, <2>2, <2>3
<1> HIDE DEF D
<1>7. ASSUME NEW t \in A \ E, t.key < hi
      PROVE  \E id \in D : \E n \in 1..Len(list(id)) : ScopeContains(list(id)[n], t)
  <2>1. PICK s \in AllSlices(rs) : Holds(s, t)
    BY <1>7 DEF ReadersOK
  <2>2. s \in GoodSlices /\ t \in AnyTask
    BY <1>2, SlicesGood
  <2>3. s.min <= t.key /\ t.key < s.max /\ t.group \in s.predicate
    BY <2>1, <2>2, HoldsInScope
  <2>4. ScopeContains(ScopeOf(s), t)
    BY <2>3 DEF ScopeOf, NewScope, ScopeContains, ContainsKey
  <2> QED BY <1>6, <2>4
<1>8. hi \in FirstKey..MaxKey
  BY FirstKeys
<1>9. StateOK(st, A, E, w)
  BY <1>1, <1>3, <1>4, <1>5, <1>7, <1>8 DEF StateOK
<1> DEFINE mark == LeastKey(st)
<1>10. /\ mark \in Nat
       /\ \A id \in D : \A n \in 1..Len(list(id)) : mark <= list(id)[n].min
       /\ (\A id \in D : lo <= list(id)[1].min) => lo <= mark
  BY <1>1, <1>5, <1>9, LeastKeyOK
<1>11. lo <= mark
  <2>1. \A id \in D : 1 \in 1..Len(list(id))
    BY <1>4 DEF ScopesOK
  <2> QED BY <1>4, <1>10, <2>1
<1>12. MinsAbove(rs, mark)
  <2> SUFFICES ASSUME NEW s \in AllSlices(rs) PROVE mark <= s.min
    BY DEF MinsAbove
  <2>1. PICK id \in D : \E n \in 1..Len(list(id)) : list(id)[n] = ScopeOf(s)
    BY <1>6
  <2>2. mark <= ScopeOf(s).min
    BY <1>10, <2>1
  <2> QED BY <2>2 DEF ScopeOf, NewScope
<1> QED BY <1>1, <1>9, <1>11, <1>12

HistoryInv ==
    /\ added \in SUBSET Tasks /\ IsFiniteSet(added)
    /\ executed \subseteq added /\ stored \subseteq added /\ added \ stored \subseteq executed

MarksInv ==
    /\ deletionWatermark \in Nat /\ nonReadableMin \in Nat /\ readWatermark \in Nat
    /\ FirstKey <= deletionWatermark /\ deletionWatermark <= nonReadableMin
    /\ nonReadableMin <= readWatermark /\ readWatermark <= MaxKey

ReadersInv == ReadersOK(readers, added, executed, deletionWatermark, nonReadableMin)

StatesInv == \A state \in {persisted, checkpointState} \cup saves : StateOK(state, added, executed, readWatermark)

\* What is stored is not below what the next deletion begins with, after a reload too.
StoredInv ==
    \A t \in stored : /\ FireTimeOnly(deletionWatermark) <= t.key
                      /\ \A state \in {persisted} \cup saves : FireTimeOnly(LeastKey(state)) <= t.key

\* Between CollectScopes and UpdateQueueState no slice gets below what is collected.
CheckpointInv ==
    /\ loop \in {"idle", "alerted", "shrunk", "delete", "save"}
    /\ loop \in {"delete", "save"} =>
          /\ checkpointState.exclusiveReaderHighWatermark <= nonReadableMin
          /\ deletionWatermark <= LeastKey(checkpointState)
          /\ MinsAbove(readers, LeastKey(checkpointState))
    /\ loop = "save" => LeastKey(checkpointState) = deletionWatermark

DeletionsInv ==
    \A range \in deletions :
        range.max \in Nat /\ range.max <= readWatermark /\ InRange(added, range) \subseteq executed

Inv == HistoryInv /\ MarksInv /\ ReadersInv /\ StatesInv /\ StoredInv /\ CheckpointInv /\ DeletionsInv

LEMMA AddedTasks == ASSUME HistoryInv PROVE added \in SUBSET AnyTask
BY TaskFields DEF HistoryInv

\* The invariant holds at first ...
LEMMA InitInv == Init => Inv
<1> SUFFICES ASSUME Init PROVE Inv
  OBVIOUS
<1>1. HistoryInv
  BY FS_EmptySet DEF Init, HistoryInv
<1>2. MarksInv
  <2>1. FirstKey <= FirstKey
    BY FirstKeys
  <2> QED BY <2>1, FirstKeys DEF Init, MarksInv
<1>3. StateOK(NoQueueState, {}, {}, FirstKey) /\ LeastKey(NoQueueState) = FirstKey
      /\ NoQueueState.exclusiveReaderHighWatermark = FirstKey
  <2>1. FirstKey <= FirstKey
    BY FirstKeys
  <2> QED BY <2>1, NoQueueStateOK
<1>4. ReadersInv
  <2> DEFINE none == {}
  <2>1. StateOK(NoQueueState, none, none, FirstKey)
    BY <1>3
  <2> HIDE DEF none
  <2>2. none \in SUBSET AnyTask
    BY DEF none
  <2>3. ReadersOK(ReadersOf(NoQueueState), none, none, LeastKey(NoQueueState),
                  NoQueueState.exclusiveReaderHighWatermark)
    BY <2>1, <2>2, ReadersOfOK
  <2> QED BY <1>3, <2>3 DEF Init, ReadersInv, none
<1>5. StatesInv
  BY <1>3 DEF Init, StatesInv
<1>6. StoredInv /\ CheckpointInv /\ DeletionsInv
  BY DEF Init, StoredInv, CheckpointInv, DeletionsInv
<1> QED BY <1>1, <1>2, <1>4, <1>5, <1>6 DEF Inv

-----------------------------------------------------------------------------
(* Steps of the shard                                                      *)

LEMMA AddTaskStep ==
  ASSUME Inv, NEW t \in Tasks, AddTask(t)
  PROVE  Inv'
<1>1. /\ added' = added \cup {t} /\ stored' = stored \cup {t} /\ readWatermark <= t.key
      /\ UNCHANGED <<executed, persisted, saves, deletions, readWatermark, readers, nonReadableMin,
                     deletionWatermark, loop, checkpointState>>
  BY DEF AddTask, queueVars
<1>2. HistoryInv'
  BY <1>1, FS_AddElement DEF Inv, HistoryInv
<1>3. MarksInv' /\ CheckpointInv'
  BY <1>1 DEF Inv, MarksInv, CheckpointInv
<1>4. /\ added \in SUBSET AnyTask /\ t \in AnyTask /\ t.key \in Nat
      /\ readWatermark \in Nat /\ nonReadableMin \in Nat /\ nonReadableMin <= readWatermark
      /\ deletionWatermark \in Nat /\ deletionWatermark <= nonReadableMin
  BY AddedTasks, TaskFields, FirstKeys DEF Inv, MarksInv, AnyTask
<1>5. ReadersInv'
  <2> DEFINE B == added \cup {t}
  <2>1. added \subseteq B /\ \A u \in B \ added : ~(u.key < nonReadableMin)
    BY <1>1, <1>4
  <2> HIDE DEF B
  <2>2. ReadersOK(readers, B, executed, deletionWatermark, nonReadableMin)
    BY <2>1, MoreTasks DEF Inv, ReadersInv
  <2> QED BY <1>1, <2>2 DEF ReadersInv, B
<1>6. StatesInv'
  <2> DEFINE B == added \cup {t}
             E == executed
             w == readWatermark
  <2>1. B \in SUBSET AnyTask /\ added \subseteq B /\ E \subseteq E /\ w \in Nat /\ w <= w
        /\ \A u \in B \ added : w <= u.key
    BY <1>1, <1>4
  <2>2. \A st \in {persisted, checkpointState} \cup saves : StateOK(st, added, E, w)
    BY DEF Inv, StatesInv
  <2> HIDE DEF B, E, w
  <2>3. \A st \in {persisted, checkpointState} \cup saves : StateOK(st, B, E, w)
    BY <2>1, <2>2, StateStays
  <2> QED BY <1>1, <2>3 DEF StatesInv, B, E, w
<1>7. StoredInv'
  <2>1. FireTimeOnly(deletionWatermark) <= t.key
    BY <1>1, <1>4, FireTimes
  <2>2. ASSUME NEW st \in {persisted} \cup saves PROVE FireTimeOnly(LeastKey(st)) <= t.key
    <3>1. StateOK(st, added, executed, readWatermark)
      BY DEF Inv, StatesInv
    <3>2. LeastKey(st) \in Nat /\ LeastKey(st) <= st.exclusiveReaderHighWatermark
      BY <3>1, LeastKeyOK
    <3>3. st.exclusiveReaderHighWatermark \in Nat /\ st.exclusiveReaderHighWatermark <= readWatermark
      BY <3>1, FirstKeys DEF StateOK
    <3>4. FireTimeOnly(LeastKey(st)) \in Nat /\ FireTimeOnly(LeastKey(st)) <= LeastKey(st)
      BY <3>2, FireTimes
    <3> QED BY <1>1, <1>4, <3>2, <3>3, <3>4
  <2> QED BY <1>1, <2>1, <2>2 DEF Inv, StoredInv
<1>8. DeletionsInv'
  <2> SUFFICES ASSUME NEW range \in deletions
               PROVE  range.max \in Nat /\ range.max <= readWatermark
                      /\ InRange(added \cup {t}, range) \subseteq executed
    BY <1>1 DEF DeletionsInv
  <2>1. range.max \in Nat /\ range.max <= readWatermark /\ InRange(added, range) \subseteq executed
    BY DEF Inv, DeletionsInv
  <2>2. ~(t.key < range.max)
    BY <1>1, <1>4, <2>1
  <2> QED BY <2>1, <2>2 DEF InRange, ContainsKey
<1> QED BY <1>2, <1>3, <1>5, <1>6, <1>7, <1>8 DEF Inv

LEMMA RenewRangeStep == ASSUME Inv, RenewRange PROVE Inv'
<1>1. UNCHANGED <<added, executed, stored, persisted, saves, deletions, readWatermark, readers, nonReadableMin,
                  deletionWatermark, loop, checkpointState>>
  BY DEF RenewRange, storeVars
<1> QED BY <1>1 DEF Inv, HistoryInv, MarksInv, ReadersInv, StatesInv, StoredInv, CheckpointInv, DeletionsInv

LEMMA ReloadStep == ASSUME Inv, Reload PROVE Inv'
<1> DEFINE mark == LeastKey(persisted)
           high == persisted.exclusiveReaderHighWatermark
<1>1. /\ readers' = ReadersOf(persisted) /\ nonReadableMin' = high /\ deletionWatermark' = mark
      /\ loop' = "idle" /\ checkpointState' = NoQueueState /\ saves' = {}
      /\ UNCHANGED <<added, executed, stored, persisted, deletions, readWatermark>>
  BY DEF Reload, DeletionWatermarkOf
<1>2. StateOK(persisted, added, executed, readWatermark)
  BY DEF Inv, StatesInv
<1>3. /\ mark \in Nat /\ FirstKey <= mark /\ mark <= high /\ high \in Nat /\ high <= readWatermark
      /\ readWatermark \in Nat /\ readWatermark <= MaxKey
  <2>1. mark \in Nat /\ FirstKey <= mark /\ mark <= high
    BY <1>2, LeastKeyOK
  <2> QED BY <1>2, <2>1, FirstKeys DEF StateOK, Inv, MarksInv
<1>4. HistoryInv' /\ DeletionsInv'
  BY <1>1 DEF Inv, HistoryInv, DeletionsInv
<1>5. ReadersInv'
  <2>1. ReadersOK(ReadersOf(persisted), added, executed, mark, high)
    BY <1>2, AddedTasks, ReadersOfOK DEF Inv
  <2> QED BY <1>1, <2>1 DEF ReadersInv
<1>6. StatesInv'
  <2>1. FirstKey <= readWatermark
    BY <1>3, FirstKeys
  <2>2. StateOK(NoQueueState, added, executed, readWatermark)
    BY <2>1, NoQueueStateOK DEF Inv, HistoryInv
  <2> QED BY <1>1, <1>2, <2>2 DEF StatesInv
<1>7. StoredInv'
  BY <1>1 DEF Inv, StoredInv
<1>8. CheckpointInv'
  BY <1>1 DEF CheckpointInv
<1>9. MarksInv'
  <2> HIDE DEF mark, high
  <2> QED BY <1>1, <1>3 DEF MarksInv
<1> QED BY <1>4, <1>5, <1>6, <1>7, <1>8, <1>9 DEF Inv

LEMMA SaveLandsStep == ASSUME Inv, SaveLands PROVE Inv'
<1>1. PICK state \in saves :
         /\ persisted' = state /\ saves' = saves \ {state}
         /\ UNCHANGED <<added, executed, stored, deletions, readWatermark, readers, nonReadableMin,
                        deletionWatermark, loop, checkpointState>>
  BY DEF SaveLands, queueVars
<1>2. HistoryInv' /\ MarksInv' /\ ReadersInv' /\ CheckpointInv' /\ DeletionsInv'
  BY <1>1 DEF Inv, HistoryInv, MarksInv, ReadersInv, CheckpointInv, DeletionsInv
<1>3. StatesInv' /\ StoredInv'
  BY <1>1 DEF Inv, StatesInv, StoredInv
<1> QED BY <1>2, <1>3 DEF Inv

LEMMA DeletionLandsStep == ASSUME Inv, DeletionLands PROVE Inv'
<1>1. PICK range \in deletions :
         /\ stored' = stored \ InRange(stored, range) /\ deletions' = deletions \ {range}
         /\ UNCHANGED <<added, executed, persisted, saves, readWatermark, readers, nonReadableMin,
                        deletionWatermark, loop, checkpointState>>
  BY DEF DeletionLands, queueVars
<1>2. MarksInv' /\ ReadersInv' /\ StatesInv' /\ StoredInv' /\ CheckpointInv' /\ DeletionsInv'
  BY <1>1 DEF Inv, MarksInv, ReadersInv, StatesInv, StoredInv, CheckpointInv, DeletionsInv
<1>3. HistoryInv'
  <2>1. InRange(added, range) \subseteq executed
    BY DEF Inv, DeletionsInv
  <2>2. InRange(stored, range) \subseteq InRange(added, range)
    BY DEF Inv, HistoryInv, InRange
  <2> QED BY <1>1, <2>1, <2>2 DEF Inv, HistoryInv
<1> QED BY <1>2, <1>3 DEF Inv

-----------------------------------------------------------------------------
(* Steps of the readers                                                    *)

\* A reader changes one slice of its list; F are the tasks executed then.
LEMMA OneSliceStep ==
  ASSUME Inv, NEW s, NEW x, NEW out, OneFor(readers, s, x, out),
         x.pending \subseteq added, x.acked \subseteq executed',
         \A t \in added \ executed' : Holds(s, t) => Holds(x, t),
         readers' = out, executed \subseteq executed', executed' \subseteq added,
         UNCHANGED <<added, stored, persisted, saves, deletions, readWatermark, nonReadableMin,
                     deletionWatermark, loop, checkpointState>>
  PROVE  Inv'
<1> DEFINE A == added
           E == executed
           F == executed'
           lo == deletionWatermark
           hi == nonReadableMin
<1>1. /\ ReadersOK(readers, A, E, lo, hi) /\ E \subseteq F /\ x.pending \subseteq A /\ x.acked \subseteq F
      /\ \A t \in A \ F : Holds(s, t) => Holds(x, t)
  BY DEF Inv, ReadersInv
<1>2. /\ ReadersOK(out, A, F, lo, hi)
      /\ \A mark : MinsAbove(readers, mark) => MinsAbove(out, mark)
  <2> DEFINE rs == readers
  <2>1. OneFor(rs, s, x, out) /\ ReadersOK(rs, A, E, lo, hi)
    BY <1>1
  <2> HIDE DEF A, E, F, lo, hi, rs
  <2>2. /\ ReadersOK(out, A, F, lo, hi)
        /\ \A mark : MinsAbove(rs, mark) => MinsAbove(out, mark)
    BY <1>1, <2>1, OneChanged
  <2> QED BY <2>2 DEF rs
<1>3. ReadersInv'
  BY <1>2 DEF ReadersInv
<1>4. HistoryInv' /\ MarksInv' /\ StoredInv'
  BY DEF Inv, HistoryInv, MarksInv, StoredInv
<1>5. StatesInv'
  <2> SUFFICES ASSUME NEW st \in {persisted, checkpointState} \cup saves
               PROVE  StateOK(st, A, F, readWatermark)
    BY DEF StatesInv
  <2> DEFINE w == readWatermark
  <2>1. StateOK(st, A, E, w)
    BY DEF Inv, StatesInv
  <2>2. A \in SUBSET AnyTask /\ A \subseteq A /\ w \in Nat /\ w <= w /\ \A t \in A \ A : w <= t.key
    BY AddedTasks DEF Inv, MarksInv
  <2> HIDE DEF A, E, F, w
  <2> QED BY <1>1, <2>1, <2>2, StateStays DEF w
<1>6. CheckpointInv'
  BY <1>2 DEF Inv, CheckpointInv
<1>7. DeletionsInv'
  BY DEF Inv, DeletionsInv
<1> QED BY <1>3, <1>4, <1>5, <1>6, <1>7 DEF Inv

LEMMA StoredTasks ==
  ASSUME Inv
  PROVE  /\ stored \in SUBSET AnyTask /\ IsFiniteSet(stored) /\ stored \subseteq added
         /\ added \ executed \subseteq stored
         /\ readers \in ReaderMaps
<1>1. stored \subseteq added /\ IsFiniteSet(added) /\ added \in SUBSET AnyTask /\ added \ executed \subseteq stored
  BY AddedTasks DEF Inv, HistoryInv
<1>2. IsFiniteSet(stored)
  BY <1>1, FS_Subset
<1>3. readers \in ReaderMaps
  BY DEF Inv, ReadersInv, ReadersOK
<1> QED BY <1>1, <1>2, <1>3

LEMMA ThisSlice ==
  ASSUME Inv, NEW id \in DOMAIN readers, NEW n \in 1..Len(readers[id].slices)
  PROVE  /\ readers[id].slices[n] \in GoodSlices
         /\ readers[id].slices[n].pending \subseteq added /\ readers[id].slices[n].acked \subseteq executed
<1>1. readers[id].slices \in Seq(GoodSlices) /\ Elements(readers[id].slices) \subseteq AllSlices(readers)
  BY StoredTasks, MapFields, ReaderFields, SlicesGood
<1>2. readers[id].slices[n] \in GoodSlices /\ readers[id].slices[n] \in AllSlices(readers)
  BY <1>1 DEF Elements
<1> QED BY <1>2 DEF Inv, ReadersInv, ReadersOK

LEMMA LoadTasksStep ==
  ASSUME Inv, NEW id, LoadTasks(id)
  PROVE  Inv'
<1> DEFINE q == readers[id].slices
           n == readers[id].nextReadSlice
<1>1. /\ id \in DOMAIN readers /\ n \notin {0, Removed}
      /\ \E x \in SelectTasks(q[n]) :
            readers' = WithReader(readers, id,
               [slices |-> ReplaceAt(q, n, x),
                nextReadSlice |-> IF x.iterators # <<>> THEN n ELSE IF n < Len(q) THEN n + 1 ELSE 0])
      /\ UNCHANGED <<added, executed, stored, persisted, saves, deletions, readWatermark, nonReadableMin,
                     deletionWatermark, loop, checkpointState>>
  BY Zenon DEF LoadTasks, storeVars
<1>2. /\ q \in Seq(GoodSlices) /\ Len(q) \in Nat /\ n \in 1..Len(q)
  BY <1>1, StoredTasks, MapFields, ReaderFields
<1>3. PICK x \in SelectTasks(q[n]) :
         readers' = WithReader(readers, id,
               [slices |-> ReplaceAt(q, n, x),
                nextReadSlice |-> IF x.iterators # <<>> THEN n ELSE IF n < Len(q) THEN n + 1 ELSE 0])
  BY <1>1
<1> DEFINE s == q[n]
           r == [slices |-> ReplaceAt(q, n, x),
                 nextReadSlice |-> IF x.iterators # <<>> THEN n ELSE IF n < Len(q) THEN n + 1 ELSE 0]
           out == WithReader(readers, id, r)
<1>4. s \in GoodSlices /\ s.pending \subseteq added /\ s.acked \subseteq executed
  BY <1>1, <1>2, ThisSlice
<1>5. /\ x \in GoodSlices /\ x.min = s.min /\ x.max = s.max
      /\ x.pending \subseteq s.pending \cup stored /\ x.acked \subseteq s.acked
      /\ \A t \in stored : Holds(s, t) => Holds(x, t)
  <2>1. x \in SelectTasks(s)
    OBVIOUS
  <2> HIDE DEF s
  <2> QED BY <1>4, <2>1, StoredTasks, SelectTasksOK
<1>6. OneFor(readers, s, x, out)
  <2>1. /\ r.slices = [q EXCEPT ![n] = x] /\ r = [slices |-> r.slices, nextReadSlice |-> r.nextReadSlice]
        /\ r.nextReadSlice \in {Removed, 0} \cup 1..Len(q)
    BY <1>2 DEF ReplaceAt
  <2>2. readers \in ReaderMaps /\ id \in DOMAIN readers
    BY <1>1, StoredTasks
  <2> HIDE DEF n, r
  <2> QED BY <1>2, <1>5, <2>1, <2>2, InPlace
<1>7. readers' = out
  BY <1>3
<1> HIDE DEF out, s
<1>8. /\ x.pending \subseteq added /\ x.acked \subseteq executed'
      /\ \A t \in added \ executed' : Holds(s, t) => Holds(x, t)
      /\ executed \subseteq executed' /\ executed' \subseteq added
  <2>1. executed \subseteq added
    BY DEF Inv, HistoryInv
  <2> QED BY <1>1, <1>4, <1>5, <2>1, StoredTasks
<1> HIDE DEF q, n
<1> QED BY <1>1, <1>6, <1>7, <1>8, OneSliceStep

LEMMA LoadFromRemovedStep ==
  ASSUME Inv, NEW id, LoadFromRemoved(id)
  PROVE  Inv'
<1> DEFINE out == [readers EXCEPT ![id].nextReadSlice = 0]
<1>1. /\ id \in DOMAIN readers /\ readers' = out
      /\ UNCHANGED <<added, executed, stored, persisted, saves, deletions, readWatermark, nonReadableMin,
                     deletionWatermark, loop, checkpointState>>
  BY DEF LoadFromRemoved, NextOfRemoved, storeVars
<1>2. readers \in ReaderMaps
  BY StoredTasks
<1> DEFINE r == [readers[id] EXCEPT !.nextReadSlice = 0]
<1>3. readers[id].slices \in Seq(GoodSlices) /\ InOrder(readers[id].slices)
      /\ readers[id] = [slices |-> readers[id].slices, nextReadSlice |-> readers[id].nextReadSlice]
  BY <1>1, <1>2, MapFields, ReaderFields
<1>4. r = [slices |-> readers[id].slices, nextReadSlice |-> 0]
  BY <1>3
<1>5. r \in GoodReaders /\ r.slices = readers[id].slices
  BY <1>3, <1>4, MakeReader
<1>6. out = [readers EXCEPT ![id] = r] /\ DOMAIN readers \in SUBSET ReaderIDs
      /\ readers \in [DOMAIN readers -> GoodReaders]
  BY <1>2, MapFields
<1> HIDE DEF out, r
<1>7. /\ out \in [DOMAIN readers -> GoodReaders] /\ out[id] = r
      /\ \A i \in DOMAIN readers : i # id => out[i] = readers[i]
  BY <1>1, <1>5, <1>6
<1>8. DOMAIN out = DOMAIN readers /\ \A i \in DOMAIN readers : out[i].slices = readers[i].slices
  BY <1>5, <1>7
<1>9. out \in ReaderMaps /\ AllSlices(out) = AllSlices(readers)
  <2>1. out \in ReaderMaps
    BY <1>6, <1>7, MakeMap
  <2> QED BY <1>8, <2>1 DEF AllSlices
<1>10. ReadersInv' /\ CheckpointInv'
  BY <1>1, <1>9 DEF Inv, ReadersInv, ReadersOK, CheckpointInv, MinsAbove
<1> QED BY <1>1, <1>10 DEF Inv, HistoryInv, MarksInv, StatesInv, StoredInv, DeletionsInv

LEMMA AckStep ==
  ASSUME Inv, NEW id, NEW n, NEW t, Ack(id, n, t)
  PROVE  Inv'
<1> DEFINE q == readers[id].slices
           s == q[n]
           x == Acknowledged(s, t)
           out == [readers EXCEPT ![id].slices[n].pending = @ \ {t}, ![id].slices[n].acked = @ \cup {t}]
<1>1. /\ id \in DOMAIN readers /\ n \in DOMAIN q /\ t \in s.pending
      /\ executed' = executed \cup {t} /\ readers' = out
      /\ UNCHANGED <<added, stored, persisted, saves, deletions, readWatermark, nonReadableMin,
                     deletionWatermark, loop, checkpointState>>
  BY DEF Ack, storeVars
<1>2. /\ q \in Seq(GoodSlices) /\ Len(q) \in Nat /\ n \in 1..Len(q)
      /\ readers \in ReaderMaps /\ readers \in [DOMAIN readers -> GoodReaders]
      /\ readers[id] = [slices |-> q, nextReadSlice |-> readers[id].nextReadSlice]
      /\ readers[id].nextReadSlice \in {Removed, 0} \cup 1..Len(q)
  BY <1>1, StoredTasks, MapFields, ReaderFields
<1>3. s \in GoodSlices /\ s.pending \subseteq added /\ s.acked \subseteq executed
  BY <1>1, <1>2, ThisSlice
<1>4. /\ x \in GoodSlices /\ x.min = s.min /\ x.max = s.max
      /\ x.pending \subseteq s.pending /\ x.acked = s.acked \cup {t}
      /\ \A u : u # t /\ Holds(s, u) => Holds(x, u)
  <2> HIDE DEF x, s
  <2> QED BY <1>1, <1>3, AckedOK DEF x
<1> DEFINE r == [readers[id] EXCEPT !.slices = [q EXCEPT ![n] = x]]
<1>5. /\ r.slices = [q EXCEPT ![n] = x] /\ r = [slices |-> r.slices, nextReadSlice |-> r.nextReadSlice]
      /\ r.nextReadSlice = readers[id].nextReadSlice
  <2> HIDE DEF q, x
  <2> QED BY <1>2
<1>6. out = WithReader(readers, id, r)
  <2>1. x = [[s EXCEPT !.pending = s.pending \ {t}] EXCEPT !.acked = s.acked \cup {t}]
    BY <1>3, SliceFields DEF Acknowledged, SliceRecords
  <2>2. out = [readers EXCEPT ![id] = r]
    <3> DEFINE x1 == [s EXCEPT !.pending = @ \ {t}]
               q1 == [q EXCEPT ![n] = x1]
               r1 == [readers[id] EXCEPT !.slices = q1]
               f1 == [readers EXCEPT ![id] = r1]
               q2 == [q1 EXCEPT ![n] = x]
               r2 == [r1 EXCEPT !.slices = q2]
    <3>1. [readers EXCEPT ![id].slices[n].pending = @ \ {t}] = f1
      OBVIOUS
    <3>2. out = [f1 EXCEPT ![id].slices[n].acked = @ \cup {t}]
      BY <3>1, ZenonT(30)
    <3>3. f1[id] = r1 /\ r1.slices = q1 /\ q1[n] = x1 /\ x1.acked = s.acked
      BY <1>1, <1>2, <1>3, SliceFields DEF SliceRecords
    <3>4. x = [x1 EXCEPT !.acked = @ \cup {t}]
      BY <2>1, <3>3
    <3> HIDE DEF x1, f1, out
    <3>5. out = [f1 EXCEPT ![id] = [f1[id] EXCEPT !.slices = [f1[id].slices EXCEPT ![n] =
                    [f1[id].slices[n] EXCEPT !.acked = f1[id].slices[n].acked \cup {t}]]]]
      BY <3>2
    <3>6. out = [f1 EXCEPT ![id] = r2]
      <4> HIDE DEF x, q1, r1
      <4> QED BY <3>3, <3>4, <3>5
    <3>7. q2 = [q EXCEPT ![n] = x]
      <4> HIDE DEF x
      <4> QED BY <1>2
    <3>8. r2 = r
      <4> HIDE DEF q1, q2, x, q
      <4> QED BY <1>2, <3>7
    <3> HIDE DEF r, r1, r2
    <3> QED BY <1>1, <1>2, <3>6, <3>8 DEF f1
  <2>3. [readers EXCEPT ![id] = r] = [i \in DOMAIN readers \cup {id} |-> IF i = id THEN r ELSE readers[i]]
    <3> HIDE DEF r
    <3>1. DOMAIN readers \cup {id} = DOMAIN readers
      BY <1>1
    <3> QED BY <1>1, <1>2, <3>1
  <2> QED BY <2>2, <2>3 DEF WithReader
<1> HIDE DEF out
<1>7. OneFor(readers, s, x, out)
  <2> HIDE DEF r, x
  <2> QED BY <1>1, <1>2, <1>4, <1>5, <1>6, InPlace
<1> HIDE DEF x, s, q
<1>8. /\ x.pending \subseteq added /\ x.acked \subseteq executed'
      /\ \A u \in added \ executed' : Holds(s, u) => Holds(x, u)
      /\ executed \subseteq executed' /\ executed' \subseteq added
  <2>1. executed \subseteq added
    BY DEF Inv, HistoryInv
  <2> QED BY <1>1, <1>3, <1>4, <2>1
<1>9. readers' = out
  BY <1>1
<1> QED BY <1>1, <1>7, <1>8, <1>9, OneSliceStep

-----------------------------------------------------------------------------
(* Steps of the event loop                                                 *)

\* A reader is given more slices.
LEMMA PutMore ==
  ASSUME NEW rs \in ReaderMaps, NEW id \in ReaderIDs, NEW r \in GoodReaders, NEW X,
         Keeps(Elements(SlicesOf(rs, id)) \cup X, Elements(r.slices)),
         NEW out, out = WithReader(rs, id, r)
  PROVE  out \in ReaderMaps /\ Keeps(AllSlices(rs) \cup X, AllSlices(out))
<1> DEFINE none == {}
<1>1. Keeps(Elements(SlicesOf(rs, id)) \cup X, Elements(r.slices) \cup none)
  OBVIOUS
<1> HIDE DEF none
<1>2. out \in ReaderMaps /\ Keeps(AllSlices(rs) \cup X, AllSlices(out) \cup none)
  BY <1>1, PutReader
<1> QED BY <1>2 DEF none

\* The default reader takes on the slices q.
LEMMA DefaultReaderTakes ==
  ASSUME NEW rs \in ReaderMaps, NEW q \in Seq(GoodSlices), InOrder(q), NEW force \in BOOLEAN,
         \A x \in AllSlices(rs), y \in Elements(q) : x.max <= y.min,
         NEW r, r = IF DefaultReaderId \notin DOMAIN rs THEN NewReader(q)
                    ELSE IF force THEN AppendSlices(rs[DefaultReaderId], q)
                    ELSE MergeSlices(rs[DefaultReaderId], q),
         NEW out, out = WithReader(rs, DefaultReaderId, r)
  PROVE  out \in ReaderMaps /\ Keeps(AllSlices(rs) \cup Elements(q), AllSlices(out))
<1> DEFINE id == DefaultReaderId
           X == Elements(q)
<1>1. id \in ReaderIDs
  BY QueueConstants DEF DefaultReaderId, ReaderIDs
<1>2. r \in GoodReaders /\ Keeps(Elements(SlicesOf(rs, id)) \cup X, Elements(r.slices))
  <2>1. CASE id \notin DOMAIN rs
    <3>1. r = NewReader(q)
      BY <2>1
    <3>2. r \in GoodReaders /\ r.slices = q
      BY <3>1, NewReaderOK
    <3>3. Elements(SlicesOf(rs, id)) \cup X = X
      BY <2>1, NoSlice DEF SlicesOf
    <3>4. Keeps(X, X)
      BY GoodElements, KeepsSame
    <3> QED BY <3>2, <3>3, <3>4
  <2>2. CASE id \in DOMAIN rs
    <3> DEFINE old == rs[id]
    <3>1. old \in GoodReaders /\ SlicesOf(rs, id) = old.slices /\ Elements(old.slices) \subseteq AllSlices(rs)
      BY <2>2, MapFields, SlicesGood DEF SlicesOf
    <3>2. r = IF force THEN AppendSlices(old, q) ELSE MergeSlices(old, q)
      BY <2>2
    <3> HIDE DEF old
    <3>3. Extends(old, q, r)
      <4>1. CASE force
        <5>1. \A x \in Elements(old.slices), y \in Elements(q) : x.max <= y.min
          BY <3>1
        <5>2. r = AppendSlices(old, q)
          BY <3>2, <4>1
        <5> QED BY <3>1, <5>1, <5>2, AppendSlicesOK
      <4>2. CASE ~force
        <5>1. r = MergeSlices(old, q)
          BY <3>2, <4>2
        <5> QED BY <3>1, <5>1, MergeSlicesOK
      <4> QED BY <4>1, <4>2
    <3> QED BY <3>1, <3>3 DEF Extends
  <2> QED BY <2>1, <2>2
<1> DEFINE put == WithReader(rs, id, r)
<1>3. put \in ReaderMaps /\ Keeps(AllSlices(rs) \cup X, AllSlices(put))
  <2> HIDE DEF id, X
  <2> QED BY <1>1, <1>2, PutMore
<1> QED BY <1>3

LEMMA ProcessNewRangeStep ==
  ASSUME Inv, NEW newMaxKey \in FirstKey..MaxKey, NEW forceNewSlice \in BOOLEAN,
         ProcessNewRange(newMaxKey, forceNewSlice)
  PROVE  Inv'
<1> DEFINE top == newMaxKey
           hi == nonReadableMin
           s == NewSlice(NewScope(hi, top, Universal))
           q == <<s>>
           X == {s}
           reader == readers[DefaultReaderId]
           some == IF top < hi THEN <<>> ELSE q
           r == IF DefaultReaderId \notin DOMAIN readers THEN NewReader(q)
                ELSE IF forceNewSlice THEN AppendSlices(reader, q) ELSE MergeSlices(reader, q)
           out == WithReader(readers, DefaultReaderId, r)
<1>1. /\ top >= readWatermark /\ readWatermark' = top /\ loop = "idle"
      /\ nonReadableMin' = MaxOf(hi, top)
      /\ readers' = WithReader(readers, DefaultReaderId,
               IF DefaultReaderId \notin DOMAIN readers THEN NewReader(some)
               ELSE IF forceNewSlice THEN AppendSlices(reader, some) ELSE MergeSlices(reader, some))
      /\ UNCHANGED <<added, executed, stored, persisted, saves, deletions, deletionWatermark, loop,
                     checkpointState>>
  BY Zenon DEF ProcessNewRange, storeVars
<1>2. /\ top \in Nat /\ hi \in Nat /\ hi <= readWatermark /\ readWatermark \in Nat /\ hi <= top /\ top <= MaxKey
      /\ deletionWatermark \in Nat /\ deletionWatermark <= hi /\ FirstKey <= deletionWatermark
  BY <1>1, FirstKeys DEF Inv, MarksInv
<1>3. nonReadableMin' = top
  BY <1>1, <1>2 DEF MaxOf
<1>4. readers' = out
  <2>1. some = q
    BY <1>2
  <2> HIDE DEF some, q
  <2> QED BY <1>1, <2>1
<1>5. /\ s \in GoodSlices /\ s.min = hi /\ s.max = top /\ s.pending = {} /\ s.acked = {}
      /\ \A t \in AnyTask : hi <= t.key /\ t.key < top /\ t.group \in Universal => Holds(s, t)
  <2> DEFINE P == Universal
  <2>1. s = NewSlice(NewScope(hi, top, P)) /\ P \in SUBSET Universal
    OBVIOUS
  <2> HIDE DEF s, P, hi, top
  <2>2. /\ s \in GoodSlices /\ s.min = hi /\ s.max = top /\ s.pending = {} /\ s.acked = {}
        /\ \A t \in AnyTask : hi <= t.key /\ t.key < top /\ t.group \in P => Holds(s, t)
    BY <1>2, <2>1, NewSliceOK DEF hi, top
  <2> QED BY <2>2 DEF P
<1> HIDE DEF s
<1>6. q \in Seq(GoodSlices) /\ InOrder(q) /\ Elements(q) = X
  BY <1>5, OneSlice
<1> HIDE DEF q
<1>7. \A x \in AllSlices(readers), y \in Elements(q) : x.max <= y.min
  BY <1>5, <1>6 DEF Inv, ReadersInv, ReadersOK
<1> DEFINE rs == readers
<1>8. out \in ReaderMaps /\ Keeps(AllSlices(rs) \cup X, AllSlices(out))
  <2>1. readers \in ReaderMaps
    BY StoredTasks
  <2> HIDE DEF X, rs
  <2>2. Keeps(AllSlices(rs) \cup Elements(q), AllSlices(out)) /\ out \in ReaderMaps
    BY <1>6, <1>7, <2>1, DefaultReaderTakes DEF rs
  <2> QED BY <1>6, <2>2
<1> HIDE DEF out
<1> DEFINE A == added
           E == executed
           lo == deletionWatermark
<1>9. ReadersOK(out, A, E, lo, top)
  <2>1. A \in SUBSET AnyTask /\ ReadersOK(rs, A, E, lo, hi)
    BY AddedTasks DEF Inv, ReadersInv
  <2>2. X \in SUBSET GoodSlices /\ \A x \in X : lo <= x.min /\ x.max <= top /\ x.pending = {} /\ x.acked = {}
    BY <1>2, <1>5
  <2>3. \A t \in A : hi <= t.key /\ t.key < top => \E x \in X : Holds(x, t)
    <3>1. \A t \in A : t \in AnyTask /\ t.group \in Universal
      BY <2>1 DEF AnyTask, Universal
    <3> QED BY <1>5, <3>1
  <2>4. lo \in Nat /\ hi \in Nat /\ top \in Nat /\ hi <= top
    BY <1>2
  <2> HIDE DEF A, E, lo, hi, top, X, rs
  <2> QED BY <1>8, <2>1, <2>2, <2>3, <2>4, ReadOn
<1>10. ReadersInv'
  BY <1>1, <1>3, <1>4, <1>9 DEF ReadersInv
<1>11. HistoryInv' /\ StoredInv'
  BY <1>1 DEF Inv, HistoryInv, StoredInv
<1>12. MarksInv'
  <2>1. deletionWatermark <= top /\ top <= top
    BY <1>2
  <2> QED BY <1>1, <1>2, <1>3, <2>1 DEF MarksInv
<1>13. StatesInv'
  <2> SUFFICES ASSUME NEW st \in {persisted, checkpointState} \cup saves
               PROVE  StateOK(st, A, E, top)
    BY <1>1 DEF StatesInv
  <2> DEFINE w == readWatermark
  <2>1. StateOK(st, A, E, w)
    BY DEF Inv, StatesInv
  <2>2. A \in SUBSET AnyTask /\ A \subseteq A /\ w \in Nat /\ w <= top /\ E \subseteq E
        /\ \A t \in A \ A : w <= t.key
    BY <1>1, <1>2, AddedTasks DEF Inv
  <2> HIDE DEF A, E, w
  <2> QED BY <1>2, <2>1, <2>2, StateStays
<1>14. CheckpointInv'
  BY <1>1 DEF CheckpointInv
<1>15. DeletionsInv'
  <2> SUFFICES ASSUME NEW range \in deletions
               PROVE  range.max \in Nat /\ range.max <= top /\ InRange(added, range) \subseteq executed
    BY <1>1 DEF DeletionsInv
  <2>1. range.max \in Nat /\ range.max <= readWatermark /\ InRange(added, range) \subseteq executed
    BY DEF Inv, DeletionsInv
  <2> QED BY <1>1, <1>2, <2>1
<1> QED BY <1>10, <1>11, <1>12, <1>13, <1>14, <1>15 DEF Inv

\* The readers are worked on while no checkpoint is under way.
LEMMA EvolvesStep ==
  ASSUME Inv, NEW out, Evolves(readers, out), readers' = out, loop' \in {"idle", "alerted", "shrunk"},
         UNCHANGED <<added, executed, stored, persisted, saves, deletions, readWatermark, nonReadableMin,
                     deletionWatermark, checkpointState>>
  PROVE  Inv'
<1> DEFINE rs == readers
           A == added
           lo == deletionWatermark
           hi == nonReadableMin
<1>1. A \in SUBSET AnyTask /\ lo \in Nat /\ hi \in Nat /\ ReadersOK(rs, A, executed, lo, hi) /\ Evolves(rs, out)
  BY AddedTasks DEF Inv, MarksInv, ReadersInv
<1>2. ReadersOK(out, A, executed, lo, hi)
  <2> HIDE DEF rs, A, lo, hi
  <2> QED BY <1>1, EvolvesOK
<1>3. ReadersInv'
  BY <1>2 DEF ReadersInv
<1>4. CheckpointInv'
  BY DEF CheckpointInv
<1> QED BY <1>3, <1>4 DEF Inv, HistoryInv, MarksInv, StatesInv, StoredInv, DeletionsInv

LEMMA AlertedStep ==
  ASSUME Inv, NEW R, \A out \in R : Evolves(readers, out), Alerted(R)
  PROVE  Inv'
<1>1. PICK out \in R :
         /\ readers' = out /\ loop' = "alerted"
         /\ UNCHANGED <<added, executed, stored, persisted, saves, deletions, readWatermark, nonReadableMin,
                        deletionWatermark, checkpointState>>
  BY DEF Alerted, storeVars
<1>2. Evolves(readers, out)
  OBVIOUS
<1> QED BY <1>1, <1>2, EvolvesStep

\* Alerts: the action of the alert, and a step that leaves all but the readers alone.
LEMMA UnloadPendingTasksStep == ASSUME Inv, UnloadPendingTasks PROVE Inv'
<1> DEFINE shrunk == ShrinkAll(readers)
           R == IF TotalPendingTaskCount(shrunk) <= PendingTasksCriticalCount THEN {shrunk}
                ELSE UNION {ClearReaders(shrunk, c) : c \in SlicesToClear(shrunk)}
<1>1. Alerted(R)
  BY Zenon DEF UnloadPendingTasks
<1>2. readers \in ReaderMaps
  BY StoredTasks
<1>3. Evolves(readers, shrunk)
  BY <1>2, ShrinkAllOK
<1> HIDE DEF shrunk
<1>4. ASSUME NEW out \in R PROVE Evolves(readers, out)
  <2>1. out = shrunk \/ \E c : out \in ClearReaders(shrunk, c)
    OBVIOUS
  <2>2. CASE out = shrunk
    BY <1>3, <2>2
  <2>3. ASSUME NEW c, out \in ClearReaders(shrunk, c) PROVE Evolves(readers, out)
    <3>1. shrunk \in ReaderMaps
      BY <1>3 DEF Evolves
    <3>2. Evolves(shrunk, out)
      BY <2>3, <3>1, ClearReadersOK
    <3> QED BY <1>2, <1>3, <3>2, EvolvesThen
  <2> QED BY <2>1, <2>2, <2>3
<1> HIDE DEF R
<1> QED BY <1>1, <1>4, AlertedStep

LEMMA MoveStuckRangeStep == ASSUME Inv, MoveStuckRange PROVE Inv'
<1> DEFINE q == readers[DefaultReaderId].slices
           moved(min) == SplitAndMove(readers, DefaultReaderId,
                            [k \in DOMAIN q |-> StuckSplitter(q[k], NewRange(min, min + TaskIDsPerTime))])
<1>1. /\ IsScheduled /\ DefaultReaderId \in DOMAIN readers
      /\ \E n \in DOMAIN q : \E t \in q[n].pending : Alerted({moved(FireTimeOnly(t.key))})
  BY Zenon DEF MoveStuckRange
<1>2. PICK n \in DOMAIN q : \E t \in q[n].pending : Alerted({moved(FireTimeOnly(t.key))})
  BY <1>1
<1>3. PICK t \in q[n].pending : Alerted({moved(FireTimeOnly(t.key))})
  BY <1>2
<1>4. readers \in ReaderMaps
  BY StoredTasks
<1>5. t \in AnyTask
  <2>1. n \in 1..Len(q)
    BY <1>1, <1>4, MapFields, ReaderFields
  <2>2. q[n].pending \subseteq added
    BY <1>1, <2>1, ThisSlice
  <2> QED BY <2>2, AddedTasks DEF Inv
<1> DEFINE min == FireTimeOnly(t.key)
           out == moved(min)
<1>6. min \in Nat
  BY <1>5, FireTimes DEF AnyTask
<1>7. Evolves(readers, out)
  <2>1. out = SplitAndMove(readers, DefaultReaderId,
                  [k \in DOMAIN readers[DefaultReaderId].slices |->
                      StuckSplitter(readers[DefaultReaderId].slices[k], NewRange(min, min + TaskIDsPerTime))])
    OBVIOUS
  <2> HIDE DEF min, out
  <2> QED BY <1>1, <1>4, <1>6, <2>1, StuckRangeOK
<1> DEFINE R == {out}
<1>8. Alerted(R)
  BY <1>3
<1> HIDE DEF out
<1>9. \A x \in R : Evolves(readers, x)
  BY <1>7
<1> HIDE DEF R
<1> QED BY <1>8, <1>9, AlertedStep

LEMMA CompactSomeSlicesStep == ASSUME Inv, CompactSomeSlices PROVE Inv'
<1> DEFINE shrunk == ShrinkAll(readers)
           R == IF TotalSliceCount(shrunk) <= SliceCountCriticalThreshold THEN {shrunk} ELSE Compacted(shrunk)
<1>1. Alerted(R)
  BY Zenon DEF CompactSomeSlices
<1>2. readers \in ReaderMaps
  BY StoredTasks
<1>3. Evolves(readers, shrunk)
  BY <1>2, ShrinkAllOK
<1> HIDE DEF shrunk
<1>4. ASSUME NEW out \in R PROVE Evolves(readers, out)
  <2>1. out = shrunk \/ out \in Compacted(shrunk)
    OBVIOUS
  <2>2. CASE out = shrunk
    BY <1>3, <2>2
  <2>3. CASE out \in Compacted(shrunk)
    <3>1. shrunk \in ReaderMaps
      BY <1>3 DEF Evolves
    <3>2. Evolves(shrunk, out)
      BY <2>3, <3>1, CompactedOK
    <3> QED BY <1>2, <1>3, <3>2, EvolvesThen
  <2> QED BY <2>1, <2>2, <2>3
<1> HIDE DEF R
<1> QED BY <1>1, <1>4, AlertedStep

LEMMA ShrinkStep == ASSUME Inv, Shrink PROVE Inv'
<1> DEFINE out == ShrinkAll(readers)
<1>1. /\ readers' = out /\ loop' \in {"idle", "alerted", "shrunk"}
      /\ UNCHANGED <<added, executed, stored, persisted, saves, deletions, readWatermark, nonReadableMin,
                     deletionWatermark, checkpointState>>
  BY DEF Shrink, storeVars
<1>2. Evolves(readers, out)
  BY StoredTasks, ShrinkAllOK
<1> HIDE DEF out
<1> QED BY <1>1, <1>2, EvolvesStep

LEMMA CollectScopesStep == ASSUME Inv, CollectScopes PROVE Inv'
<1> DEFINE first == CheckpointAction(readers)
           out == WithoutIdleReaders(first)
           state == QueueState(ScopesOf(out), nonReadableMin)
           mark == LeastKey(state)
           A == added
           E == executed
           lo == deletionWatermark
           hi == nonReadableMin
           w == readWatermark
<1>1. /\ readers' = out /\ checkpointState' = state
      /\ \/ mark > deletionWatermark /\ loop' = "delete"
         \/ ~(mark > deletionWatermark) /\ loop' \in {"delete", "save"}
      /\ UNCHANGED <<added, executed, stored, persisted, saves, deletions, readWatermark, nonReadableMin,
                     deletionWatermark>>
  <2>1. readers' = out /\ checkpointState' = QueueState(ScopesOf(readers'), nonReadableMin)
    BY DEF CollectScopes
  <2>2. checkpointState' = state
    BY <2>1
  <2>3. LeastKey(checkpointState') = mark
    BY <2>2
  <2> HIDE DEF mark, state, out
  <2> QED BY <2>1, <2>2, <2>3 DEF CollectScopes, storeVars
<1>2. A \in SUBSET AnyTask /\ lo \in Nat /\ hi \in Nat /\ ReadersOK(readers, A, E, lo, hi)
      /\ FirstKey <= lo /\ lo <= hi /\ hi <= w /\ hi <= MaxKey /\ w \in Nat
  <2>1. nonReadableMin <= MaxKey
    BY FirstKeys DEF Inv, MarksInv
  <2> QED BY <2>1, AddedTasks DEF Inv, MarksInv, ReadersInv
<1>3. Evolves(readers, out)
  <2>1. readers \in ReaderMaps
    BY StoredTasks
  <2>2. Evolves(readers, first)
    BY <2>1, CheckpointActionOK
  <2>3. first \in ReaderMaps
    BY <2>2 DEF Evolves
  <2> HIDE DEF first
  <2>4. Evolves(first, out)
    BY <2>3, WithoutIdleReadersOK
  <2> HIDE DEF out
  <2> QED BY <2>1, <2>2, <2>4, EvolvesThen
<1> HIDE DEF out
<1>4. ReadersOK(out, A, E, lo, hi)
  <2> DEFINE rs == readers
  <2>1. Evolves(rs, out) /\ ReadersOK(rs, A, E, lo, hi)
    BY <1>2, <1>3
  <2> HIDE DEF rs, A, E, lo, hi
  <2> QED BY <1>2, <2>1, EvolvesOK
<1>5. /\ StateOK(state, A, E, w) /\ state.exclusiveReaderHighWatermark = hi
      /\ lo <= mark /\ MinsAbove(out, mark)
  <2>1. state = QueueState(ScopesOf(out), hi)
    OBVIOUS
  <2> HIDE DEF state, A, E, lo, hi, w
  <2> QED BY <1>2, <1>4, <2>1, ScopesOfOK
<1>6. mark \in Nat
  <2> HIDE DEF state
  <2> QED BY <1>5, LeastKeyOK
<1>7. LeastKey(checkpointState') = mark
  BY <1>1
<1> HIDE DEF state, mark
<1>8. HistoryInv' /\ MarksInv' /\ StoredInv' /\ DeletionsInv'
  BY <1>1 DEF Inv, HistoryInv, MarksInv, StoredInv, DeletionsInv
<1>9. ReadersInv'
  BY <1>1, <1>4 DEF ReadersInv
<1>10. StatesInv'
  BY <1>1, <1>5 DEF Inv, StatesInv
<1>11. CheckpointInv'
  <2>1. checkpointState'.exclusiveReaderHighWatermark = hi /\ hi <= hi
    BY <1>1, <1>2, <1>5
  <2>2. loop' = "save" => mark = deletionWatermark
    BY <1>1, <1>2, <1>5, <1>6
  <2> QED BY <1>1, <1>5, <1>7, <2>1, <2>2 DEF CheckpointInv
<1> QED BY <1>8, <1>9, <1>10, <1>11 DEF Inv

\* What is to be deleted: below the least key of the state that is to be saved everything is done.
LEMMA RangeDone ==
  ASSUME Inv, loop = "delete"
  PROVE  /\ RangeToComplete.min = FireTimeOnly(deletionWatermark)
         /\ RangeToComplete.max = FireTimeOnly(LeastKey(checkpointState))
         /\ RangeToComplete.max \in Nat /\ RangeToComplete.max <= readWatermark
         /\ InRange(added, RangeToComplete) \subseteq executed
<1> DEFINE mark == LeastKey(checkpointState)
<1>1. StateOK(checkpointState, added, executed, readWatermark)
  BY DEF Inv, StatesInv
<1>2. /\ mark \in Nat /\ mark <= checkpointState.exclusiveReaderHighWatermark
      /\ checkpointState.exclusiveReaderHighWatermark \in Nat
      /\ checkpointState.exclusiveReaderHighWatermark <= nonReadableMin
      /\ MinsAbove(readers, mark)
      /\ deletionWatermark \in Nat /\ nonReadableMin \in Nat /\ nonReadableMin <= readWatermark
      /\ readWatermark \in Nat
  <2>1. mark \in Nat /\ mark <= checkpointState.exclusiveReaderHighWatermark
    BY <1>1, LeastKeyOK
  <2> QED BY <1>1, <2>1, FirstKeys DEF StateOK, Inv, CheckpointInv, MarksInv
<1>3. mark <= nonReadableMin /\ mark <= readWatermark
  BY <1>2
<1> HIDE DEF mark
<1>4. RangeToComplete.min = FireTimeOnly(deletionWatermark) /\ RangeToComplete.max = FireTimeOnly(mark)
  <2>1. RangeToComplete = IF IsScheduled THEN NewRange(FireTimeOnly(deletionWatermark), FireTimeOnly(mark))
                          ELSE NewRange(deletionWatermark, mark)
    BY DEF RangeToComplete, mark
  <2>2. ~IsScheduled => FireTimeOnly(deletionWatermark) = deletionWatermark /\ FireTimeOnly(mark) = mark
    BY <1>2, FireTimes
  <2> QED BY <2>1, <2>2 DEF NewRange
<1>5. RangeToComplete.max \in Nat /\ RangeToComplete.max <= mark
  BY <1>2, <1>4, FireTimes
<1>6. ASSUME NEW t \in InRange(added, RangeToComplete) PROVE t \in executed
  <2>1. t \in added /\ t.key < RangeToComplete.max
    BY DEF InRange, ContainsKey
  <2>2. t \in AnyTask /\ t.key \in Nat
    BY <2>1, AddedTasks DEF Inv, AnyTask
  <2>3. t.key < mark /\ t.key < nonReadableMin
    BY <1>2, <1>3, <1>5, <2>1, <2>2
  <2> SUFFICES ASSUME t \notin executed PROVE FALSE
    OBVIOUS
  <2>4. PICK s \in AllSlices(readers) : Holds(s, t)
    BY <2>1, <2>3 DEF Inv, ReadersInv, ReadersOK
  <2>5. s \in GoodSlices
    BY StoredTasks, SlicesGood
  <2>6. s.min <= t.key /\ s.min \in Nat /\ mark <= s.min
    BY <1>2, <2>2, <2>4, <2>5, HoldsInScope, SliceFields DEF MinsAbove
  <2> QED BY <1>2, <2>2, <2>3, <2>6
<1> QED BY <1>2, <1>3, <1>4, <1>5, <1>6 DEF mark

LEMMA RangeCompleteTasksStep == ASSUME Inv, RangeCompleteTasks PROVE Inv'
<1> DEFINE mark == LeastKey(checkpointState)
           range == RangeToComplete
<1>1. /\ loop = "delete" /\ loop' = "save"
      /\ stored' = stored \ InRange(stored, range) /\ deletionWatermark' = mark
      /\ UNCHANGED <<added, executed, persisted, saves, deletions, readWatermark, readers, nonReadableMin,
                     checkpointState>>
  BY DEF RangeCompleteTasks
<1>2. /\ range.min = FireTimeOnly(deletionWatermark) /\ range.max = FireTimeOnly(mark)
      /\ InRange(added, range) \subseteq executed
  BY <1>1, RangeDone
<1>3. StateOK(checkpointState, added, executed, readWatermark)
  BY DEF Inv, StatesInv
<1>4. /\ mark \in Nat /\ FirstKey <= mark /\ mark <= checkpointState.exclusiveReaderHighWatermark
      /\ checkpointState.exclusiveReaderHighWatermark \in Nat
      /\ checkpointState.exclusiveReaderHighWatermark <= nonReadableMin
      /\ MinsAbove(readers, mark) /\ nonReadableMin \in Nat /\ deletionWatermark <= mark
  <2>1. mark \in Nat /\ FirstKey <= mark /\ mark <= checkpointState.exclusiveReaderHighWatermark
    BY <1>3, LeastKeyOK
  <2> QED BY <1>1, <1>3, <2>1, FirstKeys DEF StateOK, Inv, CheckpointInv, MarksInv
<1>5. mark <= nonReadableMin
  BY <1>4
<1>6. LeastKey(checkpointState') = mark
  BY <1>1
<1> HIDE DEF mark, range
<1>7. HistoryInv'
  <2>1. InRange(stored, range) \subseteq InRange(added, range)
    BY DEF Inv, HistoryInv, InRange
  <2> QED BY <1>1, <1>2, <2>1 DEF Inv, HistoryInv
<1>8. MarksInv'
  BY <1>1, <1>4, <1>5 DEF Inv, MarksInv
<1>9. ReadersInv'
  <2>1. \A s \in AllSlices(readers) : mark <= s.min
    BY <1>4 DEF MinsAbove
  <2>2. ReadersOK(readers, added, executed, mark, nonReadableMin)
    BY <2>1 DEF Inv, ReadersInv, ReadersOK
  <2> QED BY <1>1, <2>2 DEF ReadersInv
<1>10. StatesInv' /\ DeletionsInv'
  BY <1>1 DEF Inv, StatesInv, DeletionsInv
<1>11. StoredInv'
  <2> SUFFICES ASSUME NEW t \in stored, t \notin InRange(stored, range)
               PROVE  /\ FireTimeOnly(mark) <= t.key
                      /\ \A state \in {persisted} \cup saves : FireTimeOnly(LeastKey(state)) <= t.key
    BY <1>1 DEF StoredInv
  <2>1. /\ FireTimeOnly(deletionWatermark) <= t.key
        /\ \A state \in {persisted} \cup saves : FireTimeOnly(LeastKey(state)) <= t.key
    BY DEF Inv, StoredInv
  <2>2. ~(t.key < FireTimeOnly(mark))
    BY <1>2, <2>1 DEF InRange, ContainsKey
  <2>3. t.key \in Nat /\ FireTimeOnly(mark) \in Nat
    BY <1>4, StoredTasks, FireTimes DEF AnyTask
  <2>4. FireTimeOnly(mark) <= t.key
    BY <2>2, <2>3
  <2> QED BY <2>1, <2>4
<1>12. CheckpointInv'
  <2>1. mark <= mark
    BY <1>4
  <2> QED BY <1>1, <1>4, <1>6, <2>1 DEF CheckpointInv
<1> QED BY <1>7, <1>8, <1>9, <1>10, <1>11, <1>12 DEF Inv

LEMMA RangeCompleteTasksFailsStep == ASSUME Inv, RangeCompleteTasksFails PROVE Inv'
<1>1. /\ loop = "delete" /\ loop' = "idle"
      /\ \A range \in deletions' : range \in deletions \/ range = RangeToComplete
      /\ UNCHANGED <<added, executed, stored, persisted, saves, readWatermark, readers, nonReadableMin,
                     deletionWatermark, checkpointState>>
  BY DEF RangeCompleteTasksFails, AfterFailedDeletion
<1>2. DeletionsInv'
  <2> SUFFICES ASSUME NEW range \in deletions'
               PROVE  range.max \in Nat /\ range.max <= readWatermark /\ InRange(added, range) \subseteq executed
    BY <1>1 DEF DeletionsInv
  <2>1. CASE range \in deletions
    BY <2>1 DEF Inv, DeletionsInv
  <2>2. CASE range = RangeToComplete
    BY <1>1, <2>2, RangeDone
  <2> QED BY <1>1, <2>1, <2>2
<1>3. CheckpointInv'
  BY <1>1 DEF CheckpointInv
<1> QED BY <1>1, <1>2, <1>3 DEF Inv, HistoryInv, MarksInv, ReadersInv, StatesInv, StoredInv

LEMMA UpdateQueueStateStep == ASSUME Inv, UpdateQueueState PROVE Inv'
<1>1. /\ loop = "save" /\ loop' = "idle" /\ checkpointState' = NoQueueState
      /\ \A state \in saves' : state \in saves \/ state = checkpointState
      /\ UNCHANGED <<added, executed, stored, persisted, deletions, readWatermark, readers, nonReadableMin,
                     deletionWatermark>>
  BY DEF UpdateQueueState
<1>2. StateOK(NoQueueState, added, executed, readWatermark)
  <2>1. FirstKey <= readWatermark
    BY FirstKeys DEF Inv, MarksInv
  <2> QED BY <2>1, NoQueueStateOK DEF Inv, HistoryInv
<1>3. StatesInv'
  BY <1>1, <1>2 DEF Inv, StatesInv
<1>4. StoredInv'
  <2>1. LeastKey(checkpointState) = deletionWatermark
    BY <1>1 DEF Inv, CheckpointInv
  <2> QED BY <1>1, <2>1 DEF Inv, StoredInv
<1>5. CheckpointInv'
  BY <1>1 DEF CheckpointInv
<1> QED BY <1>1, <1>3, <1>4, <1>5 DEF Inv, HistoryInv, MarksInv, ReadersInv, DeletionsInv

\* ... every step keeps it ...
LEMMA StepInv == Inv /\ [Next]_vars => Inv'
<1> SUFFICES ASSUME Inv, [Next]_vars PROVE Inv'
  OBVIOUS
<1>1. CASE UNCHANGED vars
  BY <1>1 DEF vars, storeVars, queueVars, Inv, HistoryInv, MarksInv, ReadersInv, StatesInv, StoredInv,
              CheckpointInv, DeletionsInv
<1>2. CASE Shard
  BY <1>2, AddTaskStep, RenewRangeStep, ReloadStep, SaveLandsStep, DeletionLandsStep DEF Shard
<1>3. ASSUME NEW id \in ReaderIDs, Reader(id) PROVE Inv'
  BY <1>3, LoadTasksStep, LoadFromRemovedStep, AckStep DEF Reader
<1>4. CASE EventLoop
  BY <1>4, ProcessNewRangeStep, UnloadPendingTasksStep, MoveStuckRangeStep, CompactSomeSlicesStep, ShrinkStep,
     CollectScopesStep, RangeCompleteTasksStep, RangeCompleteTasksFailsStep, UpdateQueueStateStep DEF EventLoop
<1> QED BY <1>1, <1>2, <1>3, <1>4 DEF Next

\* ... hence it always holds.
LEMMA AlwaysInv == Spec => []Inv
BY InitInv, StepInv, PTL DEF Spec

-----------------------------------------------------------------------------
(* Theorems                                                                *)

LEMMA SlicesAtPlaces ==
  ASSUME NEW rs \in ReaderMaps
  PROVE  /\ \A p \in Places(rs) : SliceAt(rs, p) \in AllSlices(rs)
         /\ \A s \in AllSlices(rs) : \E p \in Places(rs) : s = SliceAt(rs, p)
<1>1. \A id \in DOMAIN rs : DOMAIN rs[id].slices = 1..Len(rs[id].slices)
  BY MapFields, ReaderFields
<1>2. ASSUME NEW p \in Places(rs) PROVE SliceAt(rs, p) \in AllSlices(rs)
  <2>1. PICK id \in DOMAIN rs : \E n \in DOMAIN rs[id].slices : p = <<id, n>>
    BY DEF Places
  <2>2. PICK n \in DOMAIN rs[id].slices : p = <<id, n>>
    BY <2>1
  <2>3. SliceAt(rs, p) = rs[id].slices[n] /\ n \in 1..Len(rs[id].slices)
    BY <1>1, <2>2 DEF SliceAt
  <2> QED BY <2>3 DEF AllSlices, Elements
<1>3. ASSUME NEW s \in AllSlices(rs) PROVE \E p \in Places(rs) : s = SliceAt(rs, p)
  <2>1. PICK id \in DOMAIN rs : s \in Elements(rs[id].slices)
    BY DEF AllSlices
  <2>2. PICK n \in 1..Len(rs[id].slices) : s = rs[id].slices[n]
    BY <2>1 DEF Elements
  <2>3. <<id, n>> \in Places(rs)
    BY <1>1, <2>2 DEF Places
  <2>4. SliceAt(rs, <<id, n>>) = s
    BY <2>2 DEF SliceAt
  <2> QED BY <2>3, <2>4
<1> QED BY <1>2, <1>3

\* A slice of a reader, and its scope.
LEMMA PlacedSlices ==
  ASSUME Inv, NEW p \in Places(readers)
  PROVE  /\ SliceAt(readers, p) \in GoodSlices
         /\ deletionWatermark <= SliceAt(readers, p).min /\ SliceAt(readers, p).max <= nonReadableMin
         /\ SliceAt(readers, p).pending \subseteq added /\ SliceAt(readers, p).acked \subseteq executed
<1>1. readers \in ReaderMaps
  BY StoredTasks
<1>2. SliceAt(readers, p) \in AllSlices(readers)
  BY <1>1, SlicesAtPlaces
<1> QED BY <1>1, <1>2, SlicesGood DEF Inv, ReadersInv, ReadersOK

LEMMA ScopesTyped ==
  ASSUME NEW lo \in Nat, NEW hi \in Nat, FirstKey <= lo, lo <= hi, hi <= MaxKey, NEW P \in SUBSET Universal
  PROVE  NewScope(lo, hi, P) \in ScopeType
<1>1. lo \in FirstKey..MaxKey /\ hi \in FirstKey..MaxKey
  BY FirstKeys
<1> QED BY <1>1 DEF ScopeType, NewScope

\* Its states and scopes are in their types.
LEMMA StatesTyped ==
  ASSUME NEW st, NEW A, NEW E, NEW w, StateOK(st, A, E, w)
  PROVE  StateType(st)
<1> DEFINE high == st.exclusiveReaderHighWatermark
<1>1. high \in FirstKey..MaxKey /\ high \in Nat /\ high <= MaxKey
  BY FirstKeys DEF StateOK
<1>2. ASSUME NEW id \in DOMAIN st.readerScopes
      PROVE  /\ Len(st.readerScopes[id]) > 0
             /\ \A n \in DOMAIN st.readerScopes[id] : st.readerScopes[id][n] \in ScopeType
  <2> DEFINE q == st.readerScopes[id]
  <2>1. ScopesOK(q, high)
    BY DEF StateOK
  <2> HIDE DEF q, high
  <2>2. Len(q) \in Nat /\ 0 < Len(q) /\ DOMAIN q = 1..Len(q)
    BY <2>1 DEF ScopesOK
  <2>3. ASSUME NEW n \in 1..Len(q) PROVE q[n] \in ScopeType
    <3>1. q[n] \in ScopeRecords /\ FirstKey <= q[n].min /\ q[n].min <= q[n].max /\ q[n].max <= high
      BY <2>1 DEF ScopesOK
    <3>2. /\ q[n].min \in Nat /\ q[n].max \in Nat /\ q[n].predicate \in SUBSET Universal
          /\ q[n] = NewScope(q[n].min, q[n].max, q[n].predicate)
      BY <3>1 DEF ScopeRecords, NewScope
    <3>3. q[n].max <= MaxKey
      BY <1>1, <3>1, <3>2, FirstKeys
    <3>4. NewScope(q[n].min, q[n].max, q[n].predicate) \in ScopeType
      BY <3>1, <3>2, <3>3, ScopesTyped
    <3> QED BY <3>2, <3>4
  <2>4. Len(q) > 0 /\ \A n \in DOMAIN q : q[n] \in ScopeType
    BY <2>2, <2>3
  <2> QED BY <2>4 DEF q
<1> QED BY <1>1, <1>2 DEF StateType, StateOK

LEMMA InvTypeOK == Inv => TypeOK
<1> SUFFICES ASSUME Inv PROVE TypeOK
  OBVIOUS
<1>1. readers \in ReaderMaps
  BY StoredTasks
<1>2. /\ FirstKey \in Nat /\ MaxKey \in Nat
      /\ deletionWatermark \in Nat /\ nonReadableMin \in Nat /\ readWatermark \in Nat
      /\ FirstKey <= deletionWatermark /\ deletionWatermark <= nonReadableMin
      /\ nonReadableMin <= readWatermark /\ readWatermark <= MaxKey
  BY FirstKeys DEF Inv, MarksInv
<1>3. stored \subseteq added /\ executed \subseteq added /\ added \subseteq Tasks
  BY DEF Inv, HistoryInv
<1>4. \A state \in {persisted, checkpointState} \cup saves : StateType(state)
  <2> SUFFICES ASSUME NEW state \in {persisted, checkpointState} \cup saves PROVE StateType(state)
    OBVIOUS
  <2>1. StateOK(state, added, executed, readWatermark)
    BY DEF Inv, StatesInv
  <2> QED BY <2>1, StatesTyped
<1>5. /\ DOMAIN readers \subseteq ReaderIDs
      /\ \A id \in DOMAIN readers : readers[id].nextReadSlice \in {Removed, 0} \cup DOMAIN readers[id].slices
  <2>1. DOMAIN readers \subseteq ReaderIDs /\ \A id \in DOMAIN readers : readers[id] \in GoodReaders
    BY <1>1, MapFields
  <2> QED BY <2>1, ReaderFields
<1>6. ASSUME NEW p \in Places(readers)
      PROVE  LET s == SliceAt(readers, p) IN
             /\ ScopeOf(s) \in ScopeType
             /\ s.pending \cap s.acked = {} /\ Tracked(s) \subseteq added
             /\ s.pendingPerKey \in [Groups -> Nat]
  <2> DEFINE s == SliceAt(readers, p)
  <2>1. /\ s \in GoodSlices /\ deletionWatermark <= s.min /\ s.max <= nonReadableMin
        /\ s.pending \subseteq added /\ s.acked \subseteq executed
    BY PlacedSlices
  <2> HIDE DEF s
  <2>2. /\ s.min \in Nat /\ s.max \in Nat /\ s.min <= s.max /\ s.predicate \in SUBSET Universal
        /\ TrackerOK(s)
    BY <2>1, SliceFields
  <2>3. FirstKey <= s.min /\ s.max <= MaxKey
    BY <1>2, <2>1, <2>2
  <2>4. ScopeOf(s) \in ScopeType
    BY <2>2, <2>3, ScopesTyped DEF ScopeOf
  <2>5. /\ s.pending \cap s.acked = {} /\ Tracked(s) \subseteq added
        /\ s.pendingPerKey \in [Groups -> Nat]
    BY <1>3, <2>1, <2>2 DEF TrackerOK, Tracked
  <2> QED BY <2>4, <2>5 DEF s
<1>7. {readWatermark, nonReadableMin, deletionWatermark} \subseteq FirstKey..MaxKey
  BY <1>2
<1>8. loop \in {"idle", "alerted", "shrunk", "delete", "save"}
  BY DEF Inv, CheckpointInv
<1> QED BY <1>3, <1>4, <1>5, <1>6, <1>7, <1>8 DEF TypeOK

\* TypeOK holds in every reachable state: what the readers, the states that may be saved and the
\* watermarks are (queue_base.go, reader.go, slice.go), and that an executable is not both pending
\* and acknowledged.
THEOREM TypeCorrect == Spec => []TypeOK
BY AlwaysInv, InvTypeOK, PTL

LEMMA InvSlicesInOrder == Inv => SlicesInOrder
<1> SUFFICES ASSUME Inv PROVE SlicesInOrder
  OBVIOUS
<1>1. readers \in ReaderMaps
  BY StoredTasks
<1>2. ASSUME NEW id \in DOMAIN readers PROVE Disjoint(readers[id].slices)
  <2> DEFINE q == readers[id].slices
  <2>1. DOMAIN q = 1..Len(q) /\ InOrder(q)
    BY <1>1, MapFields, ReaderFields
  <2> QED BY <2>1 DEF Disjoint, InOrder
<1>3. ASSUME NEW p \in Places(readers)
      PROVE  LET s == SliceAt(readers, p) IN
             /\ s.max <= nonReadableMin
             /\ \A m, n \in DOMAIN s.iterators :
                   m < n => s.iterators[m].max < s.iterators[n].min
             /\ \A n \in DOMAIN s.iterators :
                   s.min <= s.iterators[n].min /\ s.iterators[n].max <= s.max
             /\ \A t \in Tracked(s) : ScopeContains(ScopeOf(s), t)
  <2> DEFINE s == SliceAt(readers, p)
  <2>1. s \in GoodSlices /\ s.max <= nonReadableMin
    BY PlacedSlices
  <2> HIDE DEF s
  <2>2. IteratorsOK(s.iterators, s.min, s.max) /\ DOMAIN s.iterators = 1..Len(s.iterators)
    BY <2>1, SliceFields
  <2>3. \A t \in Tracked(s) : ScopeContains(ScopeOf(s), t)
    BY <2>1, SliceFields DEF ScopeOf, NewScope, ScopeContains, ContainsKey
  <2>4. /\ \A m, n \in DOMAIN s.iterators : m < n => s.iterators[m].max < s.iterators[n].min
        /\ \A n \in DOMAIN s.iterators : s.min <= s.iterators[n].min /\ s.iterators[n].max <= s.max
    BY <2>2 DEF IteratorsOK
  <2> QED BY <2>1, <2>3, <2>4 DEF s
<1> QED BY <1>2, <1>3 DEF SlicesInOrder

\* SlicesInOrder: whatever is cut, joined, shrunk, unloaded, moved or compacted, the slices of a
\* reader are ordered and disjoint (reader.go:560-577), so are the iterators of a slice, which do not
\* touch (slice.go:476-493), and its executables are in its scope (tracker.go:43-46): the code does
\* not panic.
THEOREM Ordered == Spec => []SlicesInOrder
BY AlwaysInv, InvSlicesInOrder, PTL

LEMMA InvGroupsCounted == Inv => GroupsCounted
<1> SUFFICES ASSUME Inv, NEW p \in Places(readers), NEW g \in Groups
             PROVE  CountOf(Tracked(SliceAt(readers, p)), g) <= SliceAt(readers, p).pendingPerKey[g]
  BY DEF GroupsCounted
<1> QED BY PlacedSlices, SliceFields DEF TrackerOK

\* GroupsCounted: a group with executables is never missing from pendingPerKey, so that
\* shrinkPredicate never drops it from the predicate of its slice (slice.go:329-346).
THEOREM Counted == Spec => []GroupsCounted
BY AlwaysInv, InvGroupsCounted, PTL

LEMMA InvNoTaskForgotten == Inv => NoTaskForgotten
<1> SUFFICES ASSUME Inv, NEW t \in stored \ executed, t.key < nonReadableMin
             PROVE  \E p \in Places(readers) :
                        t \in SliceAt(readers, p).pending \/ ToBeRead(SliceAt(readers, p), t)
  BY DEF NoTaskForgotten
<1>1. readers \in ReaderMaps /\ t \in added \ executed
  BY StoredTasks DEF Inv, HistoryInv
<1>2. PICK s \in AllSlices(readers) : Holds(s, t)
  BY <1>1 DEF Inv, ReadersInv, ReadersOK
<1>3. PICK p \in Places(readers) : s = SliceAt(readers, p)
  BY <1>1, <1>2, SlicesAtPlaces
<1>4. s \in GoodSlices
  BY <1>1, <1>2, SlicesGood
<1>5. DOMAIN s.iterators = 1..Len(s.iterators)
  BY <1>4, SliceFields
<1>6. t \in s.pending \/ ToBeRead(s, t)
  BY <1>2, <1>5 DEF Holds, Reads, ToBeRead
<1> QED BY <1>3, <1>6

\* NoTaskForgotten: a stored task below the key up to which the queue has read, until it has been
\* executed, is pending in some slice of some reader or to be read by one (reader.go, slice.go,
\* the actions of service/history/queues).
THEOREM NotForgotten == Spec => []NoTaskForgotten
BY AlwaysInv, InvNoTaskForgotten, PTL

LEMMA InvNoTaskForgottenByReload == Inv => NoTaskForgottenByReload
<1> SUFFICES ASSUME Inv, NEW state \in {persisted} \cup saves, NEW t \in added \ executed,
                    t.key < state.exclusiveReaderHighWatermark
             PROVE  \E id \in DOMAIN state.readerScopes :
                        \E n \in DOMAIN state.readerScopes[id] : ScopeContains(state.readerScopes[id][n], t)
  BY DEF NoTaskForgottenByReload
<1>1. StateOK(state, added, executed, readWatermark)
  BY DEF Inv, StatesInv
<1>2. PICK id \in DOMAIN state.readerScopes : \E n \in 1..Len(state.readerScopes[id]) :
          ScopeContains(state.readerScopes[id][n], t)
  BY <1>1 DEF StateOK
<1>3. DOMAIN state.readerScopes[id] = 1..Len(state.readerScopes[id])
  BY <1>1 DEF StateOK, ScopesOK
<1> QED BY <1>2, <1>3

\* NoTaskForgottenByReload: every state of the queue that is or may become persisted, also by a copy
\* that lands late, has each task that is not executed in a scope or above its watermark
\* (queue_base.go:289-388).
THEOREM NotForgottenByReload == Spec => []NoTaskForgottenByReload
BY AlwaysInv, InvNoTaskForgottenByReload, PTL

\* OnlyExecutedDeleted: only executed tasks are deleted from the store, though a deletion may take
\* effect after its caller was told it had failed, or is gone (queue_base.go:329-347).
THEOREM OnlyExecuted == Spec => []OnlyExecutedDeleted
<1>1. Inv => OnlyExecutedDeleted
  BY DEF Inv, HistoryInv, DeletionsInv, OnlyExecutedDeleted
<1> QED BY <1>1, AlwaysInv, PTL

\* NoTaskLeftBehind: no stored task is below the range that the next deletion begins with, before or
\* after a reload (queue_base.go:329-331).
THEOREM NotLeftBehind == Spec => []NoTaskLeftBehind
<1>1. Inv => NoTaskLeftBehind
  BY DEF Inv, StoredInv, NoTaskLeftBehind
<1> QED BY <1>1, AlwaysInv, PTL

\* Only a reload changes the number of reloads, only a deletion and a reload what has been deleted.
LEMMA ReloadCounted == Spec => [](reloads \in Nat)
<1>1. Init => reloads \in Nat
  BY DEF Init
<1>2. reloads \in Nat /\ [Next]_vars => (reloads \in Nat)'
  <2> SUFFICES ASSUME reloads \in Nat, [Next]_vars PROVE reloads' \in Nat
    OBVIOUS
  <2>1. CASE UNCHANGED vars
    BY <2>1 DEF vars
  <2>2. CASE Shard
    BY <2>2 DEF Shard, AddTask, RenewRange, Reload, SaveLands, DeletionLands
  <2>3. ASSUME NEW id \in ReaderIDs, Reader(id) PROVE reloads' = reloads
    BY <2>3 DEF Reader, LoadTasks, LoadFromRemoved, Ack
  <2>4. CASE EventLoop
    <3>1. CASE UnloadPendingTasks \/ MoveStuckRange \/ CompactSomeSlices
      BY <3>1 DEF UnloadPendingTasks, MoveStuckRange, CompactSomeSlices, Alerted
    <3>2. CASE ~(UnloadPendingTasks \/ MoveStuckRange \/ CompactSomeSlices)
      BY <2>4, <3>2 DEF EventLoop, ProcessNewRange, Shrink, CollectScopes, RangeCompleteTasks,
                        RangeCompleteTasksFails, UpdateQueueState
    <3> QED BY <3>1, <3>2
  <2> QED BY <2>1, <2>2, <2>3, <2>4 DEF Next
<1> QED BY <1>1, <1>2, PTL DEF Spec

LEMMA WatermarkMoves ==
  ASSUME [Next]_vars
  PROVE  deletionWatermark' = deletionWatermark \/ Reload \/ RangeCompleteTasks
<1>1. CASE UNCHANGED vars
  BY <1>1 DEF vars, queueVars
<1>2. CASE Shard
  BY <1>2 DEF Shard, AddTask, RenewRange, SaveLands, DeletionLands, queueVars
<1>3. ASSUME NEW id \in ReaderIDs, Reader(id) PROVE deletionWatermark' = deletionWatermark
  BY <1>3 DEF Reader, LoadTasks, LoadFromRemoved, Ack
<1>4. CASE EventLoop
  <2>1. CASE UnloadPendingTasks \/ MoveStuckRange \/ CompactSomeSlices
    BY <2>1 DEF UnloadPendingTasks, MoveStuckRange, CompactSomeSlices, Alerted
  <2>2. CASE ~(UnloadPendingTasks \/ MoveStuckRange \/ CompactSomeSlices)
    BY <1>4, <2>2 DEF EventLoop, ProcessNewRange, Shrink, CollectScopes, RangeCompleteTasksFails,
                      UpdateQueueState
  <2> QED BY <2>1, <2>2
<1> QED BY <1>1, <1>2, <1>3, <1>4 DEF Next

\* DeletionWatermarkGrows: until the shard is loaded again, what is deleted only grows; a checkpoint
\* never finds a slice below it (queue_base.go:321-347).
THEOREM WatermarkGrows == Spec => DeletionWatermarkGrows
<1>1. Inv /\ reloads \in Nat /\ [Next]_vars => (reloads' = reloads => deletionWatermark' >= deletionWatermark)
  <2> SUFFICES ASSUME Inv, reloads \in Nat, [Next]_vars, reloads' = reloads
               PROVE  deletionWatermark' >= deletionWatermark
    OBVIOUS
  <2>1. deletionWatermark \in Nat
    BY DEF Inv, MarksInv
  <2>2. CASE deletionWatermark' = deletionWatermark
    BY <2>1, <2>2
  <2>3. ~Reload
    BY DEF Reload
  <2>4. CASE RangeCompleteTasks
    <3>1. loop = "delete" /\ deletionWatermark' = LeastKey(checkpointState)
      BY <2>4 DEF RangeCompleteTasks
    <3>2. StateOK(checkpointState, added, executed, readWatermark)
      BY DEF Inv, StatesInv
    <3>3. LeastKey(checkpointState) \in Nat
      BY <3>2, LeastKeyOK
    <3>4. deletionWatermark <= LeastKey(checkpointState)
      BY <3>1 DEF Inv, CheckpointInv
    <3> QED BY <2>1, <3>1, <3>3, <3>4
  <2> QED BY <2>2, <2>3, <2>4, WatermarkMoves
<1>2. Inv /\ reloads \in Nat /\ [Next]_vars =>
          [reloads' = reloads => deletionWatermark' >= deletionWatermark]_vars
  BY <1>1
<1> QED BY <1>2, AlwaysInv, ReloadCounted, PTL DEF Spec, DeletionWatermarkGrows

=============================================================================
