----------------------------- MODULE QueueSlices -----------------------------
(***************************************************************************)
(* What the slices of a history task queue are and how they are cut and    *)
(* joined (service/history/queues: range.go, scope.go, iterator.go,        *)
(* tracker.go, slice.go, and the slice lists of reader.go).                *)
(*                                                                         *)
(* A slice is responsible for the tasks in its scope: those with a key in  *)
(* its range and a group its predicate selects.  Each of them is either    *)
(* still to be read, when its key is in the range of one of the slice's    *)
(* iterators, or tracked as an executable, or done with.                   *)
(*                                                                         *)
(* Abstractions.  A key is a number and Key.Next() its successor.  A       *)
(* predicate is the set of groups it selects, where Others stands for all  *)
(* the groups the queue has no task of: the normal forms of AndPredicates  *)
(* and OrPredicates for predicates of one grouper are in one-to-one        *)
(* correspondence with these sets.  An executable is the task it executes, *)
(* and whether its state is TaskStateAcked.                                *)
(***************************************************************************)
EXTENDS Integers, FiniteSets, Sequences, SequencesExt

CONSTANTS
    Groups,                        \* the keys of the Grouper
    Others,                        \* all other groups
    MaxPredicateSize,              \* ReaderOptions.MaxPredicateSize, in groups; 0: none
    ShrinkPredicateMaxPendingKeys  \* shrinkPredicateMaxPendingKeys

ASSUME SliceConstants ==
    /\ Others \notin Groups
    /\ IsFiniteSet(Groups)
    /\ MaxPredicateSize \in Nat
    /\ ShrinkPredicateMaxPendingKeys \in Nat

Universal == Groups \cup {Others}

MinOf(a, b) == IF a < b THEN a ELSE b
MaxOf(a, b) == IF a < b THEN b ELSE a

-----------------------------------------------------------------------------
(* Sequences.                                                              *)

\* The numbers of a finite set in ascending order.
Ascending(numbers) ==
    [k \in 1..Cardinality(numbers) |->
        CHOOSE n \in numbers : Cardinality({m \in numbers : m < n}) = k - 1]

\* The elements of a sequence at some of its places.
Selected(seq, places) ==
    LET order == Ascending(places) IN [k \in DOMAIN order |-> seq[order[k]]]

\* Two lists of slices or of iterators, each by min, are walked side by side;
\* of two with one min the incoming is the first.
InMinOrder(incoming, current) ==
    LET seq == incoming \o current
        Before(m, n) == seq[m].min < seq[n].min \/ (seq[m].min = seq[n].min /\ m < n)
        Place(n) == 1 + Cardinality({m \in DOMAIN seq : Before(m, n)})
    IN  [k \in DOMAIN seq |-> seq[CHOOSE n \in DOMAIN seq : Place(n) = k]]

-----------------------------------------------------------------------------
(* Ranges and scopes.  A slice and an iterator are ranges too: they have   *)
(* the fields min (inclusive) and max (exclusive).                         *)

NewRange(min, max) == [min |-> min, max |-> max]
ContainsKey(r, key) == r.min <= key /\ key < r.max
CanSplit(r, key) == ContainsKey(r, key) \/ key = r.max
CanMerge(r, q) == r.min <= q.max /\ q.min <= r.max
Merge(r, q) == NewRange(MinOf(r.min, q.min), MaxOf(r.max, q.max))

NewScope(min, max, predicate) == [min |-> min, max |-> max, predicate |-> predicate]
ScopeContains(s, t) == ContainsKey(s, t.key) /\ t.group \in s.predicate
IsEmpty(s) == s.min = s.max \/ s.predicate = {}

\* ensurePredicateSizeLimit: a predicate that lists too many groups, to select
\* or to reject them, is given up for the universal one.
SizeLimited(predicate) ==
    LET listed == IF Others \in predicate THEN Universal \ predicate ELSE predicate
    IN  IF MaxPredicateSize > 0 /\ Cardinality(listed) > MaxPredicateSize
        THEN Universal ELSE predicate

-----------------------------------------------------------------------------
(* executableTracker                                                       *)

NothingPending == [pending |-> {}, acked |-> {}, pendingPerKey |-> [g \in Groups |-> 0]]

Tracked(s) == s.pending \cup s.acked

CountOf(tasks, g) == Cardinality({t \in tasks : t.group = g})

\* Mutant of SplitTracker: all executables stay where they are.
SplitNothing(tracker, thisScope) ==
    << [pending |-> tracker.pending, acked |-> tracker.acked,
        pendingPerKey |-> tracker.pendingPerKey], NothingPending >>

\* The executables outside of thisScope move to a new tracker.
SplitTracker(tracker, thisScope) ==
    LET moved == {t \in Tracked(tracker) : ~ScopeContains(thisScope, t)}
    IN  << [pending |-> tracker.pending \ moved, acked |-> tracker.acked \ moved,
            pendingPerKey |-> [g \in Groups |-> tracker.pendingPerKey[g] - CountOf(moved, g)]],
           [pending |-> tracker.pending \cap moved, acked |-> tracker.acked \cap moved,
            pendingPerKey |-> [g \in Groups |-> CountOf(moved, g)]] >>

\* Mutant of MergeTracker: the counts of the incoming tracker are not added.
MergeUncounted(this, incoming) ==
    [pending |-> incoming.pending \cup (this.pending \ incoming.acked),
     acked |-> incoming.acked \cup (this.acked \ incoming.pending),
     pendingPerKey |-> this.pendingPerKey]

\* The smaller tracker is added to the larger one; an executable that is in
\* both is replaced, and counted twice.
MergeTracker(this, incoming) ==
    LET larger  == IF Cardinality(Tracked(this)) < Cardinality(Tracked(incoming))
                   THEN incoming ELSE this
        smaller == IF larger = this THEN incoming ELSE this
    IN  [pending |-> smaller.pending \cup (larger.pending \ smaller.acked),
         acked   |-> smaller.acked \cup (larger.acked \ smaller.pending),
         pendingPerKey |-> [g \in Groups |->
             larger.pendingPerKey[g] + CountOf(Tracked(smaller), g)]]

-----------------------------------------------------------------------------
(* Iterators                                                               *)

\* Mutant of AppendIterator: the ranges are not merged where they overlap.
AppendIteratorOnly(iterators, it) == Append(iterators, it)

AppendIterator(iterators, it) ==
    IF iterators # <<>> /\ CanMerge(Last(iterators), it)
    THEN ReplaceAt(iterators, Len(iterators), Merge(Last(iterators), it))
    ELSE Append(iterators, it)

MergeIterators(this, incoming) ==
    FoldLeft(AppendIterator, <<>>, InMinOrder(incoming, this))

\* The parts of the iterators below and from a key on.
IteratorsBelow(iterators, key) ==
    LET below == Selected(iterators, {n \in DOMAIN iterators :
                              iterators[n].max <= key \/ iterators[n].min < key})
    IN  [n \in DOMAIN below |-> NewRange(below[n].min, MinOf(below[n].max, key))]

\* Mutant of IteratorsFrom: an iterator that spans the key is not split.
IteratorsAbove(iterators, key) ==
    Selected(iterators, {n \in DOMAIN iterators : iterators[n].min >= key})

IteratorsFrom(iterators, key) ==
    LET from == Selected(iterators, {n \in DOMAIN iterators : iterators[n].max > key})
    IN  [n \in DOMAIN from |-> NewRange(MaxOf(from[n].min, key), from[n].max)]

-----------------------------------------------------------------------------
(* Slices                                                                  *)

SliceOf(scope, iterators, tracker) ==
    [min |-> scope.min, max |-> scope.max, predicate |-> SizeLimited(scope.predicate),
     iterators |-> iterators,
     pending |-> tracker.pending, acked |-> tracker.acked,
     pendingPerKey |-> tracker.pendingPerKey]

NewSlice(scope) == SliceOf(scope, <<NewRange(scope.min, scope.max)>>, NothingPending)

ScopeOf(s) == NewScope(s.min, s.max, s.predicate)

SplitByRange(s, key) ==
    LET left    == NewScope(s.min, key, s.predicate)
        right   == NewScope(key, s.max, s.predicate)
        tracker == SplitTracker(s, left)
    IN  << SliceOf(left, IteratorsBelow(s.iterators, key), tracker[1]),
           SliceOf(right, IteratorsFrom(s.iterators, key), tracker[2]) >>

\* Both parts have to read on where the slice has stopped.  The mutant of
\* RemainingIterators leaves the reading to the first one.
NoRemaining(iterators) == <<>>
RemainingIterators(iterators) == iterators

SplitByPredicate(s, predicate) ==
    LET pass    == NewScope(s.min, s.max, s.predicate \cap predicate)
        fail    == NewScope(s.min, s.max, s.predicate \ predicate)
        tracker == SplitTracker(s, pass)
    IN  << SliceOf(pass, s.iterators, tracker[1]),
           SliceOf(fail, RemainingIterators(s.iterators), tracker[2]) >>

Join(s, t, scope) ==
    SliceOf(scope, MergeIterators(s.iterators, t.iterators), MergeTracker(s, t))

MergeByRange(s, t) ==
    Join(s, t, NewScope(MinOf(s.min, t.min), MaxOf(s.max, t.max), s.predicate))

MergeByPredicate(s, t) ==
    Join(s, t, NewScope(s.min, s.max, s.predicate \cup t.predicate))

CompactWithSlice(s, t) ==
    Join(s, t, NewScope(MinOf(s.min, t.min), MaxOf(s.max, t.max),
                        s.predicate \cup t.predicate))

NonEmpty(slices) == Selected(slices, {n \in DOMAIN slices : ~IsEmpty(slices[n])})

\* MergeWithSlice of a slice s and a slice t with which it overlaps or which
\* it touches, where s does not begin after t.
MergeInOrder(s, t) ==
    LET parts == SplitByRange(s, t.min)
        left  == parts[1]
        right == parts[2]
    IN  IF s.predicate = t.predicate
        THEN << MergeByRange(s, t) >>
        ELSE NonEmpty(IF CanSplit(t, right.max)
             THEN LET incoming == SplitByRange(t, right.max)
                  IN  << left, MergeByPredicate(right, incoming[1]), incoming[2] >>
             ELSE LET current == SplitByRange(right, t.max)
                  IN  << left, MergeByPredicate(current[1], t), current[2] >>)

MergeWithSlice(s, t) == IF s.min > t.min THEN MergeInOrder(t, s) ELSE MergeInOrder(s, t)

\* ShrinkScope forgets what is done, raises the range to the first task that
\* may not be, and when all is read narrows the predicate to what is tracked.
\* The mutant of RangeStart forgets what is still to be read.
RangeStartOfPending(s) ==
    LET keys == {t.key : t \in s.pending} IN IF keys = {} THEN s.max ELSE Min(keys)

RangeStart(s) ==
    LET keys == {t.key : t \in s.pending} \cup
                (IF s.iterators = <<>> THEN {} ELSE {s.iterators[1].min})
    IN  IF keys = {} THEN s.max ELSE Min(keys)

ShrinkScope(s) ==
    LET perKey == [g \in Groups |-> s.pendingPerKey[g] - CountOf(s.acked, g)]
        groups == {g \in Groups : perKey[g] # 0}
        shrinkable == s.iterators = <<>> /\ Cardinality(groups) <= ShrinkPredicateMaxPendingKeys
    IN  [s EXCEPT !.acked = {}, !.pendingPerKey = perKey,
                  !.min = RangeStart(s),
                  !.predicate = IF shrinkable THEN SizeLimited(groups) ELSE @]

\* Clear unloads the slice: everything that is not done will be read again.
\* Its mutant goes on where reading had stopped.
ClearTracker(s) ==
    LET shrunk == ShrinkScope(s) IN SliceOf(ScopeOf(shrunk), shrunk.iterators, NothingPending)

Clear(s) == NewSlice(ScopeOf(ShrinkScope(s)))

-----------------------------------------------------------------------------
(* The slice list of a reader.  nextReadSlice is a place in the list, 0    *)
(* for nil, or Removed for an element that has been taken off the list.    *)

Removed == -1

\* resetNextReadSliceLocked
ResetReader(slices) ==
    [slices |-> slices,
     nextReadSlice |-> SelectInSeq(slices, LAMBDA s : s.iterators # <<>>)]

MergeOrAppendSlice(slices, s) ==
    IF IsEmpty(s) THEN slices
    ELSE IF slices = <<>> \/ ~CanMerge(Last(slices), s) THEN Append(slices, s)
    ELSE Front(slices) \o MergeWithSlice(Last(slices), s)

MergeSlices(reader, incoming) ==
    IF incoming = <<>> THEN reader
    ELSE ResetReader(FoldLeft(MergeOrAppendSlice, <<>>, InMinOrder(incoming, reader.slices)))

AppendSlices(reader, incoming) ==
    IF incoming = <<>> THEN reader ELSE ResetReader(reader.slices \o NonEmpty(incoming))

\* ShrinkSlices takes the slices that are done off the list, nextReadSlice
\* included, which it does not reset.
ShrinkSlices(reader) ==
    LET shrunk == [n \in DOMAIN reader.slices |-> ShrinkScope(reader.slices[n])]
        next   == reader.nextReadSlice
    IN  [slices |-> NonEmpty(shrunk),
         nextReadSlice |->
             IF next \in {0, Removed} THEN next
             ELSE IF IsEmpty(shrunk[next]) THEN Removed
             ELSE Len(NonEmpty(SubSeq(shrunk, 1, next)))]

\* CompactSlices joins the chosen elements with the ones before them.
CompactSlices(reader, chosen) ==
    ResetReader(FoldLeftDomain(
        LAMBDA slices, n :
            IF slices = <<>> \/ n \notin chosen THEN Append(slices, reader.slices[n])
            ELSE ReplaceAt(slices, Len(slices),
                           CompactWithSlice(Last(slices), reader.slices[n])),
        <<>>, reader.slices))
=============================================================================
