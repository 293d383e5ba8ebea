---------------------- MODULE MatchingFairBacklogProofs ----------------------
(***************************************************************************)
(* TLAPS proofs of the types of MatchingFairBacklog, and that it loses and *)
(* skips no task and its ack levels only grow, when no task is respooled   *)
(* and no deletion comes late.  It is not safe with either (see            *)
(* KeysAndRespool and KeysAndLate of MCMatchingFairBacklog).               *)
(*                                                                         *)
(* A task is owed from the moment it is in the store until it is started.  *)
(* OwedInv says where it is, on the way from its writer to memory, and     *)
(* ReadInv that a read under way brings it when it is above the memory.    *)
(***************************************************************************)
EXTENDS MatchingFairBacklog, FiniteSetTheorems, WellFoundedInduction, TLAPS

-----------------------------------------------------------------------------
(* Finite sets of numbers                                                  *)

LEMMA LeastElement ==
  ASSUME NEW S \in SUBSET Nat, S # {}
  PROVE  \E x \in S : \A y \in S : x <= y
<1>1. PICK x \in S : \A y \in S : <<y, x>> \notin OpToRel(<, Nat)
  BY NatLessThanWellFounded, WFMin
<1>2. ASSUME NEW y \in S, y < x PROVE FALSE
  <2>1. y \in Nat /\ x \in Nat
    OBVIOUS
  <2>2. <<y, x>> \in OpToRel(<, Nat)
    BY <1>2, <2>1 DEF OpToRel
  <2> QED BY <1>1, <2>2
<1> QED BY <1>2

\* The greatest element is the one with the fewest elements above it.
LEMMA GreatestElement ==
  ASSUME NEW S \in SUBSET Nat, S # {}, IsFiniteSet(S)
  PROVE  Max(S) \in S /\ \A y \in S : y <= Max(S)
<1> DEFINE Above(x) == {y \in S : x < y}
           Counts == {Cardinality(Above(x)) : x \in S}
<1>1. \A x \in S : IsFiniteSet(Above(x)) /\ Cardinality(Above(x)) \in Nat
  BY FS_Subset, FS_CardinalityType
<1>2. Counts \in SUBSET Nat /\ Counts # {}
  BY <1>1
<1>3. PICK c \in Counts : \A d \in Counts : c <= d
  BY <1>2, LeastElement
<1>4. PICK x \in S : c = Cardinality(Above(x))
  BY <1>3
<1>5. ASSUME NEW y \in S, x < y PROVE FALSE
  <2>0. x \in Int /\ y \in Int /\ \A z \in S : z \in Int
    OBVIOUS
  <2>1. Above(y) \in SUBSET Above(x) /\ y \in Above(x) /\ y \notin Above(y)
    <3>1. ASSUME NEW z \in S, y < z PROVE x < z
      BY <1>5, <2>0, <3>1
    <3>2. y \in Above(x) /\ y \notin Above(y)
      BY <1>5, <2>0
    <3> QED BY <3>1, <3>2
  <2>2. Cardinality(Above(y)) < Cardinality(Above(x))
    <3> DEFINE A == Above(x)
               B == Above(y)
    <3>1. IsFiniteSet(A) /\ B # A /\ B \in SUBSET A /\ Cardinality(A) \in Nat /\ Cardinality(B) \in Nat
      BY <1>1, <2>1
    <3> HIDE DEF A, B
    <3>2. Cardinality(B) <= Cardinality(A) /\ Cardinality(B) # Cardinality(A)
      BY <3>1, FS_Subset
    <3>3. Cardinality(B) < Cardinality(A)
      BY <3>1, <3>2
    <3> QED BY <3>3 DEF A, B
  <2>3. Cardinality(Above(x)) <= Cardinality(Above(y))
    BY <1>3, <1>4
  <2>4. Cardinality(Above(x)) \in Nat /\ Cardinality(Above(y)) \in Nat
    BY <1>1
  <2> QED BY <2>2, <2>3, <2>4
<1>6. \A y \in S : x >= y
  BY <1>5
<1> QED BY <1>6 DEF Max

LEMMA LowestElements ==
  ASSUME NEW S \in SUBSET Nat, IsFiniteSet(S), NEW n \in Nat
  PROVE  /\ Lowest(S, n) \subseteq S
         /\ \A k \in Lowest(S, n), l \in S : l < k => l \in Lowest(S, n)
         /\ Cardinality(Lowest(S, n)) < n => Lowest(S, n) = S
<1> DEFINE Below(x) == {k \in S : k < x}
<1>1. \A x \in S : IsFiniteSet(Below(x)) /\ Cardinality(Below(x)) \in Nat
  BY FS_Subset, FS_CardinalityType
<1>2. Lowest(S, n) = {l \in S : Cardinality(Below(l)) < n}
  BY DEF Lowest
<1>3. ASSUME NEW k \in Lowest(S, n), NEW l \in S, l < k PROVE l \in Lowest(S, n)
  <2>0. k \in S /\ \A z \in S : z \in Int
    BY <1>2
  <2>1. Below(l) \in SUBSET Below(k)
    <3>1. ASSUME NEW z \in S, z < l PROVE z < k
      BY <1>3, <2>0, <3>1
    <3> QED BY <3>1
  <2>2. Cardinality(Below(l)) <= Cardinality(Below(k)) /\ Cardinality(Below(k)) < n
    BY <1>1, <1>2, <2>0, <2>1, FS_Subset
  <2>3. Cardinality(Below(l)) \in Nat /\ Cardinality(Below(k)) \in Nat
    BY <1>1, <2>0
  <2> QED BY <1>2, <2>2, <2>3
<1>4. ASSUME Cardinality(Lowest(S, n)) < n, Lowest(S, n) # S PROVE FALSE
  <2>1. PICK x \in S \ Lowest(S, n) : \A y \in S \ Lowest(S, n) : x <= y
    <3>1. S \ Lowest(S, n) \in SUBSET Nat /\ S \ Lowest(S, n) # {}
      BY <1>2, <1>4
    <3> QED BY <3>1, LeastElement
  <2>0. \A z \in S : z \in Int
    OBVIOUS
  <2>2. Below(x) \in SUBSET Lowest(S, n)
    <3>1. ASSUME NEW z \in S, z < x PROVE z \in Lowest(S, n)
      BY <2>0, <2>1, <3>1
    <3> QED BY <3>1
  <2>3. IsFiniteSet(Lowest(S, n)) /\ Cardinality(Lowest(S, n)) \in Nat
    BY <1>2, FS_Subset, FS_CardinalityType
  <2>4. Cardinality(Below(x)) <= Cardinality(Lowest(S, n))
    BY <2>2, <2>3, FS_Subset
  <2>5. Cardinality(Below(x)) \in Nat /\ ~(Cardinality(Below(x)) < n)
    BY <1>1, <1>2, <2>1
  <2> QED BY <1>4, <2>3, <2>4, <2>5
<1> QED BY <1>2, <1>3, <1>4

LEMMA LevelsFinite == Levels \in SUBSET (Nat \ {0}) /\ IsFiniteSet(Levels)
<1> DEFINE Passes == UNION {e.passes : e \in Environments}
<1>1. Passes \in SUBSET (Nat \ {0}) /\ IsFiniteSet(Passes) /\ MaxTasks \in Nat
  BY BacklogConstants
<1>2. ASSUME NEW p \in Passes, NEW id \in 1..MaxTasks, NEW top \in Nat, p <= top
      PROVE  Level(p, id) \in Nat \ {0} /\ Level(p, id) <= Level(top, MaxTasks)
  <2>1. p \in Nat /\ id \in Nat /\ id > 0
    BY <1>1
  <2>2. p * (MaxTasks + 1) \in Nat
    BY <1>1, <2>1
  <2>3. p * (MaxTasks + 1) <= top * (MaxTasks + 1)
    BY <1>1, <1>2, <2>1
  <2> QED BY <1>1, <2>1, <2>2, <2>3 DEF Level
<1>3. CASE Passes = {}
  BY <1>3, FS_EmptySet DEF Levels
<1>4. CASE Passes # {}
  <2>1. Max(Passes) \in Nat /\ \A p \in Passes : p <= Max(Passes)
    BY <1>1, <1>4, GreatestElement
  <2>2. \A l \in Levels : l \in Nat \ {0} /\ l <= Level(Max(Passes), MaxTasks)
    <3>1. \A l \in Levels : \E p \in Passes, id \in 1..MaxTasks : l = Level(p, id)
      BY DEF Levels
    <3> HIDE DEF Passes
    <3> QED BY <1>2, <2>1, <3>1
  <2>3. Level(Max(Passes), MaxTasks) \in Nat
    BY <1>1, <2>1 DEF Level
  <2> QED BY <2>2, <2>3, FS_BoundedSetOfNaturals
<1> QED BY <1>3, <1>4

LEMMA HighestElement ==
  ASSUME NEW S \in SUBSET Levels, NEW default
  PROVE  /\ Highest(S, default) \in S \cup {default}
         /\ \A l \in S : l <= Highest(S, default)
         /\ S = {} => Highest(S, default) = default
<1>1. IsFiniteSet(S) /\ S \in SUBSET Nat
  BY LevelsFinite, FS_Subset
<1> QED BY <1>1, GreatestElement DEF Highest

-----------------------------------------------------------------------------
(* Types                                                                   *)

LEMMA MergedType ==
  ASSUME NEW m \in Memory, NEW tasks \in SUBSET Levels, NEW mode
  PROVE  Merged(m, tasks, mode) \in Memory
<1> DEFINE new == Relevant(m, tasks, mode)
           merged == m.unacked \cup (new \ m.evictedAcks)
           kept == Lowest(merged, GetTasksBatchSize)
<1>1. new \in SUBSET Levels /\ merged \in SUBSET Levels /\ m.unacked \in SUBSET Levels
  BY DEF Relevant, Memory
<1>2. kept \in SUBSET Levels
  BY <1>1 DEF Lowest
<1>3. Highest(kept, m.ackLevel) \in Level0
  BY <1>2, HighestElement DEF Memory, Level0
<1>4. Cardinality(kept \ m.unacked) \in Nat /\ Cardinality(m.unacked \ kept) \in Nat
  BY <1>1, <1>2, LevelsFinite, FS_Subset, FS_CardinalityType
<1> DEFINE above == {l \in m.acked : Highest(kept, m.ackLevel) < l}
           atEnd == kept = merged /\ above = {} /\ (mode = "end" \/ (mode = "write" /\ m.atEnd))
           result == [m EXCEPT !.unacked = kept,
                               !.acked = @ \ above,
                               !.loadedTasks = @ + Cardinality(kept \ m.unacked) - Cardinality(m.unacked \ kept),
                               !.readLevel = Highest(kept, m.ackLevel),
                               !.evictedAcks = (@ \ new) \cup above,
                               !.atEnd = atEnd]
<1>5. Merged(m, tasks, mode) = result
  BY DEF Merged
<1>6. above \in SUBSET Levels
  BY DEF Memory
<1>7. atEnd \in BOOLEAN
  OBVIOUS
<1> HIDE DEF new, merged, kept, above, atEnd
<1>8. /\ m.acked \ above \in SUBSET Levels /\ (m.evictedAcks \ new) \cup above \in SUBSET Levels
      /\ m.loadedTasks + Cardinality(kept \ m.unacked) - Cardinality(m.unacked \ kept) \in Int
  BY <1>4, <1>6 DEF Memory
<1>9. result \in Memory
  BY <1>2, <1>3, <1>7, <1>8 DEF Memory
<1> QED BY <1>5, <1>9

LEMMA AdvancedType ==
  ASSUME NEW m \in Memory, NEW byWriter \in BOOLEAN
  PROVE  Advanced(m, byWriter) \in Memory
<1> DEFINE acks == {a \in m.acked : \A l \in m.unacked : a < l}
<1>1. acks \in SUBSET Levels
  BY DEF Memory
<1>2. Highest(acks, m.ackLevel) \in Level0
  BY <1>1, HighestElement DEF Memory, Level0
<1> QED BY <1>1, <1>2 DEF Advanced, Memory

LEMMA CompletedType ==
  ASSUME NEW m \in Memory, NEW level \in Levels
  PROVE  Completed(m, level) \in Memory
<1>1. m.loadedTasks \in Int /\ m.loadedTasks - 1 \in Int
  BY DEF Memory
<1> QED BY <1>1 DEF Completed, Memory

LEMMA NewReaderType == ASSUME NEW level \in Level0 PROVE NewReader(level) \in Memory
BY DEF NewReader, Memory

\* What a release of the lock and a merge leave behind.
LEMMA ReleaseType ==
  ASSUME TypeOK, NEW m \in Memory, Release(m)
  PROVE  tr' \in Memory /\ gc' \in Level0 /\ lateGC' \subseteq Levels
BY DEF TypeOK, Release, Memory

LEMMA MatcherType ==
  ASSUME TypeOK, NEW m \in Memory, CopiesBound(m), Matcher(m)
  PROVE  copies' \in [Levels -> 0..MaxCopies]
<1>1. PICK removed \in SUBSET {l \in tr.unacked \ m.unacked : copies[l] > 0} :
        copies' = [l \in Levels |-> IF l \in m.unacked \ tr.unacked THEN copies[l] + 1
                                    ELSE IF l \in removed THEN copies[l] - 1 ELSE copies[l]]
  BY DEF Matcher
<1>2. MaxCopies \in Nat
  BY BacklogConstants
<1>3. ASSUME NEW l \in Levels
      PROVE  (IF l \in m.unacked \ tr.unacked THEN copies[l] + 1
              ELSE IF l \in removed THEN copies[l] - 1 ELSE copies[l]) \in 0..MaxCopies
  BY <1>1, <1>2 DEF TypeOK, CopiesBound
<1> QED BY <1>1, <1>3

LEMMA MaybeReadType ==
  ASSUME TypeOK, NEW m, MaybeRead(m)
  PROVE  reader' \in [pc : {"idle", "check", "failed"}] \cup Get \cup MergeOf
BY DEF TypeOK, MaybeRead

LEMMA InitType == Init => TypeOK
<1> SUFFICES ASSUME Init PROVE TypeOK
  OBVIOUS
<1>1. MaxTasks \in Nat /\ MaxTakeOvers \in Nat /\ MaxCopies \in Nat
  BY BacklogConstants
<1>2. 0 \in Level0 /\ tr \in Memory
  BY NewReaderType DEF Init, Level0
<1>3. env \in Environments /\ reader \in [pc : {"idle", "check", "failed"}] /\ backoffTimer \in BOOLEAN
  BY DEF Init
<1>4. copies \in [Levels -> 0..MaxCopies] /\ takeOvers \in 0..MaxTakeOvers /\ lastTaskID \in 0..MaxTasks
  BY <1>1 DEF Init
<1> QED BY <1>2, <1>3, <1>4 DEF Init, TypeOK

LEMMA ReaderType == TypeOK /\ (ReaderStep \/ GetFairTasksFails \/ BackoffTimerFires) => TypeOK'
<1> SUFFICES ASSUME TypeOK, ReaderStep \/ GetFairTasksFails \/ BackoffTimerFires PROVE TypeOK'
  OBVIOUS
<1> USE DEF storeVars, gcVars, respoolVars, history, readVars
<1>1. CASE ReadNextBatch
  <2>1. tr.loadedTasks \in Int /\ tr.loadedTasks < GetTasksBatchSize /\ tr.readLevel \in Level0
    BY <1>1, BacklogConstants DEF TypeOK, Memory, ReadNextBatch, ShouldReadMore
  <2>2. reader' \in Get
    BY <1>1, <2>1, BacklogConstants DEF ReadNextBatch, Get
  <2> QED BY <1>1, <2>2 DEF TypeOK, ReadNextBatch
<1>2. CASE ReadDone
  <2> DEFINE m == [Merged(tr, tr.newlyWrittenTasks, "write") EXCEPT !.newlyWrittenTasks = {}]
             after == Advanced(m, writer.pc # "idle")
  <2>1. Merged(tr, tr.newlyWrittenTasks, "write") \in Memory
    BY MergedType DEF TypeOK, Memory
  <2>2. m \in Memory
    BY <2>1 DEF Memory
  <2>3. after \in Memory
    BY <2>2, AdvancedType
  <2>4. reader' \in [pc : {"idle", "check", "failed"}]
    BY <1>2 DEF ReadDone, NoRead
  <2>5. CASE tr.newlyWrittenTasks = {}
    BY <1>2, <2>4, <2>5 DEF TypeOK, ReadDone
  <2>6. CASE tr.newlyWrittenTasks # {}
    <3>1. CopiesBound(m) /\ Matcher(m) /\ Release(after)
      BY <1>2, <2>6 DEF ReadDone
    <3>2. tr' \in Memory /\ gc' \in Level0 /\ lateGC' \subseteq Levels
      BY <2>3, <3>1, ReleaseType
    <3>3. copies' \in [Levels -> 0..MaxCopies]
      BY <2>2, <3>1, MatcherType
    <3> QED BY <1>2, <2>4, <3>2, <3>3 DEF TypeOK, ReadDone
  <2> QED BY <2>5, <2>6
<1>3. CASE GetFairTasks
  <2> DEFINE tasks == Lowest({l \in store : reader.from < l}, reader.size)
  <2>1. tasks \in SUBSET Levels
    BY DEF TypeOK, Lowest
  <2>2. reader' \in MergeOf
    BY <1>3, <2>1 DEF GetFairTasks, MergeOf
  <2> QED BY <1>3, <2>2 DEF TypeOK, GetFairTasks
<1>4. CASE MergeRead
  <2> DEFINE m == Merged(tr, reader.tasks, reader.mode)
  <2>1. reader.tasks \in SUBSET Levels
    BY <1>4 DEF TypeOK, MergeRead, Get, MergeOf
  <2>2. m \in Memory
    BY <2>1, MergedType DEF TypeOK
  <2>3. CopiesBound(m) /\ Matcher(m) /\ Release(m)
    BY <1>4 DEF MergeRead
  <2>4. tr' \in Memory /\ gc' \in Level0 /\ lateGC' \subseteq Levels
    BY <2>2, <2>3, ReleaseType
  <2>5. copies' \in [Levels -> 0..MaxCopies]
    BY <2>2, <2>3, MatcherType
  <2> QED BY <1>4, <2>4, <2>5 DEF TypeOK, MergeRead
<1>5. CASE GetFairTasksFails
  BY <1>5 DEF TypeOK, GetFairTasksFails
<1>6. CASE BackoffTimerFires
  BY <1>6 DEF TypeOK, BackoffTimerFires
<1> QED BY <1>1, <1>2, <1>3, <1>4, <1>5, <1>6 DEF ReaderStep

LEMMA WriterType == TypeOK /\ (StartWrite \/ WriterStep) => TypeOK'
<1> SUFFICES ASSUME TypeOK, StartWrite \/ WriterStep PROVE TypeOK'
  OBVIOUS
<1> USE DEF storeVars, gcVars, respoolVars, history, readVars
<1>1. CASE StartWrite
  <2>1. PICK again \in SUBSET respooling, new \in 0..MaxTaskBatchSize :
          LET n == Cardinality(again) + new
              ids == lastTaskID + 1..lastTaskID + n
          IN  /\ n \in 1..MaxTaskBatchSize /\ lastTaskID + n <= MaxTasks
              /\ lastTaskID' = lastTaskID + n
              /\ \E pass \in PickPasses(Pass(tr.ackLevel), ids) :
                    writer' = [pc |-> "create", again |-> again, tasks |-> {Level(pass[id], id) : id \in ids}]
    BY <1>1 DEF StartWrite
  <2> DEFINE n == Cardinality(again) + new
             ids == lastTaskID + 1..lastTaskID + n
  <2>2. PICK pass \in PickPasses(Pass(tr.ackLevel), ids) :
          writer' = [pc |-> "create", again |-> again, tasks |-> {Level(pass[id], id) : id \in ids}]
    BY <2>1
  <2>3. n \in 1..MaxTaskBatchSize /\ lastTaskID + n <= MaxTasks /\ lastTaskID' = lastTaskID + n
    BY <2>1
  <2>4. MaxTasks \in Nat /\ lastTaskID \in Nat /\ MaxTaskBatchSize \in Nat
    BY BacklogConstants DEF TypeOK
  <2> HIDE DEF n
  <2>5. lastTaskID' \in 0..MaxTasks /\ ids \in SUBSET (1..MaxTasks)
    BY <2>3, <2>4
  <2>6. \A id \in ids : Level(pass[id], id) \in Levels
    <3>1. \A id \in ids : pass[id] \in env.passes /\ env \in Environments
      BY DEF PickPasses, TypeOK
    <3> HIDE DEF ids
    <3> QED BY <2>5, <3>1 DEF Levels
  <2>7. writer' \in Write
    <3> HIDE DEF ids
    <3> QED BY <2>2, <2>6 DEF Write, TypeOK
  <2> QED BY <1>1, <2>5, <2>7 DEF TypeOK, StartWrite
<1>2. CASE CreateFairTasks \/ CreateFairTasksFails
  <2>1. writer \in Write /\ store' \subseteq Levels /\ saved' \in Level0
    BY <1>2 DEF TypeOK, CreateFairTasks, CreateFairTasksFails, TasksCreated, NoWrite, Write, Memory
  <2>2. writer' \in Write
    BY <1>2, <2>1 DEF CreateFairTasks, CreateFairTasksFails, Write
  <2> QED BY <1>2, <2>1, <2>2 DEF TypeOK, CreateFairTasks, CreateFairTasksFails
<1>3. CASE WroteNewTasks
  <2> DEFINE m == Merged(tr, writer.tasks, "write")
  <2>1. writer \in Write
    BY <1>3 DEF TypeOK, WroteNewTasks, NoWrite
  <2>2. writer' \in Write
    BY <1>3, <2>1 DEF WroteNewTasks, Write
  <2>3. m \in Memory
    BY <2>1, MergedType DEF TypeOK, Write
  <2>4. CASE reader.pc # "idle"
    <3>1. tr' \in Memory
      BY <1>3, <2>1, <2>4 DEF TypeOK, WroteNewTasks, Memory, Write
    <3> QED BY <1>3, <2>2, <2>4, <3>1 DEF TypeOK, WroteNewTasks
  <2>5. CASE reader.pc = "idle"
    <3>1. CopiesBound(m) /\ Matcher(m) /\ Release(m)
      BY <1>3, <2>5 DEF WroteNewTasks
    <3>2. tr' \in Memory /\ gc' \in Level0 /\ lateGC' \subseteq Levels
      BY <2>3, <3>1, ReleaseType
    <3>3. copies' \in [Levels -> 0..MaxCopies]
      BY <2>3, <3>1, MatcherType
    <3> QED BY <1>3, <2>2, <3>2, <3>3 DEF TypeOK, WroteNewTasks
  <2> QED BY <2>4, <2>5
<1>4. CASE UnpinWritten
  <2>1. writer \in Write
    BY <1>4 DEF TypeOK, UnpinWritten, NoWrite
  <2>2. Advanced(tr, FALSE) \in Memory
    BY AdvancedType DEF TypeOK
  <2>3. tr' \in Memory /\ gc' \in Level0 /\ lateGC' \subseteq Levels
    BY <1>4, <2>2, ReleaseType DEF UnpinWritten
  <2> QED BY <1>4, <2>1, <2>3 DEF TypeOK, UnpinWritten, Write
<1>5. CASE UnpinFailed
  <2> DEFINE m == [tr EXCEPT !.atEnd = FALSE]
  <2>1. m \in Memory
    BY DEF TypeOK, Memory
  <2>2. Advanced(m, FALSE) \in Memory
    BY <2>1, AdvancedType
  <2>3. tr' \in Memory /\ gc' \in Level0 /\ lateGC' \subseteq Levels
    BY <1>5, <2>2, ReleaseType DEF UnpinFailed
  <2>4. reader' \in [pc : {"idle", "check", "failed"}] \cup Get \cup MergeOf
    BY <1>5, MaybeReadType DEF UnpinFailed
  <2> QED BY <1>5, <2>3, <2>4 DEF TypeOK, UnpinFailed
<1> QED BY <1>1, <1>2, <1>3, <1>4, <1>5 DEF WriterStep

LEMMA TaskType ==
  ASSUME TypeOK, NEW level \in Levels, CompleteTask(level) \/ RespoolTask(level) \/ CompleteRespooled(level)
  PROVE  TypeOK'
<1> USE DEF storeVars, gcVars, respoolVars, history, readVars
<1> DEFINE m == Advanced(Completed(tr, level), writer.pc # "idle")
<1>1. m \in Memory
  BY AdvancedType, CompletedType DEF TypeOK
<1>2. ASSUME copies[level] > 0, copies' = [copies EXCEPT ![level] = @ - 1]
      PROVE  copies' \in [Levels -> 0..MaxCopies]
  BY <1>2, BacklogConstants DEF TypeOK
<1>3. ASSUME Release(m), MaybeRead(m)
      PROVE  /\ tr' \in Memory /\ gc' \in Level0 /\ lateGC' \subseteq Levels
             /\ reader' \in [pc : {"idle", "check", "failed"}] \cup Get \cup MergeOf
  BY <1>1, <1>3, ReleaseType, MaybeReadType
<1>4. CASE CompleteTask(level)
  <2>1. CASE FoundUnacked(level)
    BY <1>2, <1>3, <1>4, <2>1 DEF TypeOK, CompleteTask
  <2>2. CASE ~FoundUnacked(level)
    BY <1>2, <1>4, <2>2 DEF TypeOK, CompleteTask
  <2> QED BY <2>1, <2>2
<1>5. CASE RespoolTask(level)
  BY <1>2, <1>5 DEF TypeOK, RespoolTask
<1>6. CASE CompleteRespooled(level)
  BY <1>3, <1>6 DEF TypeOK, CompleteRespooled
<1> QED BY <1>4, <1>5, <1>6

LEMMA OwnerType == TypeOK /\ (DoGC \/ LateGC \/ SyncState \/ TakeOver) => TypeOK'
<1> SUFFICES ASSUME TypeOK, DoGC \/ LateGC \/ SyncState \/ TakeOver PROVE TypeOK'
  OBVIOUS
<1> USE DEF storeVars, gcVars, respoolVars, history, readVars
<1>1. CASE DoGC \/ LateGC \/ SyncState
  BY <1>1 DEF TypeOK, DoGC, LateGC, SyncState, Level0, Memory
<1>2. CASE TakeOver
  <2>1. tr' \in Memory
    BY <1>2, NewReaderType DEF TypeOK, TakeOver
  <2>2. takeOvers' \in 0..MaxTakeOvers /\ copies' \in [Levels -> 0..MaxCopies]
    BY <1>2, BacklogConstants DEF TypeOK, TakeOver
  <2> QED BY <1>2, <2>1, <2>2 DEF TypeOK, TakeOver, Level0, NoWrite
<1> QED BY <1>1, <1>2

LEMMA NextType == TypeOK /\ [Next]_vars => TypeOK'
<1>1. TypeOK /\ UNCHANGED vars => TypeOK'
  BY DEF TypeOK, vars, storeVars, gcVars, respoolVars, history, readVars
<1> QED BY <1>1, ReaderType, WriterType, TaskType, OwnerType DEF Next

\* Every variable of the backlog keeps its type; a read always asks for a task at least.
THEOREM TypeCorrect == Spec => []TypeOK
BY InitType, NextType, PTL DEF Spec

-----------------------------------------------------------------------------
(* What the reader's memory promises                                       *)

\* The tasks and acks in memory lie between the two levels.
Between(m) ==
    /\ m.ackLevel <= m.readLevel
    /\ \A l \in m.unacked \cup m.acked : m.ackLevel < l /\ l <= m.readLevel
\* A task is in memory if the read level is not below it.
Reached(m, l) == l <= m.readLevel \/ m.atEnd

LEMMA LevelNumbers == Level0 \in SUBSET Nat /\ Levels \in SUBSET Level0 /\ 0 \in Level0
BY LevelsFinite DEF Level0

LEMMA MergedMemory ==
  ASSUME NEW m \in Memory, NEW tasks \in SUBSET Levels, NEW mode, Between(m)
  PROVE  LET after == Merged(m, tasks, mode)
         IN  /\ after.ackLevel = m.ackLevel /\ after.newlyWrittenTasks = m.newlyWrittenTasks
             /\ after.acked \subseteq m.acked /\ after.evictedAcks \subseteq m.evictedAcks \cup m.acked
             /\ after.unacked \subseteq m.unacked \cup tasks
             /\ Between(after)
<1> DEFINE new == Relevant(m, tasks, mode)
           merged == m.unacked \cup (new \ m.evictedAcks)
           kept == Lowest(merged, GetTasksBatchSize)
           top == Highest(kept, m.ackLevel)
           after == Merged(m, tasks, mode)
<1>1. new \in SUBSET tasks /\ merged \in SUBSET Levels /\ \A l \in new : m.ackLevel < l
  BY DEF Relevant, Memory
<1>2. kept \in SUBSET merged
  BY DEF Lowest
<1>3. /\ after.unacked = kept /\ after.readLevel = top /\ after.ackLevel = m.ackLevel
      /\ after.newlyWrittenTasks = m.newlyWrittenTasks
      /\ after.acked = m.acked \ {l \in m.acked : top < l}
      /\ after.evictedAcks = (m.evictedAcks \ new) \cup {l \in m.acked : top < l}
  BY DEF Merged, Memory
<1>4. m.ackLevel \in Nat /\ m.unacked \in SUBSET Levels /\ m.acked \in SUBSET Levels
  BY LevelNumbers DEF Memory
<1>5. top \in kept \cup {m.ackLevel} /\ \A l \in kept : l <= top
  <2> HIDE DEF kept
  <2> QED BY <1>1, <1>2, HighestElement
<1>6. \A l \in kept : m.ackLevel < l /\ l \in Nat
  BY <1>1, <1>2, LevelNumbers DEF Between
<1> HIDE DEF new, merged, kept, top, after
<1>7. m.ackLevel <= top /\ top \in Nat
  BY <1>4, <1>5, <1>6
<1>8. Between(after)
  <2>1. \A l \in after.unacked : m.ackLevel < l /\ l <= top
    BY <1>3, <1>5, <1>6
  <2>2. \A l \in after.acked : l \in Nat /\ m.ackLevel < l /\ ~(top < l)
    BY <1>3, <1>4, LevelNumbers DEF Between
  <2> QED BY <1>3, <1>7, <2>1, <2>2 DEF Between
<1>9. after.unacked \subseteq m.unacked \cup tasks
  BY <1>1, <1>2, <1>3 DEF merged
<1> QED BY <1>3, <1>8, <1>9 DEF after

\* What is known of a task that is not above all there is to read is kept, or the levels fall
\* back behind it.
LEMMA MergedKeeps ==
  ASSUME NEW m \in Memory, NEW tasks \in SUBSET Levels, NEW mode \in {"write", "middle", "end"}, Between(m),
         NEW l \in Levels, m.ackLevel < l, l \notin m.acked \cup m.evictedAcks,
         \/ l \in m.unacked
         \/ l \in tasks
         \/ mode = "write" /\ ~Reached(m, l)
         \/ mode = "middle" /\ m.readLevel < l /\ \A k \in tasks : k < l,
         Reached(Merged(m, tasks, mode), l)
  PROVE  l \in Merged(m, tasks, mode).unacked
<1> DEFINE new == Relevant(m, tasks, mode)
           merged == m.unacked \cup (new \ m.evictedAcks)
           kept == Lowest(merged, GetTasksBatchSize)
           top == Highest(kept, m.ackLevel)
           after == Merged(m, tasks, mode)
<1>1. new \in SUBSET tasks /\ merged \in SUBSET Levels
  BY DEF Relevant, Memory
<1>2. /\ after.unacked = kept /\ after.readLevel = top
      /\ after.atEnd => kept = merged /\ (mode = "end" \/ (mode = "write" /\ m.atEnd))
  BY DEF Merged, Memory
<1>3. /\ kept \in SUBSET merged
      /\ \A k \in kept, j \in merged : j < k => j \in kept
  <2>1. merged \in SUBSET Nat /\ IsFiniteSet(merged) /\ GetTasksBatchSize \in Nat
    BY <1>1, LevelsFinite, FS_Subset, BacklogConstants
  <2> HIDE DEF merged
  <2> QED BY <2>1, LowestElements
<1>4. top \in kept \cup {m.ackLevel} /\ \A k \in kept : k <= top
  <2> HIDE DEF kept
  <2> QED BY <1>1, <1>3, HighestElement
<1>5. l \in Nat /\ m.ackLevel \in Nat /\ m.readLevel \in Nat /\ merged \in SUBSET Nat
  BY <1>1, LevelNumbers DEF Memory
<1>6. l <= top \/ after.atEnd
  BY <1>2 DEF Reached
<1> HIDE DEF kept, top, after
<1>7. CASE l \in merged
  <2>1. CASE after.atEnd
    BY <1>2, <1>7, <2>1 DEF after
  <2>2. CASE l <= top
    <3>1. top \in kept
      BY <1>4, <1>5, <2>2
    <3>2. l = top \/ l < top
      BY <1>3, <1>5, <2>2, <3>1
    <3> QED BY <1>2, <1>3, <1>7, <3>1, <3>2 DEF after
  <2> QED BY <1>6, <2>1, <2>2
<1>8. CASE l \notin merged
  <2>1. l \notin m.unacked /\ l \notin new
    BY <1>8
  <2>2. CASE mode = "write" /\ ~Reached(m, l)
    <3>1. ~m.atEnd /\ m.readLevel < l
      BY <1>5, <2>2 DEF Reached
    <3>2. \A k \in merged : k <= m.readLevel
      BY <2>2, <3>1 DEF Relevant, Between
    <3>3. top <= m.readLevel
      BY <1>3, <1>4, <3>2 DEF Between
    <3>4. top \in Nat
      BY <1>3, <1>4, <1>5
    <3> QED BY <1>2, <1>5, <1>6, <2>2, <3>1, <3>3, <3>4
  <2>3. CASE l \in tasks /\ ~(mode = "write" /\ ~Reached(m, l))
    BY <2>1, <2>3 DEF Relevant, Reached
  <2>4. CASE mode = "middle" /\ m.readLevel < l /\ \A k \in tasks : k < l
    <3>1. \A k \in merged : k < l
      BY <1>1, <1>5, <2>4 DEF Between
    <3>2. top \in Nat /\ top < l
      BY <1>3, <1>4, <1>5, <3>1
    <3> QED BY <1>2, <1>5, <1>6, <2>4, <3>2
  <2> QED BY <2>1, <2>2, <2>3, <2>4
<1> QED BY <1>7, <1>8

LEMMA AdvancedMemory ==
  ASSUME NEW m \in Memory, NEW byWriter \in BOOLEAN, Between(m)
  PROVE  LET after == Advanced(m, byWriter)
         IN  /\ after.unacked = m.unacked /\ after.acked \subseteq m.acked
             /\ after.evictedAcks = m.evictedAcks /\ after.newlyWrittenTasks = m.newlyWrittenTasks
             /\ after.readLevel = m.readLevel /\ after.atEnd = m.atEnd
             /\ m.ackLevel <= after.ackLevel
             /\ \/ after.ackLevel = m.ackLevel
                \/ /\ ~byWriter /\ m.newlyWrittenTasks = {}
                   /\ after.ackLevel \in m.acked /\ \A l \in m.unacked : after.ackLevel < l
             /\ Between(after)
<1> DEFINE acks == {a \in m.acked : \A l \in m.unacked : a < l}
           top == Highest(acks, m.ackLevel)
           after == Advanced(m, byWriter)
<1>1. acks \in SUBSET Levels /\ m.acked \in SUBSET Levels
  BY DEF Memory
<1>2. top \in acks \cup {m.ackLevel} /\ \A l \in acks : l <= top
  <2> HIDE DEF acks
  <2> QED BY <1>1, HighestElement
<1>3. m.ackLevel \in Nat /\ acks \in SUBSET Nat /\ m.acked \in SUBSET Nat
  BY <1>1, LevelNumbers DEF Memory
<1>4. m.ackLevel <= top /\ top <= m.readLevel
  BY <1>2, <1>3 DEF Between
<1>5. CASE Pinned(m, byWriter)
  BY <1>3, <1>5 DEF Advanced
<1>6. CASE ~Pinned(m, byWriter)
  <2>1. after = [m EXCEPT !.ackLevel = top, !.acked = @ \ acks]
    BY <1>6 DEF Advanced
  <2>2. /\ after.unacked = m.unacked /\ after.acked = m.acked \ acks
        /\ after.evictedAcks = m.evictedAcks /\ after.newlyWrittenTasks = m.newlyWrittenTasks
        /\ after.readLevel = m.readLevel /\ after.atEnd = m.atEnd
        /\ after.ackLevel = top
    BY <2>1 DEF Memory
  <2>3. ~byWriter /\ m.newlyWrittenTasks = {}
    BY <1>6 DEF Pinned
  <2>4. top \in acks => \A l \in m.unacked : top < l
    OBVIOUS
  <2>5. \A l \in m.acked \ acks : top < l
    <3>1. ASSUME NEW l \in m.acked \ acks PROVE top < l
      <4>1. PICK u \in m.unacked : ~(l < u)
        BY <3>1
      <4>2. l \in Nat /\ u \in Nat /\ top \in Nat /\ m.ackLevel < l
        BY <1>2, <1>3, <3>1, LevelNumbers DEF Memory, Between
      <4>3. CASE top \in acks
        BY <2>4, <4>1, <4>2, <4>3
      <4>4. CASE top = m.ackLevel
        BY <4>2, <4>4
      <4> QED BY <1>2, <4>3, <4>4
    <3> QED BY <3>1
  <2>6. \A l \in m.unacked : top < l
    BY <1>2, <2>4 DEF Between
  <2> HIDE DEF acks, top, after
  <2>7. Between(after)
    BY <1>4, <2>2, <2>5, <2>6 DEF Between
  <2>8. top = m.ackLevel \/ top \in m.acked
    BY <1>2 DEF acks
  <2> QED BY <1>4, <2>2, <2>3, <2>6, <2>7, <2>8 DEF after
<1> QED BY <1>5, <1>6

\* A level that is owed stays above the ack level.
LEMMA AdvancedBelow ==
  ASSUME NEW m \in Memory, NEW byWriter \in BOOLEAN, Between(m),
         NEW l \in Levels, m.ackLevel < l,
         Reached(m, l) => l \in m.unacked \/ byWriter \/ m.newlyWrittenTasks # {}
  PROVE  Advanced(m, byWriter).ackLevel < l
<1> DEFINE after == Advanced(m, byWriter)
<1>1. l \in Nat /\ m.readLevel \in Nat /\ after \in Memory
  BY LevelNumbers, AdvancedType DEF Memory
<1>2. after.ackLevel \in Nat
  BY <1>1, LevelNumbers DEF Memory
<1>3. /\ after.readLevel = m.readLevel /\ after.ackLevel <= after.readLevel
      /\ \/ after.ackLevel = m.ackLevel
         \/ ~byWriter /\ m.newlyWrittenTasks = {} /\ \A u \in m.unacked : after.ackLevel < u
  BY AdvancedMemory DEF Between
<1> HIDE DEF after
<1>4. after.ackLevel < l
  <2>1. CASE after.ackLevel = m.ackLevel
    BY <2>1
  <2>2. CASE after.ackLevel # m.ackLevel
    BY <1>1, <1>2, <1>3, <2>2 DEF Reached
  <2> QED BY <2>1, <2>2
<1> QED BY <1>4 DEF after

-----------------------------------------------------------------------------
(* The invariant                                                           *)

\* Tasks that were written and have not been merged, and those that must not be lost.
Written == IF writer.pc = "wrote" THEN writer.tasks ELSE {}
Stored == IF writer.pc \in {"wrote", "unpin"} THEN writer.tasks ELSE {}
Owed == (confirmed \cup Stored) \ done

Issued(l) == l % (MaxTasks + 1) <= lastTaskID

FaultInv ==
    /\ lateGC = {} /\ respooling = {} /\ respooled = {}
    /\ writer # NoWrite => writer.again = {}
MemoryInv ==
    /\ Between(tr)
    /\ tr.acked \cup tr.evictedAcks \subseteq done
    /\ saved <= tr.ackLevel /\ gc <= tr.ackLevel
\* What a new task is above of.
IssuedInv ==
    /\ \A l \in store \cup tr.unacked \cup tr.acked \cup tr.newlyWrittenTasks \cup {tr.ackLevel, saved} : Issued(l)
    /\ writer # NoWrite => \A l \in writer.tasks : Issued(l)
    /\ reader.pc = "merge" => \A l \in reader.tasks : Issued(l)
WriteInv == writer.pc = "create" => \A l \in writer.tasks : tr.ackLevel < l
OwedInv ==
    \A l \in Owed :
        /\ l \in store /\ tr.ackLevel < l
        /\ Reached(tr, l) => l \in tr.unacked \cup tr.newlyWrittenTasks \cup Written
\* A read under way starts where the memory ends, and has what is owed next.
ReadInv ==
    /\ reader.pc = "get" => reader.from = tr.readLevel
    /\ reader.pc = "merge" =>
          \A l \in Owed \ (tr.newlyWrittenTasks \cup Written) : tr.readLevel < l =>
              l \in reader.tasks \/ (reader.mode = "middle" /\ \A k \in reader.tasks : k < l)

Safe == FaultInv /\ MemoryInv /\ IssuedInv /\ WriteInv /\ OwedInv /\ ReadInv
Inv == TypeOK /\ Safe

\* The faults under which the backlog is safe.
Tame == \A e \in Environments : e.faults \cap {"late", "respool"} = {}

LEMMA InitSafe == Init => Safe
<1> SUFFICES ASSUME Init PROVE Safe
  OBVIOUS
<1>1. MaxTasks \in Nat
  BY BacklogConstants
<1>2. 0 % (MaxTasks + 1) <= 0
  BY <1>1
<1>3. /\ tr.unacked = {} /\ tr.acked = {} /\ tr.newlyWrittenTasks = {} /\ tr.evictedAcks = {}
      /\ tr.ackLevel = 0 /\ tr.readLevel = 0
  BY DEF Init, NewReader
<1>4. Written = {} /\ Owed = {} /\ writer.pc = "idle" /\ writer = NoWrite
  BY DEF Init, Written, Owed, Stored, NoWrite
<1>5. FaultInv /\ WriteInv /\ OwedInv
  BY <1>4 DEF Init, FaultInv, WriteInv, OwedInv
<1>6. MemoryInv
  BY <1>3 DEF Init, MemoryInv, Between
<1>7. IssuedInv
  BY <1>2, <1>3, <1>4 DEF Init, IssuedInv, Issued
<1>8. ReadInv
  BY DEF Init, ReadInv
<1> QED BY <1>5, <1>6, <1>7, <1>8 DEF Safe

\* A step that leaves the memory, what is owed and what is written alone.
LEMMA QuietSafe ==
  ASSUME Inv, UNCHANGED <<tr, writer, saved, store, lastTaskID, confirmed, done, respoolVars>>,
         lateGC' = {}, gc' <= tr.ackLevel, ReadInv',
         reader'.pc = "merge" => \A l \in reader'.tasks : Issued(l)
  PROVE  Safe'
<1>1. Written' = Written /\ Owed' = Owed
  BY DEF Written, Owed, Stored
<1>2. FaultInv' /\ MemoryInv' /\ IssuedInv' /\ WriteInv'
  BY DEF Inv, Safe, FaultInv, MemoryInv, IssuedInv, WriteInv, Issued, respoolVars, Between
<1>3. OwedInv'
  BY <1>1 DEF Inv, Safe, OwedInv, Reached
<1> QED BY <1>2, <1>3 DEF Safe

LEMMA ReadSafe ==
  ASSUME Inv, ReadNextBatch \/ GetFairTasks \/ GetFairTasksFails \/ BackoffTimerFires
  PROVE  Safe'
<1> USE DEF storeVars, gcVars, history, readVars
<1>1. lateGC = {} /\ gc <= tr.ackLevel
  BY DEF Inv, Safe, FaultInv, MemoryInv
<1>2. ASSUME UNCHANGED <<tr, writer, confirmed, done>>
      PROVE  Written' = Written /\ Owed' = Owed
  BY <1>2 DEF Written, Owed, Stored
<1>3. CASE ReadNextBatch
  <2>1. ReadInv' /\ reader'.pc # "merge"
    BY <1>3 DEF ReadNextBatch, ReadInv
  <2> QED BY <1>1, <1>3, <2>1, QuietSafe DEF ReadNextBatch
<1>4. CASE GetFairTasks
  <2> DEFINE above == {l \in store : reader.from < l}
             tasks == Lowest(above, reader.size)
  <2>1. reader' = [pc |-> "merge", tasks |-> tasks,
                   mode |-> IF Cardinality(tasks) < reader.size THEN "end" ELSE "middle"]
    BY <1>4 DEF GetFairTasks
  <2>2. reader.from = tr.readLevel /\ reader.size \in Nat /\ store \in SUBSET Levels
    BY <1>4 DEF GetFairTasks, Inv, Safe, ReadInv, TypeOK, Get, MergeOf
  <2>3. /\ tasks \subseteq above
        /\ \A k \in tasks, l \in above : l < k => l \in tasks
        /\ Cardinality(tasks) < reader.size => tasks = above
    <3>1. above \in SUBSET Nat /\ IsFiniteSet(above)
      BY <2>2, LevelsFinite, FS_Subset
    <3> HIDE DEF above
    <3> QED BY <2>2, <3>1, LowestElements
  <2>4. ASSUME NEW l \in Owed, tr.readLevel < l
        PROVE  \/ l \in tasks
               \/ ~(Cardinality(tasks) < reader.size) /\ \A k \in tasks : k < l
    <3>1. l \in above
      BY <2>2, <2>4 DEF Inv, Safe, OwedInv
    <3>2. l \in Nat /\ \A k \in tasks : k \in Nat
      BY <2>2, <2>3, <3>1, LevelsFinite
    <3> HIDE DEF above, tasks
    <3>3. ASSUME l \notin tasks, NEW k \in tasks PROVE k < l
      <4>1. k # l /\ ~(l < k)
        BY <2>3, <3>1, <3>3
      <4> QED BY <3>2, <4>1
    <3> QED BY <2>3, <3>1, <3>3
  <2>5. UNCHANGED <<tr, writer, confirmed, done>>
    BY <1>4 DEF GetFairTasks
  <2> HIDE DEF tasks
  <2>6. ReadInv'
    BY <1>2, <2>1, <2>4, <2>5 DEF ReadInv
  <2>7. \A l \in tasks : Issued(l)
    BY <2>3 DEF Inv, Safe, IssuedInv
  <2> QED BY <1>1, <1>4, <2>1, <2>6, <2>7, QuietSafe DEF GetFairTasks
<1>5. CASE GetFairTasksFails \/ BackoffTimerFires
  <2>1. ReadInv' /\ (reader'.pc = "merge" => reader' = reader)
    BY <1>2, <1>5 DEF GetFairTasksFails, BackoffTimerFires, ReadInv, Inv, Safe
  <2>2. reader'.pc = "merge" => \A l \in reader'.tasks : Issued(l)
    BY <2>1 DEF Inv, Safe, IssuedInv
  <2> QED BY <1>1, <1>5, <2>1, <2>2, QuietSafe DEF GetFairTasksFails, BackoffTimerFires
<1> QED BY <1>3, <1>4, <1>5

\* The lock is released with the memory m, which has no new tasks but issued ones.
LEMMA ReleaseSafe ==
  ASSUME Inv, NEW m \in Memory, Release(m), Between(m), tr.ackLevel <= m.ackLevel,
         m.acked \cup m.evictedAcks \subseteq done',
         saved' = saved, store' = store, lastTaskID' = lastTaskID,
         \A l \in m.unacked \cup m.acked \cup m.newlyWrittenTasks \cup {m.ackLevel} : Issued(l)
  PROVE  /\ tr' = m /\ lateGC' = {}
         /\ MemoryInv'
         /\ \A l \in (store \cup tr.unacked \cup tr.acked \cup tr.newlyWrittenTasks \cup {tr.ackLevel, saved})' : Issued(l)'
<1>1. tr' = m /\ lateGC' = {} /\ gc' \in {0, m.ackLevel, gc}
  BY DEF Release, Inv, Safe, FaultInv
<1>2. m.ackLevel \in Nat /\ tr.ackLevel \in Nat /\ gc \in Nat /\ saved \in Nat
  BY LevelNumbers DEF Memory, Inv, TypeOK
<1>3. saved <= tr.ackLevel /\ gc <= tr.ackLevel
  BY DEF Inv, Safe, MemoryInv
<1>4. MemoryInv'
  BY <1>1, <1>2, <1>3 DEF MemoryInv, Between
<1>5. \A l \in store \cup {saved} : Issued(l)
  BY DEF Inv, Safe, IssuedInv
<1> QED BY <1>1, <1>4, <1>5 DEF Issued

\* The facts of the invariant that the steps below start from.
LEMMA InvFacts ==
  ASSUME Inv
  PROVE  /\ tr \in Memory /\ Between(tr)
         /\ Owed \in SUBSET Levels
         /\ tr.newlyWrittenTasks \in SUBSET Levels
         /\ \A l \in Owed : l \notin tr.acked \cup tr.evictedAcks /\ tr.ackLevel < l
         /\ \A l \in tr.unacked \cup tr.acked \cup tr.newlyWrittenTasks \cup {tr.ackLevel} : Issued(l)
         /\ tr.ackLevel \in Nat /\ tr.readLevel \in Nat
<1>1. tr \in Memory /\ Between(tr)
  BY DEF Inv, TypeOK, Safe, MemoryInv
<1>2. Owed \in SUBSET Levels
  BY DEF Inv, TypeOK, Owed, Stored, Write, NoWrite
<1>3. \A l \in Owed : l \notin tr.acked \cup tr.evictedAcks /\ tr.ackLevel < l
  BY DEF Inv, Safe, MemoryInv, OwedInv, Owed
<1> QED BY <1>1, <1>2, <1>3, LevelNumbers DEF Memory, Inv, Safe, IssuedInv

LEMMA MergeReadSafe ==
  ASSUME Inv, MergeRead
  PROVE  Safe' /\ tr.ackLevel <= tr'.ackLevel
<1> USE DEF storeVars, gcVars, history, readVars
<1> DEFINE m == Merged(tr, reader.tasks, reader.mode)
<1>1. reader.pc = "merge" /\ Release(m) /\ reader'.pc = "check"
      /\ UNCHANGED <<env, store, saved, lastTaskID, writer, respoolVars, confirmed, done>>
  BY DEF MergeRead
<1>2. reader.tasks \in SUBSET Levels /\ reader.mode \in {"middle", "end"}
  BY <1>1 DEF Inv, TypeOK, Get, MergeOf
<1>3. m \in Memory
  BY <1>2, InvFacts, MergedType
<1>4. /\ m.ackLevel = tr.ackLevel /\ m.newlyWrittenTasks = tr.newlyWrittenTasks
      /\ m.acked \subseteq tr.acked /\ m.evictedAcks \subseteq tr.evictedAcks \cup tr.acked
      /\ m.unacked \subseteq tr.unacked \cup reader.tasks
      /\ Between(m)
  BY <1>2, InvFacts, MergedMemory
<1>5. \A l \in reader.tasks : Issued(l)
  BY <1>1 DEF Inv, Safe, IssuedInv
<1>6. Written' = Written /\ Owed' = Owed
  BY <1>1 DEF Written, Owed, Stored
<1>7. ASSUME NEW l \in Owed, Reached(m, l)
      PROVE  l \in m.unacked \cup tr.newlyWrittenTasks \cup Written
  <2>1. CASE l \in tr.newlyWrittenTasks \cup Written
    BY <2>1
  <2>2. CASE l \notin tr.newlyWrittenTasks \cup Written
    <3>1. \/ l \in tr.unacked \/ l \in reader.tasks
          \/ reader.mode = "middle" /\ tr.readLevel < l /\ \A k \in reader.tasks : k < l
      <4>1. l \in Nat /\ tr.readLevel \in Nat
        BY InvFacts, LevelsFinite
      <4>2. l <= tr.readLevel => l \in tr.unacked
        BY <2>2 DEF Inv, Safe, OwedInv, Reached
      <4>3. tr.readLevel < l => l \in reader.tasks \/ (reader.mode = "middle" /\ \A k \in reader.tasks : k < l)
        BY <1>1, <2>2 DEF Inv, Safe, ReadInv
      <4> QED BY <4>1, <4>2, <4>3
    <3> QED BY <1>2, <1>7, <3>1, InvFacts, MergedKeeps
  <2> QED BY <2>1, <2>2
<1> HIDE DEF m
<1>8. tr' = m /\ lateGC' = {} /\ MemoryInv'
      /\ \A l \in (store \cup tr.unacked \cup tr.acked \cup tr.newlyWrittenTasks \cup {tr.ackLevel, saved})' : Issued(l)'
  <2>1. tr.ackLevel <= m.ackLevel
    BY <1>4, InvFacts
  <2>2. m.acked \cup m.evictedAcks \subseteq done'
    BY <1>1, <1>4 DEF Inv, Safe, MemoryInv
  <2>3. \A l \in m.unacked \cup m.acked \cup m.newlyWrittenTasks \cup {m.ackLevel} : Issued(l)
    BY <1>4, <1>5, InvFacts
  <2>4. saved' = saved /\ store' = store /\ lastTaskID' = lastTaskID
    BY <1>1
  <2> QED BY <1>1, <1>3, <1>4, <2>1, <2>2, <2>3, <2>4, ReleaseSafe
<1>9. FaultInv' /\ IssuedInv' /\ WriteInv' /\ ReadInv'
  BY <1>1, <1>4, <1>8 DEF Inv, Safe, FaultInv, IssuedInv, WriteInv, ReadInv, Issued, respoolVars
<1>10. OwedInv'
  BY <1>1, <1>4, <1>6, <1>7, <1>8 DEF OwedInv, Inv, Safe
<1> QED BY <1>4, <1>8, <1>9, <1>10, InvFacts DEF Safe

LEMMA ReadDoneSafe ==
  ASSUME Inv, ReadDone
  PROVE  Safe' /\ tr.ackLevel <= tr'.ackLevel
<1> USE DEF storeVars, gcVars, history, readVars
<1> DEFINE merged == Merged(tr, tr.newlyWrittenTasks, "write")
           m == [merged EXCEPT !.newlyWrittenTasks = {}]
           busy == writer.pc # "idle"
           after == Advanced(m, busy)
<1>1. reader' = NoRead /\ UNCHANGED <<env, store, saved, lastTaskID, writer, respoolVars, confirmed, done>>
  BY DEF ReadDone
<1>2. Written' = Written /\ Owed' = Owed /\ ReadInv' /\ reader'.pc # "merge"
  BY <1>1 DEF Written, Owed, Stored, ReadInv, NoRead
<1>3. CASE tr.newlyWrittenTasks = {}
  <2>1. UNCHANGED <<tr, gc, lateGC>>
    BY <1>3 DEF ReadDone
  <2>2. lateGC' = {} /\ gc' <= tr.ackLevel
    BY <2>1 DEF Inv, Safe, FaultInv, MemoryInv
  <2> QED BY <1>1, <1>2, <2>1, <2>2, QuietSafe, InvFacts
<1>4. CASE tr.newlyWrittenTasks # {}
  <2>1. Release(after)
    BY <1>4 DEF ReadDone
  <2>2. merged \in Memory /\ m \in Memory /\ after \in Memory /\ busy \in BOOLEAN
    <3>1. merged \in Memory
      BY InvFacts, MergedType
    <3>2. m \in Memory
      BY <3>1 DEF Memory
    <3> QED BY <3>1, <3>2, AdvancedType
  <2>3. /\ merged.ackLevel = tr.ackLevel /\ merged.acked \subseteq tr.acked
        /\ merged.evictedAcks \subseteq tr.evictedAcks \cup tr.acked
        /\ merged.unacked \subseteq tr.unacked \cup tr.newlyWrittenTasks
        /\ Between(merged)
    BY InvFacts, MergedMemory
  <2>4. ASSUME NEW l \in Owed \ Written, Reached(merged, l)
        PROVE  l \in merged.unacked
    <3>1. l \in tr.unacked \/ l \in tr.newlyWrittenTasks \/ ~Reached(tr, l)
      BY <2>4 DEF Inv, Safe, OwedInv
    <3> QED BY <2>4, <3>1, InvFacts, MergedKeeps
  <2> HIDE DEF merged
  <2>5. /\ m.ackLevel = tr.ackLevel /\ m.acked = merged.acked /\ m.evictedAcks = merged.evictedAcks
        /\ m.unacked = merged.unacked /\ m.readLevel = merged.readLevel /\ m.atEnd = merged.atEnd
        /\ m.newlyWrittenTasks = {}
    BY <2>2, <2>3 DEF Memory
  <2>6. Between(m) /\ \A l : Reached(m, l) => Reached(merged, l)
    BY <2>3, <2>5 DEF Between, Reached
  <2>7. ASSUME NEW l \in Owed
        PROVE  after.ackLevel < l
    <3>1. Reached(m, l) => l \in m.unacked \/ busy
      BY <2>4, <2>5, <2>6 DEF Written
    <3> HIDE DEF m, busy
    <3> QED BY <2>2, <2>5, <2>6, <3>1, InvFacts, AdvancedBelow
  <2> HIDE DEF m
  <2>8. /\ after.unacked = m.unacked /\ after.acked \subseteq m.acked
        /\ after.evictedAcks = m.evictedAcks /\ after.newlyWrittenTasks = {}
        /\ after.readLevel = m.readLevel /\ after.atEnd = m.atEnd
        /\ m.ackLevel <= after.ackLevel
        /\ after.ackLevel = m.ackLevel \/ (~busy /\ after.ackLevel \in m.acked)
        /\ Between(after)
    <3> HIDE DEF busy
    <3> QED BY <2>2, <2>5, <2>6, AdvancedMemory
  <2> HIDE DEF after
  <2>9. tr' = after /\ lateGC' = {} /\ MemoryInv'
        /\ \A l \in (store \cup tr.unacked \cup tr.acked \cup tr.newlyWrittenTasks \cup {tr.ackLevel, saved})' : Issued(l)'
    <3>1. after.acked \cup after.evictedAcks \subseteq done'
      BY <1>1, <2>3, <2>5, <2>8 DEF Inv, Safe, MemoryInv
    <3>2. \A l \in after.unacked \cup after.acked \cup after.newlyWrittenTasks \cup {after.ackLevel} : Issued(l)
      BY <2>3, <2>5, <2>8, InvFacts
    <3>3. tr.ackLevel <= after.ackLevel
      BY <2>5, <2>8
    <3> QED BY <1>1, <2>1, <2>2, <2>8, <3>1, <3>2, <3>3, ReleaseSafe
  <2>10. FaultInv' /\ IssuedInv'
    BY <1>1, <1>2, <2>9 DEF Inv, Safe, FaultInv, IssuedInv, Issued, respoolVars
  <2>11. WriteInv'
    BY <1>1, <2>5, <2>8, <2>9 DEF Inv, Safe, WriteInv, busy
  <2>12. OwedInv'
    <3>1. ASSUME NEW l \in Owed PROVE Reached(after, l) => l \in after.unacked \cup Written
      BY <2>4, <2>5, <2>6, <2>8 DEF Reached
    <3> QED BY <1>1, <1>2, <2>7, <2>9, <3>1 DEF OwedInv, Inv, Safe
  <2> QED BY <1>2, <2>5, <2>8, <2>9, <2>10, <2>11, <2>12 DEF Safe
<1> QED BY <1>3, <1>4

LEMMA LevelTaskID ==
  ASSUME NEW p \in Nat, NEW id \in Nat, id <= MaxTasks
  PROVE  Level(p, id) % (MaxTasks + 1) = id
<1>1. ASSUME NEW n \in Nat, id < n PROVE (p * n + id) % n = id
  BY <1>1
<1>2. MaxTasks + 1 \in Nat /\ id < MaxTasks + 1
  BY BacklogConstants
<1> QED BY <1>1, <1>2 DEF Level

\* Levels of one pass or a higher one are in the order of task IDs.
LEMMA LevelAbove ==
  ASSUME NEW below \in Nat, NEW p \in Nat, NEW id \in Nat,
         Pass(below) <= p, below % (MaxTasks + 1) < id, id <= MaxTasks
  PROVE  below < Level(p, id)
<1> DEFINE n == MaxTasks + 1
           q == below \div n
           r == below % n
<1>1. n \in Nat /\ n > 0
  BY BacklogConstants
<1>2. q \in Nat /\ r \in Nat /\ below = q * n + r
  <2> HIDE DEF n
  <2> QED BY <1>1
<1>3. q <= p /\ r < id
  BY DEF Pass
<1>4. Level(p, id) = p * n + id
  BY DEF Level
<1> HIDE DEF n, q, r
<1>5. q * n <= p * n /\ q * n \in Nat /\ p * n \in Nat
  BY <1>1, <1>2, <1>3
<1> QED BY <1>2, <1>3, <1>4, <1>5

LEMMA StartWriteSafe ==
  ASSUME Inv, StartWrite
  PROVE  Safe' /\ tr.ackLevel <= tr'.ackLevel
<1> USE DEF storeVars, gcVars, history, readVars
<1>1. /\ writer.pc = "idle"
      /\ UNCHANGED <<env, store, saved, tr, reader, gc, lateGC, respoolVars, confirmed, done>>
  BY DEF StartWrite
<1>2. PICK again \in SUBSET respooling, new \in 0..MaxTaskBatchSize :
        LET n == Cardinality(again) + new
            ids == lastTaskID + 1..lastTaskID + n
        IN  /\ n \in 1..MaxTaskBatchSize /\ lastTaskID + n <= MaxTasks
            /\ lastTaskID' = lastTaskID + n
            /\ \E pass \in PickPasses(Pass(tr.ackLevel), ids) :
                  writer' = [pc |-> "create", again |-> again, tasks |-> {Level(pass[id], id) : id \in ids}]
  BY DEF StartWrite
<1> DEFINE n == Cardinality(again) + new
           ids == lastTaskID + 1..lastTaskID + n
<1>3. PICK pass \in PickPasses(Pass(tr.ackLevel), ids) :
        writer' = [pc |-> "create", again |-> again, tasks |-> {Level(pass[id], id) : id \in ids}]
  BY <1>2
<1>4. n \in 1..MaxTaskBatchSize /\ lastTaskID + n <= MaxTasks /\ lastTaskID' = lastTaskID + n
  BY <1>2
<1>5. MaxTasks \in Nat /\ lastTaskID \in Nat /\ MaxTaskBatchSize \in Nat
  BY BacklogConstants DEF Inv, TypeOK
<1>6. again = {}
  BY DEF Inv, Safe, FaultInv
<1>7. \A id \in ids : pass[id] \in Nat /\ Pass(tr.ackLevel) <= pass[id]
  <2>1. \A id \in ids : pass[id] \in env.passes /\ pass[id] >= Pass(tr.ackLevel)
    BY DEF PickPasses
  <2>2. env.passes \in SUBSET Nat
    BY BacklogConstants DEF Inv, TypeOK
  <2>3. Pass(tr.ackLevel) \in Int
    BY <1>5, InvFacts DEF Pass
  <2> HIDE DEF ids
  <2> QED BY <2>1, <2>2, <2>3
<1> HIDE DEF n
<1>8. \A id \in ids : id \in Nat /\ lastTaskID < id /\ id <= lastTaskID' /\ id <= MaxTasks
  BY <1>4, <1>5
<1> HIDE DEF ids
<1>9. tr.ackLevel % (MaxTasks + 1) <= lastTaskID /\ tr.ackLevel % (MaxTasks + 1) \in Nat
  BY <1>5, InvFacts DEF Issued
<1>10. \A id \in ids : tr.ackLevel < Level(pass[id], id) /\ Level(pass[id], id) % (MaxTasks + 1) = id
  <2> TAKE id \in ids
  <2>1. pass[id] \in Nat /\ Pass(tr.ackLevel) <= pass[id] /\ id \in Nat /\ id <= MaxTasks
    BY <1>7, <1>8
  <2>2. tr.ackLevel % (MaxTasks + 1) < id /\ tr.ackLevel \in Nat
    BY <1>5, <1>8, <1>9, InvFacts
  <2> QED BY <2>1, <2>2, LevelAbove, LevelTaskID
<1>11. \A l \in writer'.tasks : tr.ackLevel < l /\ l % (MaxTasks + 1) <= lastTaskID'
  BY <1>3, <1>8, <1>10
<1>12. WriteInv'
  BY <1>1, <1>11 DEF WriteInv
<1>13. \A l \in Levels \cup {tr.ackLevel, saved} : Issued(l) => l % (MaxTasks + 1) <= lastTaskID'
  <2>1. \A l \in Levels \cup {tr.ackLevel, saved} : l % (MaxTasks + 1) \in Int
    BY <1>5, LevelNumbers DEF Inv, TypeOK, Memory
  <2>2. lastTaskID <= lastTaskID' /\ lastTaskID' \in Int
    BY <1>4, <1>5
  <2> QED BY <1>5, <2>1, <2>2 DEF Issued
<1>14. IssuedInv'
  <2>1. \A l \in store \cup tr.unacked \cup tr.acked \cup tr.newlyWrittenTasks \cup {tr.ackLevel, saved} :
          Issued(l) /\ l \in Levels \cup {tr.ackLevel, saved}
    BY DEF Inv, TypeOK, Memory, Safe, IssuedInv
  <2>2. reader.pc = "merge" => \A l \in reader.tasks : Issued(l) /\ l \in Levels
    BY DEF Inv, TypeOK, Safe, IssuedInv, Get, MergeOf
  <2> QED BY <1>1, <1>11, <1>13, <2>1, <2>2 DEF IssuedInv, Issued
<1>15. Written' = Written /\ Owed' = Owed
  BY <1>1, <1>3 DEF Written, Owed, Stored
<1>16. FaultInv' /\ MemoryInv'
  BY <1>1, <1>3, <1>6 DEF Inv, Safe, FaultInv, MemoryInv, Between, respoolVars
<1>17. OwedInv' /\ ReadInv'
  BY <1>1, <1>15 DEF Inv, Safe, OwedInv, ReadInv, Reached
<1> QED BY <1>1, <1>12, <1>14, <1>16, <1>17, InvFacts DEF Safe

LEMMA CreateSafe ==
  ASSUME Inv, CreateFairTasks \/ CreateFairTasksFails
  PROVE  Safe' /\ tr.ackLevel <= tr'.ackLevel /\ saved <= saved'
<1> USE DEF storeVars, gcVars, history, readVars
<1>1. /\ writer.pc = "create" /\ writer' = [writer EXCEPT !.pc = writer'.pc]
      /\ writer'.pc \in {"wrote", "failed"}
      /\ UNCHANGED <<env, lastTaskID, tr, reader, gc, lateGC, respoolVars, confirmed, done>>
      /\ store \subseteq store' /\ store' \subseteq store \cup writer.tasks /\ saved' \in {saved, tr.ackLevel}
      /\ writer'.pc = "wrote" => store' = store \cup writer.tasks
  <2>1. CASE CreateFairTasks
    BY <2>1 DEF CreateFairTasks, TasksCreated, Inv, TypeOK, NoWrite, Write
  <2>2. CASE CreateFairTasksFails
    BY <2>2 DEF CreateFairTasksFails, TasksCreated, Inv, TypeOK, NoWrite, Write
  <2> QED BY <2>1, <2>2
<1>2. writer \in Write
  BY <1>1 DEF Inv, TypeOK, NoWrite
<1>3. writer'.tasks = writer.tasks /\ writer'.again = writer.again /\ writer # NoWrite
  BY <1>1, <1>2 DEF Write, NoWrite
<1>4. /\ Written = {}
      /\ Owed' \subseteq Owed \cup Written' /\ Owed \subseteq Owed'
      /\ Written' \subseteq writer.tasks /\ (Written' # {} => store' = store \cup writer.tasks)
  BY <1>1, <1>3 DEF Written, Owed, Stored
<1>5. FaultInv' /\ WriteInv'
  BY <1>1, <1>3 DEF Inv, Safe, FaultInv, WriteInv, respoolVars
<1>6. saved \in Nat /\ saved <= saved' /\ saved' <= tr.ackLevel
  BY <1>1, LevelNumbers, InvFacts DEF Inv, Safe, MemoryInv, TypeOK
<1>7. MemoryInv'
  BY <1>1, <1>6 DEF Inv, Safe, MemoryInv, Between
<1>8. IssuedInv'
  BY <1>1, <1>3 DEF Inv, Safe, IssuedInv, Issued
<1>9. OwedInv'
  <2>1. ASSUME NEW l \in Owed'
        PROVE  /\ l \in store' /\ tr.ackLevel < l
               /\ Reached(tr, l) => l \in tr.unacked \cup tr.newlyWrittenTasks \cup Written'
    <3>1. CASE l \in Owed
      BY <1>1, <1>4, <3>1 DEF Inv, Safe, OwedInv
    <3>2. CASE l \in Written'
      BY <1>1, <1>4, <3>2 DEF Inv, Safe, WriteInv
    <3> QED BY <1>4, <2>1, <3>1, <3>2
  <2> QED BY <1>1, <2>1 DEF OwedInv, Reached
<1>10. ReadInv'
  BY <1>1, <1>4 DEF Inv, Safe, ReadInv
<1> QED BY <1>1, <1>5, <1>6, <1>7, <1>8, <1>9, <1>10, InvFacts DEF Safe

LEMMA WroteSafe ==
  ASSUME Inv, WroteNewTasks
  PROVE  Safe' /\ tr.ackLevel <= tr'.ackLevel
<1> USE DEF storeVars, gcVars, history, readVars
<1> DEFINE m == Merged(tr, writer.tasks, "write")
<1>1. /\ writer.pc = "wrote" /\ writer' = [writer EXCEPT !.pc = "unpin"]
      /\ UNCHANGED <<env, store, saved, lastTaskID, reader, respoolVars, confirmed, done>>
  BY DEF WroteNewTasks
<1>2. writer \in Write /\ writer # NoWrite
  BY <1>1 DEF Inv, TypeOK, NoWrite
<1>3. writer'.pc = "unpin" /\ writer'.tasks = writer.tasks /\ writer'.again = writer.again
  BY <1>1, <1>2 DEF Write
<1>4. Written = writer.tasks /\ Written' = {} /\ Owed' = Owed
  BY <1>1, <1>3 DEF Written, Owed, Stored
<1>5. lateGC' = {} => FaultInv'
  BY <1>1, <1>2, <1>3 DEF Inv, Safe, FaultInv, respoolVars
<1>6. WriteInv'
  BY <1>3 DEF WriteInv
<1>7. \A l \in writer.tasks : Issued(l)
  BY <1>2 DEF Inv, Safe, IssuedInv
<1>8. CASE reader.pc # "idle"
  <2>1. tr' = [tr EXCEPT !.newlyWrittenTasks = @ \cup writer.tasks] /\ UNCHANGED <<gc, lateGC>>
    BY <1>8 DEF WroteNewTasks
  <2>2. /\ tr'.unacked = tr.unacked /\ tr'.acked = tr.acked /\ tr'.ackLevel = tr.ackLevel
        /\ tr'.evictedAcks = tr.evictedAcks /\ tr'.readLevel = tr.readLevel /\ tr'.atEnd = tr.atEnd
        /\ tr'.newlyWrittenTasks = tr.newlyWrittenTasks \cup writer.tasks
    BY <2>1, InvFacts DEF Memory
  <2>3. FaultInv' /\ MemoryInv'
    BY <1>1, <1>5, <2>1, <2>2 DEF Inv, Safe, FaultInv, MemoryInv, Between
  <2>4. IssuedInv'
    BY <1>1, <1>2, <1>3, <1>7, <2>2 DEF Inv, Safe, IssuedInv, Issued
  <2>5. OwedInv' /\ ReadInv'
    BY <1>1, <1>4, <2>2 DEF Inv, Safe, OwedInv, ReadInv, Reached
  <2> QED BY <1>6, <2>2, <2>3, <2>4, <2>5, InvFacts DEF Safe
<1>9. CASE reader.pc = "idle"
  <2>1. Release(m) /\ writer.tasks \in SUBSET Levels
    BY <1>2, <1>9 DEF WroteNewTasks, Write
  <2>2. m \in Memory
    BY <2>1, InvFacts, MergedType
  <2>3. /\ m.ackLevel = tr.ackLevel /\ m.newlyWrittenTasks = tr.newlyWrittenTasks
        /\ m.acked \subseteq tr.acked /\ m.evictedAcks \subseteq tr.evictedAcks \cup tr.acked
        /\ m.unacked \subseteq tr.unacked \cup writer.tasks
        /\ Between(m)
    BY <2>1, InvFacts, MergedMemory
  <2>4. ASSUME NEW l \in Owed, Reached(m, l), l \notin tr.newlyWrittenTasks
        PROVE  l \in m.unacked
    <3>1. l \in tr.unacked \/ l \in writer.tasks \/ ~Reached(tr, l)
      BY <1>4, <2>4 DEF Inv, Safe, OwedInv
    <3> QED BY <2>1, <2>4, <3>1, InvFacts, MergedKeeps
  <2> HIDE DEF m
  <2>5. tr' = m /\ lateGC' = {} /\ MemoryInv'
        /\ \A l \in (store \cup tr.unacked \cup tr.acked \cup tr.newlyWrittenTasks \cup {tr.ackLevel, saved})' : Issued(l)'
    <3>1. m.acked \cup m.evictedAcks \subseteq done'
      BY <1>1, <2>3 DEF Inv, Safe, MemoryInv
    <3>2. \A l \in m.unacked \cup m.acked \cup m.newlyWrittenTasks \cup {m.ackLevel} : Issued(l)
      BY <1>7, <2>3, InvFacts
    <3>3. tr.ackLevel <= m.ackLevel /\ saved' = saved /\ store' = store /\ lastTaskID' = lastTaskID
      BY <1>1, <2>3, InvFacts
    <3> QED BY <2>1, <2>2, <2>3, <3>1, <3>2, <3>3, ReleaseSafe
  <2>6. IssuedInv' /\ ReadInv'
    BY <1>1, <1>2, <1>3, <1>7, <1>9, <2>5 DEF IssuedInv, Issued, ReadInv
  <2>7. OwedInv'
    BY <1>1, <1>4, <2>3, <2>4, <2>5 DEF OwedInv, Inv, Safe
  <2> QED BY <1>5, <1>6, <2>3, <2>5, <2>6, <2>7, InvFacts DEF Safe
<1> QED BY <1>8, <1>9

\* The ack level is advanced by a step that takes nothing owed out of memory.
LEMMA AdvanceSafe ==
  ASSUME Inv, NEW m \in Memory, NEW busy \in BOOLEAN,
         Between(m), m.ackLevel = tr.ackLevel, m.readLevel = tr.readLevel, m.atEnd => tr.atEnd,
         m.newlyWrittenTasks = tr.newlyWrittenTasks, m.evictedAcks = tr.evictedAcks,
         m.unacked \subseteq tr.unacked, m.acked \subseteq tr.acked \cup tr.unacked,
         m.acked \cup m.evictedAcks \subseteq done',
         Release(Advanced(m, busy)), UNCHANGED <<store, saved, lastTaskID>>,
         reader' = reader \/ reader'.pc = "check",
         Owed' \subseteq Owed, \A l \in Owed' : l \in tr.unacked => l \in m.unacked,
         Written' = Written, Written # {} => busy,
         lateGC' = {} => FaultInv',
         writer' # NoWrite => writer' = writer /\ busy
  PROVE  Safe' /\ tr.ackLevel <= tr'.ackLevel
<1> DEFINE after == Advanced(m, busy)
<1>1. /\ after.unacked = m.unacked /\ after.acked \subseteq m.acked
      /\ after.evictedAcks = m.evictedAcks /\ after.newlyWrittenTasks = m.newlyWrittenTasks
      /\ after.readLevel = m.readLevel /\ after.atEnd = m.atEnd
      /\ m.ackLevel <= after.ackLevel
      /\ after.ackLevel = m.ackLevel \/ (~busy /\ after.ackLevel \in m.acked)
      /\ Between(after)
  BY AdvancedMemory
<1>2. ASSUME NEW l \in Owed'
      PROVE  /\ after.ackLevel < l
             /\ Reached(m, l) => l \in m.unacked \cup tr.newlyWrittenTasks \cup Written
  <2>1. Reached(m, l) => l \in m.unacked \cup tr.newlyWrittenTasks \cup Written
    BY DEF Inv, Safe, OwedInv, Reached
  <2>2. l \in Levels /\ m.ackLevel < l
    BY InvFacts
  <2> QED BY <2>1, <2>2, AdvancedBelow
<1>3. after \in Memory
  BY AdvancedType
<1> HIDE DEF after
<1>4. tr' = after /\ lateGC' = {} /\ MemoryInv'
      /\ \A l \in (store \cup tr.unacked \cup tr.acked \cup tr.newlyWrittenTasks \cup {tr.ackLevel, saved})' : Issued(l)'
  <2>1. after.acked \cup after.evictedAcks \subseteq done'
    BY <1>1
  <2>2. \A l \in after.unacked \cup after.acked \cup after.newlyWrittenTasks \cup {after.ackLevel} : Issued(l)
    BY <1>1, InvFacts
  <2>3. Release(after) /\ tr.ackLevel <= after.ackLevel
    BY <1>1 DEF after
  <2> QED BY <1>1, <1>3, <2>1, <2>2, <2>3, ReleaseSafe
<1>5. IssuedInv'
  BY <1>4 DEF Inv, Safe, IssuedInv, Issued
<1>6. WriteInv'
  <2>1. writer'.pc = "create" => writer' = writer /\ busy
    BY DEF NoWrite
  <2> QED BY <1>1, <1>4, <2>1 DEF Inv, Safe, WriteInv
<1>7. OwedInv'
  <2>1. ASSUME NEW l \in Owed' PROVE Reached(after, l) => l \in after.unacked \cup after.newlyWrittenTasks \cup Written
    BY <1>1, <1>2 DEF Reached
  <2> QED BY <1>2, <1>4, <2>1 DEF OwedInv, Inv, Safe
<1>8. ReadInv'
  BY <1>1, <1>4 DEF ReadInv, Inv, Safe
<1> QED BY <1>1, <1>4, <1>5, <1>6, <1>7, <1>8 DEF Safe

LEMMA UnpinSafe ==
  ASSUME Inv, UnpinWritten \/ UnpinFailed
  PROVE  Safe' /\ tr.ackLevel <= tr'.ackLevel
<1> USE DEF storeVars, gcVars, history, readVars
<1>1. writer.pc \in {"unpin", "failed"} /\ writer' = NoWrite /\ UNCHANGED <<store, saved, lastTaskID>>
  BY DEF UnpinWritten, UnpinFailed
<1>2. writer \in Write /\ writer # NoWrite
  BY <1>1 DEF Inv, TypeOK, NoWrite
<1>3. Written = {} /\ Written' = {}
  BY <1>1 DEF Written, NoWrite
<1>4. tr.acked \cup tr.evictedAcks \subseteq done
  BY DEF Inv, Safe, MemoryInv
<1>5. CASE UnpinWritten
  <2>1. writer.again = {} /\ writer.pc = "unpin"
    BY <1>2, <1>5 DEF Inv, Safe, FaultInv, UnpinWritten
  <2>2. /\ confirmed' = confirmed \cup writer.tasks /\ done' = done /\ respooling' = {} /\ respooled' = {}
        /\ reader' = reader /\ Release(Advanced(tr, FALSE))
    BY <1>5, <2>1 DEF UnpinWritten, Inv, Safe, FaultInv
  <2>3. Owed' = Owed
    BY <1>1, <2>1, <2>2 DEF Owed, Stored, NoWrite
  <2>4. lateGC' = {} => FaultInv'
    BY <1>1, <2>2 DEF FaultInv
  <2> QED BY <1>1, <1>3, <1>4, <2>2, <2>3, <2>4, InvFacts, AdvanceSafe
<1>6. CASE UnpinFailed
  <2> DEFINE m == [tr EXCEPT !.atEnd = FALSE]
  <2>1. /\ m \in Memory /\ m.unacked = tr.unacked /\ m.acked = tr.acked /\ m.ackLevel = tr.ackLevel
        /\ m.readLevel = tr.readLevel /\ m.newlyWrittenTasks = tr.newlyWrittenTasks
        /\ m.evictedAcks = tr.evictedAcks /\ ~m.atEnd
    BY InvFacts DEF Memory
  <2>2. /\ Release(Advanced(m, FALSE)) /\ MaybeRead(m)
        /\ writer.pc = "failed" /\ UNCHANGED <<respoolVars, confirmed, done>>
    BY <1>6 DEF UnpinFailed
  <2> HIDE DEF m
  <2>3. reader' = reader \/ reader'.pc = "check"
    BY <2>2 DEF MaybeRead
  <2>4. Owed' = Owed
    BY <1>1, <2>2 DEF Owed, Stored, NoWrite
  <2>5. lateGC' = {} => FaultInv'
    BY <1>1, <2>2 DEF FaultInv, Inv, Safe, respoolVars
  <2>6. Between(m)
    BY <2>1, InvFacts DEF Between
  <2> QED BY <1>1, <1>3, <1>4, <2>1, <2>2, <2>3, <2>4, <2>5, <2>6, InvFacts, AdvanceSafe
<1> QED BY <1>5, <1>6

LEMMA CompleteSafe ==
  ASSUME Inv, NEW level \in Levels, CompleteTask(level)
  PROVE  Safe' /\ tr.ackLevel <= tr'.ackLevel
<1> USE DEF storeVars, gcVars, history, readVars
<1> DEFINE m == Completed(tr, level)
           busy == writer.pc # "idle"
<1>1. done' = done \cup {level} /\ UNCHANGED <<store, saved, lastTaskID, writer, respoolVars, confirmed>>
  BY DEF CompleteTask
<1>2. Written' = Written /\ Owed' = Owed \ {level}
  BY <1>1 DEF Written, Owed, Stored
<1>3. tr.acked \cup tr.evictedAcks \subseteq done
  BY DEF Inv, Safe, MemoryInv
<1>4. lateGC' = {} => FaultInv'
  BY <1>1 DEF FaultInv, Inv, Safe, respoolVars
<1>5. CASE FoundUnacked(level)
  <2>1. /\ m \in Memory /\ m.unacked = tr.unacked \ {level} /\ m.acked = tr.acked \cup {level}
        /\ m.ackLevel = tr.ackLevel /\ m.readLevel = tr.readLevel /\ m.atEnd = tr.atEnd
        /\ m.newlyWrittenTasks = tr.newlyWrittenTasks /\ m.evictedAcks = tr.evictedAcks
    BY InvFacts, CompletedType DEF Completed, Memory
  <2>2. Release(Advanced(m, busy)) /\ (reader' = reader \/ reader'.pc = "check")
    BY <1>5 DEF CompleteTask, MaybeRead
  <2>3. Between(m)
    BY <1>5, <2>1, InvFacts DEF Between, FoundUnacked
  <2>4. m.acked \subseteq tr.acked \cup tr.unacked
    BY <1>5, <2>1 DEF FoundUnacked
  <2>5. (Written # {} => busy) /\ (writer' # NoWrite => writer' = writer /\ busy) /\ busy \in BOOLEAN
    BY <1>1 DEF Written, Inv, TypeOK, Write, NoWrite
  <2> HIDE DEF m, busy
  <2> QED BY <1>1, <1>2, <1>3, <1>4, <2>1, <2>2, <2>3, <2>4, <2>5, AdvanceSafe
<1>6. CASE ~FoundUnacked(level)
  <2>1. UNCHANGED <<tr, reader, gc, lateGC>>
    BY <1>6 DEF CompleteTask
  <2>2. FaultInv' /\ MemoryInv' /\ WriteInv'
    BY <1>1, <1>3, <1>4, <2>1 DEF FaultInv, MemoryInv, WriteInv, Between, Inv, Safe
  <2>3. IssuedInv'
    BY <1>1, <2>1 DEF IssuedInv, Issued, Inv, Safe
  <2>4. OwedInv' /\ ReadInv'
    BY <1>1, <1>2, <2>1 DEF OwedInv, ReadInv, Reached, Inv, Safe
  <2> QED BY <2>1, <2>2, <2>3, <2>4, InvFacts DEF Safe
<1> QED BY <1>5, <1>6

LEMMA OwnerSafe ==
  ASSUME Inv, Tame, DoGC \/ SyncState \/ TakeOver
  PROVE  /\ Safe' /\ saved <= saved'
         /\ takeOvers' = takeOvers => tr.ackLevel <= tr'.ackLevel
<1> USE DEF storeVars, gcVars, history, readVars
<1>1. saved \in Nat /\ tr.ackLevel \in Nat /\ gc \in Nat /\ saved <= tr.ackLevel /\ gc <= tr.ackLevel
  BY LevelNumbers, InvFacts DEF Inv, TypeOK, Safe, MemoryInv
<1>2. CASE DoGC
  <2>1. /\ store' = {l \in store : l > gc} /\ gc' = 0
        /\ UNCHANGED <<env, saved, lastTaskID, tr, reader, writer, lateGC, respoolVars, confirmed, done>>
    BY <1>2 DEF DoGC
  <2>2. Written' = Written /\ Owed' = Owed
    BY <2>1 DEF Written, Owed, Stored
  <2>3. \A l \in Owed : l \in store'
    <3> TAKE l \in Owed
    <3>1. l \in store /\ l \in Nat /\ tr.ackLevel < l
      BY InvFacts, LevelsFinite DEF Inv, Safe, OwedInv
    <3> QED BY <1>1, <2>1, <3>1
  <2>4. FaultInv' /\ MemoryInv' /\ WriteInv'
    BY <1>1, <2>1 DEF FaultInv, MemoryInv, WriteInv, Between, respoolVars, Inv, Safe
  <2>5. IssuedInv'
    BY <2>1 DEF IssuedInv, Issued, Inv, Safe
  <2>6. OwedInv' /\ ReadInv'
    BY <2>1, <2>2, <2>3 DEF OwedInv, ReadInv, Reached, Inv, Safe
  <2> QED BY <1>1, <2>1, <2>4, <2>5, <2>6 DEF Safe
<1>3. CASE SyncState
  <2>1. /\ saved' = tr.ackLevel
        /\ UNCHANGED <<env, store, lastTaskID, tr, reader, writer, gc, lateGC, respoolVars, confirmed, done>>
    BY <1>3 DEF SyncState
  <2>2. Written' = Written /\ Owed' = Owed
    BY <2>1 DEF Written, Owed, Stored
  <2>3. FaultInv' /\ MemoryInv' /\ WriteInv'
    BY <1>1, <2>1 DEF FaultInv, MemoryInv, WriteInv, Between, respoolVars, Inv, Safe
  <2>4. IssuedInv'
    BY <2>1 DEF IssuedInv, Issued, Inv, Safe
  <2>5. OwedInv' /\ ReadInv'
    BY <2>1, <2>2 DEF OwedInv, ReadInv, Reached, Inv, Safe
  <2> QED BY <1>1, <2>1, <2>3, <2>4, <2>5 DEF Safe
<1>4. CASE TakeOver
  <2>1. /\ tr' = NewReader(saved) /\ reader' = [pc |-> "check"] /\ writer' = NoWrite /\ gc' = 0
        /\ respooling' = {} /\ respooled' = {} /\ takeOvers' = takeOvers + 1
        /\ UNCHANGED <<env, store, saved, lastTaskID, confirmed, done>>
    BY <1>4 DEF TakeOver
  <2>2. lateGC' = {}
    <3>1. "late" \notin env.faults
      BY DEF Tame, Inv, TypeOK
    <3> QED BY <1>4, <3>1 DEF TakeOver, Inv, Safe, FaultInv
  <2>3. Written' = {} /\ Owed' \subseteq Owed
    BY <2>1 DEF Written, Owed, Stored, NoWrite
  <2>4. /\ tr'.unacked = {} /\ tr'.acked = {} /\ tr'.evictedAcks = {} /\ tr'.newlyWrittenTasks = {}
        /\ tr'.ackLevel = saved /\ tr'.readLevel = saved /\ ~tr'.atEnd
    BY <2>1 DEF NewReader
  <2>5. FaultInv' /\ MemoryInv' /\ WriteInv'
    BY <1>1, <2>1, <2>2, <2>4 DEF FaultInv, MemoryInv, WriteInv, Between, NoWrite
  <2>6. IssuedInv'
    BY <2>1, <2>4 DEF IssuedInv, Issued, Inv, Safe
  <2>7. OwedInv'
    <3>1. ASSUME NEW l \in Owed' PROVE l \in store /\ saved < l /\ ~(l <= saved)
      <4>1. l \in store /\ tr.ackLevel < l /\ l \in Nat
        BY <2>3, InvFacts, LevelsFinite DEF Inv, Safe, OwedInv
      <4> QED BY <1>1, <4>1
    <3> QED BY <2>1, <2>4, <3>1 DEF OwedInv, Reached
  <2>8. ReadInv'
    BY <2>1 DEF ReadInv
  <2>9. takeOvers' # takeOvers
    BY <2>1 DEF Inv, TypeOK
  <2> QED BY <1>1, <2>1, <2>5, <2>6, <2>7, <2>8, <2>9 DEF Safe
<1> QED BY <1>2, <1>3, <1>4

\* Every step of a queue without respooling and late deletions keeps the invariant, and moves no
\* level backwards.
LEMMA NextSafe ==
  ASSUME Tame
  PROVE  Inv /\ [Next]_vars => Inv' /\ saved <= saved' /\ (takeOvers' = takeOvers => tr.ackLevel <= tr'.ackLevel)
<1> SUFFICES ASSUME Inv, [Next]_vars
             PROVE  Safe' /\ saved <= saved' /\ (takeOvers' = takeOvers => tr.ackLevel <= tr'.ackLevel)
  BY NextType DEF Inv
<1> USE DEF storeVars, gcVars, history, readVars
<1>1. saved <= saved /\ tr.ackLevel <= tr.ackLevel
  BY LevelNumbers, InvFacts DEF Inv, TypeOK
<1>2. "late" \notin env.faults /\ "respool" \notin env.faults
  BY DEF Tame, Inv, TypeOK
<1>3. CASE UNCHANGED vars
  <2>1. lateGC' = {} /\ gc' <= tr.ackLevel /\ ReadInv'
    BY <1>3 DEF vars, Inv, Safe, FaultInv, MemoryInv, ReadInv, Owed, Written, Stored
  <2>2. reader'.pc = "merge" => \A l \in reader'.tasks : Issued(l)
    BY <1>3 DEF vars, Inv, Safe, IssuedInv
  <2> QED BY <1>1, <1>3, <2>1, <2>2, QuietSafe DEF vars
<1>4. CASE ReadNextBatch \/ GetFairTasks \/ GetFairTasksFails \/ BackoffTimerFires
  <2>1. UNCHANGED <<saved, tr>>
    BY <1>4 DEF ReadNextBatch, GetFairTasks, GetFairTasksFails, BackoffTimerFires
  <2> QED BY <1>1, <1>4, <2>1, ReadSafe
<1>5. CASE ReadDone
  BY <1>1, <1>5, ReadDoneSafe DEF ReadDone
<1>6. CASE MergeRead
  BY <1>1, <1>6, MergeReadSafe DEF MergeRead
<1>7. CASE StartWrite
  BY <1>1, <1>7, StartWriteSafe DEF StartWrite
<1>8. CASE CreateFairTasks \/ CreateFairTasksFails
  BY <1>8, CreateSafe
<1>9. CASE WroteNewTasks
  BY <1>1, <1>9, WroteSafe DEF WroteNewTasks
<1>10. CASE UnpinWritten \/ UnpinFailed
  <2>1. saved' = saved
    BY <1>10 DEF UnpinWritten, UnpinFailed
  <2> QED BY <1>1, <1>10, <2>1, UnpinSafe
<1>11. ASSUME NEW level \in Levels, CompleteTask(level) \/ RespoolTask(level) \/ CompleteRespooled(level)
       PROVE  Safe' /\ saved <= saved' /\ tr.ackLevel <= tr'.ackLevel
  <2>1. ~RespoolTask(level) /\ ~CompleteRespooled(level)
    BY <1>2 DEF RespoolTask, CompleteRespooled, Inv, Safe, FaultInv
  <2> QED BY <1>1, <1>11, <2>1, CompleteSafe DEF CompleteTask
<1>12. CASE DoGC \/ SyncState \/ TakeOver
  BY <1>12, OwnerSafe
<1>13. ~LateGC
  BY DEF LateGC, Inv, Safe, FaultInv
<1> QED
  BY <1>3, <1>4, <1>5, <1>6, <1>7, <1>8, <1>9, <1>10, <1>11, <1>12, <1>13 DEF Next, ReaderStep, WriterStep

\* A task has its level from its own write only.
NewInv ==
    /\ \A l \in confirmed : Issued(l)
    /\ writer # NoWrite => writer.tasks \cap confirmed = {}

LEMMA NextNew == Inv /\ NewInv /\ [Next]_vars => NewInv'
<1> SUFFICES ASSUME Inv, NewInv, [Next]_vars PROVE NewInv'
  OBVIOUS
<1> USE DEF storeVars, gcVars, history, readVars
<1>1. MaxTasks \in Nat /\ lastTaskID \in Nat /\ confirmed \in SUBSET Levels
  BY BacklogConstants DEF Inv, TypeOK
<1>2. CASE StartWrite
  <2>1. PICK again \in SUBSET respooling, new \in 0..MaxTaskBatchSize :
          LET n == Cardinality(again) + new
              ids == lastTaskID + 1..lastTaskID + n
          IN  /\ n \in 1..MaxTaskBatchSize /\ lastTaskID + n <= MaxTasks
              /\ lastTaskID' = lastTaskID + n
              /\ \E pass \in PickPasses(Pass(tr.ackLevel), ids) :
                    writer' = [pc |-> "create", again |-> again, tasks |-> {Level(pass[id], id) : id \in ids}]
    BY <1>2 DEF StartWrite
  <2> DEFINE n == Cardinality(again) + new
             ids == lastTaskID + 1..lastTaskID + n
  <2>2. PICK pass \in PickPasses(Pass(tr.ackLevel), ids) : writer'.tasks = {Level(pass[id], id) : id \in ids}
    BY <2>1
  <2>3. n \in Nat /\ lastTaskID' = lastTaskID + n /\ lastTaskID + n <= MaxTasks
    BY <2>1, BacklogConstants
  <2>4. confirmed' = confirmed
    BY <1>2 DEF StartWrite
  <2> HIDE DEF n
  <2>5. ASSUME NEW id \in ids PROVE Level(pass[id], id) % (MaxTasks + 1) = id /\ ~(id <= lastTaskID)
    <3>1. pass[id] \in Nat
      BY BacklogConstants DEF PickPasses, Inv, TypeOK
    <3>2. id \in Nat /\ id <= MaxTasks /\ lastTaskID < id
      BY <1>1, <2>3
    <3>3. Level(pass[id], id) % (MaxTasks + 1) = id
      BY <1>1, <3>1, <3>2, LevelTaskID
    <3> QED BY <1>1, <3>2, <3>3
  <2> HIDE DEF ids
  <2>6. \A l \in writer'.tasks : ~Issued(l)
    BY <2>2, <2>5 DEF Issued
  <2>7. \A l \in confirmed : Issued(l)'
    <3> TAKE l \in confirmed
    <3>0. l \in Nat /\ l % (MaxTasks + 1) <= lastTaskID
      BY <1>1, LevelsFinite DEF NewInv, Issued
    <3>1. l % (MaxTasks + 1) <= lastTaskID /\ l % (MaxTasks + 1) \in Int
      BY <1>1, <3>0
    <3> QED BY <1>1, <2>3, <3>1 DEF Issued
  <2> QED BY <2>4, <2>6, <2>7 DEF NewInv
<1>3. CASE UnpinWritten
  <2>1. writer' = NoWrite /\ confirmed' = confirmed \cup writer.tasks /\ lastTaskID' = lastTaskID /\ writer # NoWrite
    BY <1>3 DEF UnpinWritten, NoWrite
  <2> QED BY <2>1 DEF NewInv, Issued, Inv, Safe, IssuedInv
<1>4. CASE CreateFairTasks \/ CreateFairTasksFails \/ WroteNewTasks
  <2>1. UNCHANGED <<confirmed, lastTaskID>> /\ writer \in Write /\ writer'.tasks = writer.tasks /\ writer # NoWrite
    BY <1>4 DEF CreateFairTasks, CreateFairTasksFails, WroteNewTasks, Inv, TypeOK, NoWrite, Write
  <2> QED BY <2>1 DEF NewInv, Issued
<1>5. ASSUME UNCHANGED <<confirmed, lastTaskID>>, writer' \in {writer, NoWrite} PROVE NewInv'
  BY <1>5 DEF NewInv, Issued
<1>6. CASE UnpinFailed \/ ReadNextBatch \/ ReadDone \/ GetFairTasks \/ MergeRead \/ GetFairTasksFails \/ BackoffTimerFires
  BY <1>5, <1>6 DEF UnpinFailed, ReadNextBatch, ReadDone, GetFairTasks, MergeRead, GetFairTasksFails, BackoffTimerFires
<1>7. CASE DoGC \/ LateGC \/ SyncState \/ TakeOver \/ UNCHANGED vars
  BY <1>5, <1>7 DEF DoGC, LateGC, SyncState, TakeOver, vars
<1>8. ASSUME NEW level \in Levels, CompleteTask(level) \/ RespoolTask(level) \/ CompleteRespooled(level)
      PROVE  NewInv'
  BY <1>5, <1>8 DEF CompleteTask, RespoolTask, CompleteRespooled, respoolVars
<1> QED BY <1>2, <1>3, <1>4, <1>6, <1>7, <1>8 DEF Next, ReaderStep, WriterStep

\* The invariant holds, and the properties follow.
LEMMA Invariant ==
  ASSUME Tame
  PROVE  Spec => [](Inv /\ NewInv)
<1>1. Init => Inv /\ NewInv
  BY InitType, InitSafe DEF Init, Inv, NewInv
<1>2. Inv /\ NewInv /\ [Next]_vars => (Inv /\ NewInv)'
  BY NextSafe, NextNew
<1> QED BY <1>1, <1>2, PTL DEF Spec

\* No task of the backlog is lost, whatever reads, writes and owners fail: it stays in the store,
\* above the level that is saved, until it has been started.
THEOREM NothingIsLost ==
  ASSUME Tame
  PROVE  Spec => []NothingLost
<1>1. Inv => NothingLost
  <2> SUFFICES ASSUME Inv, NEW l \in Backlog PROVE l \in store /\ saved < l
    BY DEF NothingLost
  <2>1. l \in store /\ tr.ackLevel < l /\ l \in Nat /\ saved <= tr.ackLevel /\ tr.ackLevel \in Nat /\ saved \in Nat
    BY LevelNumbers, LevelsFinite, InvFacts
    DEF Backlog, Owed, Inv, Safe, OwedInv, MemoryInv, TypeOK
  <2> QED BY <2>1
<1> QED BY <1>1, Invariant, PTL

\* The reader skips no task of the backlog: what is not above the read level is in memory.
THEOREM NothingIsSkipped ==
  ASSUME Tame
  PROVE  Spec => []NothingSkipped
<1>1. Inv /\ NewInv => NothingSkipped
  <2> SUFFICES ASSUME Inv, NewInv, NEW l \in Backlog
               PROVE  /\ tr.ackLevel < l
                      /\ l <= tr.readLevel \/ tr.atEnd => l \in tr.unacked \cup tr.newlyWrittenTasks
    BY DEF NothingSkipped
  <2>1. l \in Owed /\ l \notin Written
    BY DEF Backlog, Owed, Written, NewInv, NoWrite
  <2> QED BY <2>1 DEF Inv, Safe, OwedInv, Reached
<1> QED BY <1>1, Invariant, PTL

\* No level moves backwards: what was done for an owner, or is done for good in the store, stays done.
THEOREM AckLevelsGrow ==
  ASSUME Tame
  PROVE  Spec => AckLevelGrows
<1>1. Inv /\ [Next]_vars => [saved <= saved' /\ (takeOvers' = takeOvers => tr.ackLevel <= tr'.ackLevel)]_vars
  BY NextSafe
<1> QED BY <1>1, Invariant, PTL DEF Spec, AckLevelGrows

=============================================================================
