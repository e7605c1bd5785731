----------------------- MODULE CheckpointStoreProofs -----------------------
(***************************************************************************)
(* What the checkpoint store guarantees for any number of creators and     *)
(* scanners, any retention cap, and every combination of the faults, until *)
(* a rebuild of the index has raced with a create.                         *)
(*                                                                         *)
(* Dates are distinct, so that the cut of the sorted records separates the *)
(* newest from the rest.  A rebuild that no call has disturbed finds the   *)
(* store at rest: CalmOf says that what it read is still what is there.    *)
(***************************************************************************)
EXTENDS CheckpointStore, TLAPS, FiniteSetTheorems

PCs == {"new", "copying", "described", "failing", "pruning", "done", "failed",
        "crashed"}

Types ==
    /\ exists \in BOOLEAN
    /\ index \in Seq(Creators)
    /\ dir \in [Creators -> DirStates]
    /\ stamp \in [Creators -> Nat]
    /\ pc \in [Creators -> PCs]
    /\ todo \in [Creators -> SUBSET Creators]
    /\ seen \in [Scanners -> Seq(Creators) \cup {Unread}]
    /\ indexed \subseteq Creators /\ stranded \subseteq Creators
    /\ revived \subseteq Creators
    /\ calm \in [Scanners -> BOOLEAN]
    /\ raced \in BOOLEAN

\* Dates are ranks: every call that has begun has one of its own.
Stamped == {c \in Creators : stamp[c] > 0}

StampInv ==
    /\ \A c \in Creators : stamp[c] = 0 <=> pc[c] = "new"
    /\ \A c \in Creators : stamp[c] =< Cardinality(Stamped)
    /\ \A c, d \in Stamped : stamp[c] = stamp[d] => c = d

\* A call in its pruning phase has yet to remove this directory.
Doomed(c) == \E d \in Creators : pc[d] = "pruning" /\ c \in todo[d]

\* Where the call of a checkpoint may stand once an index has listed it.
Indexable == {"pruning", "done", "crashed", "failed"}

\* What is on disk of a checkpoint, by where its call stands.
DirOf(c) ==
    /\ c \in stranded => pc[c] \in Indexable
    /\ pc[c] = "new" => dir[c] = "none"
    /\ pc[c] = "failed" /\ dir[c] # "none" => c \in stranded
    /\ pc[c] = "copying" => dir[c] = "part"
    /\ pc[c] = "described" => dir[c] = "full"
    /\ dir[c] = "part" => \/ pc[c] \in {"copying", "failing", "crashed"}
                          \/ c \in stranded \/ Doomed(c)
    /\ dir[c] = "gutted" => c \in stranded \/ pc[c] = "failing" \/ Doomed(c)
    /\ pc[c] \in {"pruning", "done"} /\ dir[c] # "none" =>
           c \in Listed \/ c \in stranded \/ Doomed(c)

\* A listed checkpoint is one whose call has written the index, or one that a
\* rebuild found on disk after its call had ended; what a call is about to
\* remove was listed once, and is listed no more.
ListInv ==
    /\ IsInjective(index) /\ Listed \subseteq indexed
    /\ \A c \in indexed : pc[c] \in Indexable
    /\ \A c \in Listed : /\ dir[c] \in {"full", "gutted"}
                         /\ dir[c] = "gutted" => c \in stranded
    /\ Listed \cap stranded \subseteq revived
    /\ \A d \in Creators : /\ todo[d] \subseteq indexed \ Listed
                           /\ pc[d] # "pruning" => todo[d] = {}

\* What an undisturbed rebuild has read is what is there: no call runs.
CalmOf(s) ==
    calm[s] /\ seen[s] # Unread =>
        /\ \A c \in Creators : ~Active(c)
        /\ IsInjective(seen[s]) /\ Range(seen[s]) = Described

KeptInv ==
    \A c \in indexed \ Listed : Cardinality({d \in indexed : Newer(d, c)}) >= Cap

\* The store before a rebuild has raced with a create.
StoreInv ==
    /\ \A c \in Creators : DirOf(c)
    /\ ListInv
    /\ \A s \in Scanners : CalmOf(s)
    /\ KeptInv

\* The inductive invariant.
IInv == Types /\ StampInv /\ (raced \/ StoreInv)

-----------------------------------------------------------------------------
(* Retention: the sorted records and the cut *)

\* Sorting records is rearranging them.
LEMMA SortedRecords ==
    ASSUME NEW records \in Seq(Creators), NEW sorted \in NewestFirst(records)
    PROVE  /\ sorted \in [1..Len(records) -> Creators]
           /\ Range(sorted) = Range(records)
           /\ IsInjective(records) => IsInjective(sorted)
           /\ Sorted(sorted)
<1> DEFINE D == 1..Len(records)
<1>1. DOMAIN records = D /\ \A i \in D : records[i] \in Creators
  OBVIOUS
<1>2. PICK p \in Bijection(D, D) : sorted = [i \in D |-> records[p[i]]]
  BY <1>1 DEF NewestFirst
<1>3. /\ p \in [D -> D] /\ \A i, j \in D : p[i] = p[j] => i = j
      /\ \A j \in D : \E i \in D : p[i] = j
  BY <1>2 DEF Bijection, Injection, Surjection, IsInjective
<1>4. Sorted(sorted)
  BY DEF NewestFirst
<1> HIDE DEF D
<1>5. Range(sorted) = Range(records)
  BY <1>1, <1>2, <1>3 DEF Range
<1>6. IsInjective(records) => IsInjective(sorted)
  BY <1>1, <1>2, <1>3 DEF IsInjective
<1>7. sorted \in [D -> Creators]
  BY <1>1, <1>2, <1>3
<1>8. QED
  BY <1>4, <1>5, <1>6, <1>7 DEF D

\* The cut leaves records, at most Cap of them when it cuts.
LEMMA CutTypes ==
    ASSUME NEW records \in Seq(Creators), NEW sorted \in NewestFirst(records)
    PROVE  /\ Retained(records, sorted) \in Seq(Creators)
           /\ Dropped(records, sorted) \subseteq Creators
<1>1. sorted \in [1..Len(records) -> Creators]
  BY SortedRecords
<1>2. Dropped(records, sorted) \subseteq Creators
  BY <1>1, CapAssumption DEF Dropped
<1>3. CASE Len(records) =< Cap
  BY <1>2, <1>3 DEF Retained
<1>4. CASE ~(Len(records) =< Cap)
  <2>1. \A i \in 1..Cap : sorted[i] \in Creators
    BY <1>1, <1>4, CapAssumption
  <2>2. [i \in 1..Cap |-> sorted[i]] \in Seq(Creators)
    BY <2>1, CapAssumption
  <2>3. QED
    BY <1>2, <1>4, <2>2 DEF Retained
<1>5. QED
  BY <1>3, <1>4

\* When no record is there twice, a record is retained or dropped, and none is
\* both: no directory is removed whose record stays.
LEMMA CutPartition ==
    ASSUME NEW records \in Seq(Creators), IsInjective(records),
           NEW sorted \in NewestFirst(records)
    PROVE  /\ IsInjective(Retained(records, sorted))
           /\ Range(Retained(records, sorted)) =
                  Range(records) \ Dropped(records, sorted)
           /\ Dropped(records, sorted) \subseteq Range(records)
<1> DEFINE n == Len(records)
           out == Dropped(records, sorted)
<1>1. /\ n \in Nat /\ sorted \in [1..n -> Creators]
      /\ IsInjective(sorted) /\ Range(sorted) = Range(records)
  BY SortedRecords
<1>2. CASE n =< Cap
  <2>1. out = {}
    BY <1>1, <1>2, CapAssumption DEF Dropped
  <2>2. QED
    BY <1>2, <2>1 DEF Retained
<1>3. CASE ~(n =< Cap)
  <2>1. out = {sorted[i] : i \in Cap + 1..n}
    BY DEF Dropped
  <2>2. Retained(records, sorted) = [i \in 1..Cap |-> sorted[i]]
    BY <1>3 DEF Retained
  <2>3. Range(Retained(records, sorted)) = {sorted[i] : i \in 1..Cap}
    BY <2>2 DEF Range
  <2>4. Range(sorted) = {sorted[i] : i \in 1..n}
    BY <1>1 DEF Range
  <2>5. \A i, j \in 1..n : sorted[i] = sorted[j] => i = j
    BY <1>1 DEF IsInjective
  <2> HIDE DEF out, n
  <2>6. out \subseteq Range(sorted)
    BY <1>1, <2>1, <2>4, CapAssumption
  <2>7. {sorted[i] : i \in 1..Cap} \subseteq Range(sorted) \ out
    BY <1>1, <1>3, <2>1, <2>4, <2>5, CapAssumption
  <2>8. Range(sorted) \ out \subseteq {sorted[i] : i \in 1..Cap}
    BY <1>1, <1>3, <2>1, <2>4, CapAssumption
  <2>9. IsInjective(Retained(records, sorted))
    BY <1>1, <1>3, <2>2, <2>5, CapAssumption DEF IsInjective
  <2>10. QED
    BY <1>1, <2>3, <2>6, <2>7, <2>8, <2>9 DEF out
<1>4. QED
  BY <1>2, <1>3

\* A record that is dropped has Cap newer ones before it: dates are distinct,
\* so a record that comes earlier is newer.
LEMMA DroppedAreOld ==
    ASSUME stamp \in [Creators -> Nat],
           NEW records \in Seq(Creators), IsInjective(records),
           \A a, b \in Range(records) : stamp[a] = stamp[b] => a = b,
           NEW sorted \in NewestFirst(records),
           NEW d \in Dropped(records, sorted),
           NEW S \in SUBSET Creators, Range(records) \subseteq S
    PROVE  Cardinality({e \in S : Newer(e, d)}) >= Cap
<1> DEFINE n == Len(records)
           Ahead == {e \in S : Newer(e, d)}
           f == [i \in 1..Cap |-> sorted[i]]
<1>1. /\ n \in Nat /\ sorted \in [1..n -> Creators]
      /\ IsInjective(sorted) /\ Range(sorted) = Range(records)
      /\ Sorted(sorted)
  BY SortedRecords
<1>2. PICK k \in Cap + 1..n : d = sorted[k]
  BY DEF Dropped
<1>3. ASSUME NEW i \in 1..Cap
      PROVE  /\ sorted[i] \in Ahead
             /\ \A j \in 1..Cap : sorted[i] = sorted[j] => i = j
  <2>1. i \in 1..n /\ k \in 1..n /\ i < k /\ i # k /\ 1..Cap \subseteq 1..n
    BY <1>1, <1>2, CapAssumption
  <2>2. sorted[i] \in Range(records) /\ d \in Range(records)
    BY <1>1, <1>2, <2>1 DEF Range
  <2>3. ~Newer(d, sorted[i])
    BY <1>1, <1>2, <2>1 DEF Sorted
  <2>4. sorted[i] # d
    BY <1>1, <1>2, <2>1 DEF IsInjective
  <2>5. stamp[sorted[i]] # stamp[d]
    BY <2>2, <2>4
  <2>6. sorted[i] \in Creators /\ d \in Creators /\ sorted[i] \in S
    BY <1>1, <1>2, <2>1, <2>2
  <2>7. stamp[sorted[i]] \in Nat /\ stamp[d] \in Nat
    BY <2>6
  <2>8. Newer(sorted[i], d)
    BY <2>3, <2>5, <2>7 DEF Newer
  <2>9. QED
    BY <1>1, <2>1, <2>6, <2>8 DEF IsInjective
<1>4. IsFiniteSet(Ahead)
  BY FiniteAssumption, FS_Subset
<1> HIDE DEF Ahead
<1>5. f \in Injection(1..Cap, Ahead)
  BY <1>3 DEF Injection, IsInjective
<1> HIDE DEF f
<1>6. Cardinality(1..Cap) =< Cardinality(Ahead)
  BY <1>4, <1>5, FS_Injection
<1>7. Cardinality(1..Cap) = Cap
  BY FS_Interval, CapAssumption
<1>8. Cardinality(Ahead) \in Nat
  BY <1>4, FS_CardinalityType
<1>9. QED
  BY <1>6, <1>7, <1>8, CapAssumption DEF Ahead

\* What a rebuild reads: every described checkpoint, once.
LEMMA ListingType ==
    ASSUME NEW S \in SUBSET Creators, NEW records \in Listings(S)
    PROVE  /\ records \in Seq(Creators)
           /\ IsInjective(records) /\ Range(records) = S
<1> DEFINE n == Cardinality(S)
<1>1. n \in Nat
  BY FiniteAssumption, FS_Subset, FS_CardinalityType
<1>2. records \in Bijection(1..n, S)
  BY DEF Listings
<1> HIDE DEF n
<1>3. /\ records \in [1..n -> S] /\ IsInjective(records)
      /\ \A x \in S : \E i \in 1..n : records[i] = x
  BY <1>2 DEF Bijection, Injection, Surjection
<1>4. Range(records) = S
  BY <1>3 DEF Range
<1>5. records \in Seq(Creators)
  BY <1>1, <1>3
<1>6. QED
  BY <1>3, <1>4, <1>5

-----------------------------------------------------------------------------
(* Types and dates *)

\* The next date is a rank above those that were given.
LEMMA NextStampType ==
    /\ NextStamp = Cardinality(Stamped) + 1
    /\ IsFiniteSet(Stamped) /\ Cardinality(Stamped) \in Nat
    /\ Cardinality(Stamped) =< Cardinality(Creators)
<1>1. Stamped \in SUBSET Creators
  BY DEF Stamped
<1>2. QED
  BY <1>1, FiniteAssumption, FS_Subset, FS_CardinalityType
     DEF NextStamp, Stamped

LEMMA TypesStep ==
    ASSUME Types, [Next]_vars
    PROVE  Types'
<1> USE DEF Types, PCs, DirStates, storeVars, historyVars
<1>1. ASSUME NEW c \in Creators, Begin(c) PROVE Types'
  <2>1. NextStamp \in Nat
    BY NextStampType
  <2>2. QED
    BY <1>1, <2>1 DEF Begin, Disturb
<1>2. ASSUME NEW c \in Creators, Insert(c) PROVE Types'
  <2>1. <<c>> \o index \in Seq(Creators)
    OBVIOUS
  <2>2. PICK sorted \in NewestFirst(<<c>> \o index) :
            /\ index' = Retained(<<c>> \o index, sorted)
            /\ todo' = [todo EXCEPT ![c] = Dropped(<<c>> \o index, sorted)]
    BY <1>2 DEF Insert
  <2>3. /\ Retained(<<c>> \o index, sorted) \in Seq(Creators)
        /\ Dropped(<<c>> \o index, sorted) \subseteq Creators
    BY <2>1, CutTypes
  <2>4. QED
    BY <1>2, <2>2, <2>3 DEF Insert
<1>3. ASSUME NEW c \in Creators,
             \/ Describe(c) \/ CopyFails(c) \/ IndexFails(c) \/ GutOwn(c)
             \/ RemoveOwn(c) \/ RemoveOwnFails(c) \/ Return(c)
      PROVE  Types'
  <2>1. CASE GutOwn(c)
    BY <2>1 DEF GutOwn, Gut, Remains
  <2>2. CASE ~GutOwn(c)
    BY <1>3, <2>2 DEF Describe, CopyFails, IndexFails, RemoveOwn, RemoveDir,
       RemoveOwnFails, Return
  <2>3. QED
    BY <2>1, <2>2
<1>4. ASSUME NEW c \in Creators,
             GutDropped(c) \/ RemoveDropped(c) \/ RemoveDroppedFails(c)
      PROVE  Types'
  <2>1. CASE GutDropped(c)
    BY <2>1 DEF GutDropped, Gut, Remains
  <2>2. CASE RemoveDropped(c)
    BY <2>2 DEF RemoveDropped, RemoveDir
  <2>3. CASE RemoveDroppedFails(c)
    BY <2>3 DEF RemoveDroppedFails
  <2>4. QED
    BY <1>4, <2>1, <2>2, <2>3
<1>5. ASSUME NEW c \in Creators, Crash(c) PROVE Types'
  BY <1>5 DEF Crash, Removing
<1>6. ASSUME NEW s \in Scanners, Scan(s) PROVE Types'
  <2>1. Described \in SUBSET Creators
    BY DEF Described
  <2>2. PICK records \in Listings(Described) :
            seen' = [seen EXCEPT ![s] = records]
    BY <1>6 DEF Scan
  <2>3. records \in Seq(Creators)
    BY <2>1, <2>2, ListingType
  <2>4. QED
    BY <1>6, <2>2, <2>3 DEF Scan
<1>7. ASSUME NEW s \in Scanners, Publish(s) PROVE Types'
  <2>1. seen[s] \in Seq(Creators)
    BY <1>7 DEF Publish
  <2>2. Range(seen[s]) \subseteq Creators
    BY <2>1 DEF Range
  <2>3. QED
    BY <1>7, <2>1, <2>2 DEF Publish
<1>8. CASE UNCHANGED vars
  BY <1>8 DEF vars
<1>9. QED
  BY <1>1, <1>2, <1>3, <1>4, <1>5, <1>6, <1>7, <1>8 DEF Next, CreatorStep

\* A call dates its checkpoint once, with a date nobody has.
LEMMA StampStep ==
    ASSUME Types, StampInv, [Next]_vars
    PROVE  StampInv'
<1> USE DEF Types, storeVars, historyVars
<1>1. ASSUME NEW c \in Creators, Begin(c) PROVE StampInv'
  <2> DEFINE n == Cardinality(Stamped)
  <2>1. n \in Nat /\ IsFiniteSet(Stamped) /\ NextStamp = n + 1
    BY NextStampType
  <2>2. /\ pc[c] = "new" /\ stamp[c] = 0
        /\ pc' = [pc EXCEPT ![c] = "copying"]
        /\ stamp' = [stamp EXCEPT ![c] = n + 1]
    BY <1>1, <2>1 DEF Begin, StampInv
  <2>3. \A d \in Creators : stamp[d] \in Nat /\ stamp[d] =< n
    BY DEF StampInv
  <2>4. Cardinality(Stamped \cup {c}) = n + 1
    <3>1. c \notin Stamped
      BY <2>2 DEF Stamped
    <3>2. QED
      BY <2>1, <3>1, FS_AddElement
  <2> HIDE DEF n
  <2>5. /\ \A d \in Creators \ {c} : stamp'[d] = stamp[d] /\ pc'[d] = pc[d]
        /\ stamp'[c] = n + 1 /\ pc'[c] = "copying"
    BY <2>2
  <2>6. Stamped' = Stamped \cup {c}
    BY <2>1, <2>5 DEF Stamped
  <2>7. \A d \in Creators : stamp'[d] =< Cardinality(Stamped')
    <3>1. Cardinality(Stamped') = n + 1
      BY <2>4, <2>6
    <3>2. ASSUME NEW d \in Creators PROVE stamp'[d] =< n + 1
      <4>1. CASE d = c
        BY <2>1, <2>5, <4>1
      <4>2. CASE d # c
        <5>1. stamp'[d] = stamp[d] /\ stamp[d] \in Nat /\ stamp[d] =< n
          BY <2>3, <2>5, <4>2
        <5>2. QED
          BY <2>1, <5>1
      <4>3. QED
        BY <4>1, <4>2
    <3>3. QED
      BY <3>1, <3>2
  <2>8. \A a, b \in Stamped' : stamp'[a] = stamp'[b] => a = b
    <3>1. \A a \in Stamped' : a = c \/ (a # c /\ a \in Stamped)
      BY <2>6
    <3>2. \A a \in Stamped : a # c => stamp'[a] = stamp[a] /\ stamp'[a] # n + 1
      BY <2>1, <2>3, <2>5 DEF Stamped
    <3>3. QED
      BY <2>5, <3>1, <3>2 DEF StampInv
  <2>9. \A d \in Creators : stamp'[d] = 0 <=> pc'[d] = "new"
    BY <2>1, <2>5 DEF StampInv
  <2>10. QED
    BY <2>7, <2>8, <2>9 DEF StampInv
<1>2. ASSUME stamp' = stamp, \A c \in Creators : pc'[c] = "new" <=> pc[c] = "new"
      PROVE  StampInv'
  BY <1>2 DEF StampInv, Stamped
<1>3. ASSUME NEW c \in Creators, CreatorStep(c), ~Begin(c) PROVE StampInv'
  BY <1>2, <1>3 DEF CreatorStep, Describe, Insert, CopyFails, IndexFails,
     GutOwn, RemoveOwn, RemoveOwnFails, GutDropped, RemoveDropped,
     RemoveDroppedFails, Return, Crash, Active
<1>4. ASSUME NEW s \in Scanners, Scan(s) \/ Publish(s) PROVE StampInv'
  BY <1>2, <1>4 DEF Scan, Publish
<1>5. CASE UNCHANGED vars
  BY <1>2, <1>5 DEF vars
<1>6. QED
  BY <1>1, <1>3, <1>4, <1>5 DEF Next

-----------------------------------------------------------------------------
(* The store *)

\* What the locked section of a create does to the index: a checkpoint listed
\* before, or made by the call, is listed after or due for removal, not both,
\* and due only when Cap newer ones were listed.
LEMMA InsertSplits ==
    ASSUME Types, StampInv, ListInv, NEW c \in Creators, Insert(c)
    PROVE  /\ c \notin indexed
           /\ IsInjective(index)'
           /\ todo'[c] \subseteq Listed \cup {c}
           /\ Listed' = (Listed \cup {c}) \ todo'[c]
           /\ \A d \in todo'[c] :
                  Cardinality({e \in indexed' : Newer(e, d)}) >= Cap
<1> DEFINE records == <<c>> \o index
<1>1. index \in Seq(Creators) /\ records \in Seq(Creators)
  BY DEF Types
<1>2. PICK sorted \in NewestFirst(records) :
          /\ index' = Retained(records, sorted)
          /\ todo' = [todo EXCEPT ![c] = Dropped(records, sorted)]
  BY DEF Insert
<1>3. c \notin indexed /\ c \notin Listed
  BY DEF Insert, ListInv, Indexable
<1>4. /\ Len(records) = Len(index) + 1 /\ records[1] = c
      /\ \A i \in 1..Len(index) : records[i + 1] = index[i]
      /\ \A i \in 2..Len(records) : records[i] = index[i - 1]
                                    /\ i - 1 \in 1..Len(index)
  BY <1>1
<1>5. DOMAIN records = 1..Len(records) /\ DOMAIN index = 1..Len(index)
      /\ Len(index) \in Nat
  BY <1>1
<1> HIDE DEF records
<1>6. Range(records) = Listed \cup {c}
  <2>1. Listed \cup {c} \subseteq Range(records)
    <3>1. c \in Range(records)
      BY <1>4, <1>5 DEF Range
    <3>2. ASSUME NEW i \in 1..Len(index) PROVE index[i] \in Range(records)
      <4>1. i + 1 \in 1..Len(records) /\ records[i + 1] = index[i]
        BY <1>4, <1>5
      <4>2. QED
        BY <1>5, <4>1 DEF Range
    <3>3. QED
      BY <1>5, <3>1, <3>2 DEF Range, Listed
  <2>2. ASSUME NEW i \in 1..Len(records) PROVE records[i] \in Listed \cup {c}
    <3>1. i = 1 \/ i \in 2..Len(records)
      BY <1>4, <1>5
    <3>2. QED
      BY <1>4, <1>5, <3>1 DEF Range, Listed
  <2>3. Range(records) \subseteq Listed \cup {c}
    BY <1>5, <2>2 DEF Range
  <2>4. QED
    BY <2>1, <2>3
<1>7. IsInjective(records)
  <2>1. ASSUME NEW i \in 1..Len(records), NEW j \in 1..Len(records),
               records[i] = records[j]
        PROVE  i = j
    <3>1. CASE i = 1 \/ j = 1
      <4>1. ASSUME NEW k \in 2..Len(records) PROVE records[k] # c
        BY <1>3, <1>4, <1>5 DEF Range, Listed
      <4>2. QED
        BY <1>4, <2>1, <3>1, <4>1
    <3>2. CASE i # 1 /\ j # 1
      <4>1. i \in 2..Len(records) /\ j \in 2..Len(records)
        BY <1>4, <1>5, <3>2
      <4>2. index[i - 1] = index[j - 1]
            /\ i - 1 \in 1..Len(index) /\ j - 1 \in 1..Len(index)
        BY <1>4, <2>1, <4>1
      <4>3. i - 1 = j - 1
        BY <1>5, <4>2 DEF ListInv, IsInjective
      <4>4. QED
        BY <4>1, <4>3
    <3>3. QED
      BY <3>1, <3>2
  <2>2. QED
    BY <1>5, <2>1 DEF IsInjective
<1>8. /\ IsInjective(Retained(records, sorted))
      /\ Range(Retained(records, sorted)) =
             Range(records) \ Dropped(records, sorted)
      /\ Dropped(records, sorted) \subseteq Range(records)
  BY <1>1, <1>7, CutPartition
<1>9. todo'[c] = Dropped(records, sorted)
  BY <1>2 DEF Types
<1>10. indexed' = indexed \cup {c} /\ stamp' = stamp /\ indexed' \subseteq Creators
       /\ Range(records) \subseteq indexed'
  BY <1>6 DEF Insert, ListInv, Types
<1>11. \A a, b \in Range(records) : stamp[a] = stamp[b] => a = b
  <2>1. Range(records) \subseteq Stamped
    <3>1. \A a \in Range(records) : a \in Creators /\ pc[a] # "new"
      BY <1>6, <1>10 DEF ListInv, Indexable, Insert
    <3>2. QED
      BY <3>1 DEF Stamped, StampInv, Types
  <2>2. QED
    BY <2>1 DEF StampInv
<1>12. ASSUME NEW d \in Dropped(records, sorted)
       PROVE  Cardinality({e \in indexed' : Newer(e, d)}) >= Cap
  BY <1>1, <1>7, <1>10, <1>11, DroppedAreOld DEF Types
<1>13. \A d \in todo'[c] :
           Cardinality({e \in indexed' : Newer(e, d)}) >= Cap
  BY <1>9, <1>12
<1>14. IsInjective(index)' /\ Listed' = (Listed \cup {c}) \ todo'[c]
  BY <1>2, <1>6, <1>8, <1>9 DEF Listed, IsInjective
<1>15. QED
  BY <1>3, <1>6, <1>8, <1>9, <1>13, <1>14

\* A rebuild that did not race lists what is described, with no call running.
LEMMA PublishAtRest ==
    ASSUME Types, StoreInv, NEW s \in Scanners, Publish(s), ~raced'
    PROVE  /\ \A c \in Creators : ~Active(c)
           /\ IsInjective(index)' /\ Listed' = Described
           /\ indexed' = indexed \cup Described
           /\ revived' = revived \cup Described
           /\ UNCHANGED <<dir, stamp, pc, todo, stranded, calm>>
BY DEF Publish, StoreInv, CalmOf, Listed, IsInjective, Types

\* What a listed checkpoint is, and what calls may remove, step by step.
LEMMA ListStep ==
    ASSUME Types, StampInv, StoreInv, [Next]_vars, ~raced'
    PROVE  ListInv'
<1> USE DEF Types, Indexable, storeVars, historyVars
<1>1. /\ IsInjective(index) /\ Listed \subseteq indexed
      /\ \A c \in indexed : pc[c] \in Indexable
      /\ \A c \in Listed : /\ dir[c] \in {"full", "gutted"}
                           /\ dir[c] = "gutted" => c \in stranded
      /\ Listed \cap stranded \subseteq revived
      /\ \A d \in Creators : /\ todo[d] \subseteq indexed \ Listed
                             /\ pc[d] # "pruning" => todo[d] = {}
  BY DEF StoreInv, ListInv
<1>2. \A c \in Creators : DirOf(c)
  BY DEF StoreInv
<1>3. index' = index => Listed' = Listed /\ IsInjective(index)'
  BY <1>1 DEF Listed, IsInjective
<1>4. ASSUME NEW c \in Creators, Insert(c) PROVE ListInv'
  <2>1. /\ c \notin indexed /\ IsInjective(index)'
        /\ todo'[c] \subseteq Listed \cup {c}
        /\ Listed' = (Listed \cup {c}) \ todo'[c]
    BY <1>4, InsertSplits DEF StoreInv
  <2>2. /\ indexed' = indexed \cup {c} /\ dir' = dir
        /\ stranded' = stranded /\ revived' = revived
        /\ pc' = [pc EXCEPT ![c] = "pruning"]
        /\ \A d \in Creators \ {c} : todo'[d] = todo[d]
    BY <1>4 DEF Insert
  <2>3. dir[c] = "full" /\ c \notin stranded
    BY <1>2, <1>4 DEF Insert, DirOf
  <2>4. Listed' \subseteq indexed'
    BY <1>1, <2>1, <2>2
  <2>5. \A d \in indexed' : pc'[d] \in Indexable
    BY <1>1, <2>2
  <2>6. \A d \in Listed' : /\ dir'[d] \in {"full", "gutted"}
                           /\ dir'[d] = "gutted" => d \in stranded'
    BY <1>1, <2>1, <2>2, <2>3
  <2>7. ASSUME NEW d \in Creators
        PROVE  /\ todo'[d] \subseteq indexed' \ Listed'
               /\ pc'[d] # "pruning" => todo'[d] = {}
    <3>1. CASE d = c
      BY <1>1, <1>4, <2>1, <2>2, <3>1
    <3>2. CASE d # c
      <4>1. /\ todo'[d] = todo[d] /\ pc'[d] = pc[d]
            /\ todo[d] \subseteq indexed \ Listed
            /\ pc[d] # "pruning" => todo[d] = {}
        BY <1>1, <2>2, <2>7, <3>2
      <4>2. QED
        BY <2>1, <2>2, <4>1
    <3>3. QED
      BY <3>1, <3>2
  <2>8. Listed' \cap stranded' \subseteq revived'
    BY <1>1, <2>1, <2>2, <2>3
  <2>9. QED
    BY <2>1, <2>4, <2>5, <2>6, <2>7, <2>8 DEF ListInv
<1>5. ASSUME NEW s \in Scanners, Publish(s) PROVE ListInv'
  <2>1. /\ \A c \in Creators : ~Active(c)
        /\ IsInjective(index)' /\ Listed' = Described
        /\ indexed' = indexed \cup Described
        /\ revived' = revived \cup Described
        /\ UNCHANGED <<dir, pc, stranded>>
    BY <1>5, PublishAtRest
  <2>2. \A c \in Creators :
            pc[c] \notin {"copying", "described", "failing", "pruning"}
    BY <2>1 DEF Active
  <2>3. ASSUME NEW c \in Described
        PROVE  /\ pc[c] \in {"done", "crashed", "failed"}
               /\ dir[c] \in {"full", "gutted"}
               /\ dir[c] = "gutted" => c \in stranded
    BY <1>2, <2>2 DEF Described, DirOf, Doomed, PCs
  <2>4. \A c \in Creators : todo'[c] = {}
    BY <1>1, <1>5, <2>2 DEF Publish
  <2>5. QED
    BY <1>1, <2>1, <2>3, <2>4 DEF ListInv
<1>6. ASSUME NEW c \in Creators, UNCHANGED <<index, indexed, revived, todo>>,
             stranded \subseteq stranded', stranded' \subseteq stranded \cup {c},
             c \notin indexed, pc[c] # "pruning",
             \A d \in Creators \ {c} : pc'[d] = pc[d] /\ dir'[d] = dir[d]
      PROVE  ListInv'
  BY <1>1, <1>3, <1>6 DEF ListInv
<1>7. ASSUME NEW c \in Creators,
             \/ Begin(c) \/ Describe(c) \/ CopyFails(c) \/ IndexFails(c)
             \/ GutOwn(c) \/ RemoveOwn(c) \/ RemoveOwnFails(c)
      PROVE  ListInv'
  <2>1. /\ pc[c] \in {"new", "copying", "described", "failing"}
        /\ UNCHANGED <<index, indexed, revived, todo>>
        /\ stranded \subseteq stranded' /\ stranded' \subseteq stranded \cup {c}
    BY <1>7 DEF Begin, Describe, CopyFails, IndexFails, GutOwn, RemoveOwn,
       RemoveOwnFails
  <2>2. c \notin indexed
    BY <1>1, <2>1
  <2>3. \A d \in Creators \ {c} : pc'[d] = pc[d] /\ dir'[d] = dir[d]
    BY <1>7 DEF Begin, Describe, CopyFails, IndexFails, GutOwn, Gut, RemoveOwn,
       RemoveDir, RemoveOwnFails
  <2>4. QED
    BY <1>6, <2>1, <2>2, <2>3
<1>8. ASSUME NEW c \in Creators,
             GutDropped(c) \/ RemoveDropped(c) \/ RemoveDroppedFails(c)
      PROVE  ListInv'
  <2>1. PICK d \in todo[c] :
            /\ \A e \in Creators \ {d} : dir'[e] = dir[e]
            /\ todo'[c] \subseteq todo[c]
            /\ stranded \subseteq stranded'
            /\ stranded' \subseteq stranded \cup {d}
    <3>1. CASE GutDropped(c)
      BY <3>1 DEF GutDropped, Gut
    <3>2. CASE RemoveDropped(c)
      BY <3>2 DEF RemoveDropped, RemoveDir
    <3>3. CASE RemoveDroppedFails(c)
      BY <3>3 DEF RemoveDroppedFails
    <3>4. QED
      BY <1>8, <3>1, <3>2, <3>3
  <2>2. pc[c] = "pruning" /\ UNCHANGED <<index, indexed, revived, pc>>
        /\ \A e \in Creators \ {c} : todo'[e] = todo[e]
    BY <1>8 DEF GutDropped, RemoveDropped, RemoveDroppedFails
  <2>3. d \notin Listed
    BY <1>1, <2>1, <2>2
  <2>4. ASSUME NEW e \in Creators
        PROVE  /\ todo'[e] \subseteq indexed' \ Listed'
               /\ pc'[e] # "pruning" => todo'[e] = {}
    <3>1. CASE e = c
      BY <1>1, <1>3, <1>8, <2>1, <2>2, <3>1
    <3>2. CASE e # c
      BY <1>1, <1>3, <2>2, <2>4, <3>2
    <3>3. QED
      BY <3>1, <3>2
  <2>5. \A e \in Listed' : /\ dir'[e] \in {"full", "gutted"}
                           /\ dir'[e] = "gutted" => e \in stranded'
    BY <1>1, <1>3, <2>1, <2>2, <2>3
  <2>6. Listed' \cap stranded' \subseteq revived'
    BY <1>1, <1>3, <2>1, <2>2, <2>3
  <2>7. QED
    BY <1>1, <1>3, <2>2, <2>4, <2>5, <2>6 DEF ListInv
<1>9. ASSUME NEW c \in Creators, Return(c) PROVE ListInv'
  BY <1>1, <1>3, <1>9 DEF Return, ListInv
<1>10. ASSUME NEW c \in Creators, Crash(c) PROVE ListInv'
  <2>1. /\ pc' = [pc EXCEPT ![c] = "crashed"] /\ todo' = [todo EXCEPT ![c] = {}]
        /\ UNCHANGED <<index, dir, indexed, revived>>
        /\ stranded \subseteq stranded'
        /\ stranded' \subseteq stranded \cup Removing(c)
    BY <1>10 DEF Crash
  <2>2. Removing(c) \cap Listed = {}
    <3>1. CASE pc[c] = "pruning"
      BY <1>1, <1>10, <3>1 DEF Removing
    <3>2. CASE pc[c] = "failing"
      BY <1>1, <1>10, <3>2 DEF Removing
    <3>3. CASE pc[c] \in {"copying", "described"}
      BY <1>1, <1>10, <3>3 DEF Removing
    <3>4. QED
      BY <1>10, <3>1, <3>2, <3>3 DEF Crash, Active
  <2>3. QED
    BY <1>1, <1>3, <2>1, <2>2 DEF ListInv
<1>11. ASSUME NEW s \in Scanners, Scan(s) PROVE ListInv'
  BY <1>1, <1>3, <1>11 DEF Scan, ListInv
<1>12. CASE UNCHANGED vars
  BY <1>1, <1>3, <1>12 DEF vars, ListInv
<1>13. QED
  BY <1>4, <1>5, <1>7, <1>8, <1>9, <1>10, <1>11, <1>12 DEF Next, CreatorStep

\* What is on disk of a checkpoint follows where its call stands.
LEMMA DirStep ==
    ASSUME Types, StampInv, StoreInv, [Next]_vars, ~raced'
    PROVE  \A d \in Creators : DirOf(d)'
<1> USE DEF Types, PCs, DirStates, Indexable, storeVars, historyVars
<1> SUFFICES ASSUME NEW d \in Creators
             PROVE  DirOf(d)'
  OBVIOUS
<1>1. DirOf(d)
  BY DEF StoreInv
<1>2. index' = index => Listed' = Listed
  BY DEF Listed
<1>3. ASSUME UNCHANGED <<index, todo>>, d \in stranded' <=> d \in stranded,
             pc'[d] = pc[d], dir'[d] = dir[d],
             \A e \in Creators : pc[e] = "pruning" =>
                                     pc'[e] = "pruning" \/ todo[e] = {}
      PROVE  DirOf(d)'
  <2>1. Doomed(d) => Doomed(d)'
    BY <1>3 DEF Doomed
  <2>2. QED
    BY <1>1, <1>2, <1>3, <2>1 DEF DirOf
<1>4. ASSUME NEW c \in Creators,
             \/ Begin(c) \/ Describe(c) \/ CopyFails(c) \/ IndexFails(c)
             \/ GutOwn(c) \/ RemoveOwn(c) \/ RemoveOwnFails(c)
      PROVE  DirOf(d)'
  <2>1. /\ UNCHANGED <<index, todo>>
        /\ stranded' \in {stranded, stranded \cup {c}}
    BY <1>4 DEF Begin, Describe, CopyFails, IndexFails, GutOwn, RemoveOwn,
       RemoveOwnFails
  <2>2. pc[c] # "pruning" /\ \A e \in Creators \ {c} : pc'[e] = pc[e]
    BY <1>4 DEF Begin, Describe, CopyFails, IndexFails, GutOwn, RemoveOwn,
       RemoveOwnFails
  <2>3. CASE d # c
    <3>1. dir'[d] = dir[d]
      BY <1>4, <2>3 DEF Begin, Describe, CopyFails, IndexFails, GutOwn, Gut,
         RemoveOwn, RemoveDir, RemoveOwnFails
    <3>2. QED
      BY <1>3, <2>1, <2>2, <2>3, <3>1
  <2>4. CASE d = c
    <3>1. CASE Begin(c) \/ Describe(c)
      BY <1>1, <2>4, <3>1 DEF Begin, Describe, DirOf
    <3>2. CASE CopyFails(c) \/ IndexFails(c)
      BY <1>1, <2>4, <3>2 DEF CopyFails, IndexFails, DirOf
    <3>3. CASE RemoveOwn(c) \/ RemoveOwnFails(c)
      BY <1>1, <2>4, <3>3 DEF RemoveOwn, RemoveDir, RemoveOwnFails, DirOf
    <3>4. CASE GutOwn(c)
      <4>1. pc[c] = "failing" /\ pc' = pc /\ stranded' = stranded
        BY <3>4 DEF GutOwn
      <4>2. QED
        BY <1>1, <2>4, <4>1 DEF DirOf
    <3>5. QED
      BY <1>4, <3>1, <3>2, <3>3, <3>4
  <2>5. QED
    BY <2>3, <2>4
<1>5. ASSUME NEW c \in Creators, Insert(c) PROVE DirOf(d)'
  <2>1. /\ todo'[c] \subseteq Listed \cup {c}
        /\ Listed' = (Listed \cup {c}) \ todo'[c]
    BY <1>5, InsertSplits DEF StoreInv
  <2>2. /\ dir' = dir /\ stranded' = stranded /\ pc[c] = "described"
        /\ pc' = [pc EXCEPT ![c] = "pruning"]
        /\ \A e \in Creators \ {c} : todo'[e] = todo[e]
    BY <1>5 DEF Insert
  <2>3. Doomed(d) => Doomed(d)'
    BY <2>2 DEF Doomed
  <2>4. d \in Listed \cup {c} => d \in Listed' \/ Doomed(d)'
    BY <2>1, <2>2 DEF Doomed
  <2>5. QED
    BY <1>1, <2>2, <2>3, <2>4 DEF DirOf
<1>6. ASSUME NEW c \in Creators,
             GutDropped(c) \/ RemoveDropped(c) \/ RemoveDroppedFails(c)
      PROVE  DirOf(d)'
  <2>1. /\ pc[c] = "pruning" /\ UNCHANGED <<index, pc>>
        /\ stranded \subseteq stranded'
        /\ \A e \in Creators \ {c} : todo'[e] = todo[e]
        /\ todo[c] \subseteq indexed
    <3>1. /\ pc[c] = "pruning" /\ UNCHANGED <<index, pc>>
          /\ stranded \subseteq stranded'
          /\ \A e \in Creators \ {c} : todo'[e] = todo[e]
      BY <1>6 DEF GutDropped, RemoveDropped, RemoveDroppedFails
    <3>2. todo[c] \subseteq indexed
      BY <1>6 DEF StoreInv, ListInv
    <3>3. QED
      BY <3>1, <3>2
  <2> DEFINE Ended == {"pruning", "done", "crashed", "failed"}
  <2>2. CASE GutDropped(c)
    <3>1. PICK x \in todo[c], left \in {"gutted", "part"} :
              dir' = [dir EXCEPT ![x] = left] /\ dir[x] \in {"full", "gutted"}
      BY <2>2 DEF GutDropped, Gut, Remains
    <3>2. todo' = todo /\ stranded' = stranded
      BY <2>2 DEF GutDropped
    <3>3. CASE d # x
      BY <1>3, <2>1, <3>1, <3>2, <3>3
    <3>4. CASE d = x
      <4>1. Doomed(d)' /\ pc[d] \in Ended
        BY <2>1, <3>1, <3>2, <3>4 DEF Doomed, StoreInv, ListInv, Indexable
      <4>2. dir[d] # "none" /\ dir'[d] # "none"
        BY <3>1, <3>4
      <4>3. QED
        BY <1>1, <2>1, <3>2, <4>1, <4>2 DEF DirOf
    <3>5. QED
      BY <3>3, <3>4
  <2>3. CASE RemoveDropped(c)
    <3>1. PICK x \in todo[c] : /\ dir' = [dir EXCEPT ![x] = "none"]
                               /\ todo' = [todo EXCEPT ![c] = @ \ {x}]
                               /\ stranded' = stranded
      BY <2>3 DEF RemoveDropped, RemoveDir
    <3>2. CASE d # x
      <4>1. Doomed(d) => Doomed(d)'
        BY <2>1, <3>1, <3>2 DEF Doomed
      <4>2. QED
        BY <1>1, <1>2, <2>1, <3>1, <3>2, <4>1 DEF DirOf
    <3>3. CASE d = x
      <4>1. pc[d] \in Ended /\ dir'[d] = "none"
        BY <2>1, <3>1, <3>3 DEF StoreInv, ListInv, Indexable
      <4>2. QED
        BY <2>1, <4>1 DEF DirOf
    <3>4. QED
      BY <3>2, <3>3
  <2>4. CASE RemoveDroppedFails(c)
    <3>1. PICK x \in todo[c] : /\ todo' = [todo EXCEPT ![c] = @ \ {x}]
                               /\ stranded' = stranded \cup {x}
      BY <2>4 DEF RemoveDroppedFails
    <3>2. Doomed(d) => Doomed(d)' \/ d \in stranded'
      BY <2>1, <3>1 DEF Doomed
    <3>3. dir' = dir
      BY <2>4 DEF RemoveDroppedFails
    <3>4. d \in stranded' => pc'[d] \in Indexable
      BY <1>1, <2>1, <3>1 DEF DirOf, StoreInv, ListInv
    <3>5. QED
      BY <1>1, <1>2, <2>1, <3>2, <3>3, <3>4 DEF DirOf
  <2>5. QED
    BY <1>6, <2>2, <2>3, <2>4
<1>7. ASSUME NEW c \in Creators, Return(c) PROVE DirOf(d)'
  <2>1. /\ pc[c] = "pruning" /\ todo[c] = {} /\ pc' = [pc EXCEPT ![c] = "done"]
        /\ UNCHANGED <<index, dir, stranded, todo>>
    BY <1>7 DEF Return
  <2>2. Doomed(d) => Doomed(d)'
    BY <2>1 DEF Doomed
  <2>3. QED
    BY <1>1, <1>2, <2>1, <2>2 DEF DirOf
<1>8. ASSUME NEW c \in Creators, Crash(c) PROVE DirOf(d)'
  <2>1. /\ Active(c) /\ pc' = [pc EXCEPT ![c] = "crashed"]
        /\ todo' = [todo EXCEPT ![c] = {}]
        /\ stranded' = stranded \cup {x \in Removing(c) : dir[x] # "none"}
        /\ UNCHANGED <<index, dir>>
    BY <1>8 DEF Crash
  <2>2. ASSUME Doomed(d), dir[d] # "none" PROVE Doomed(d)' \/ d \in stranded'
    <3>1. PICK e \in Creators : pc[e] = "pruning" /\ d \in todo[e]
      BY <2>2 DEF Doomed
    <3>2. CASE e = c
      BY <2>1, <2>2, <3>1, <3>2 DEF Removing
    <3>3. CASE e # c
      BY <2>1, <3>1, <3>3 DEF Doomed
    <3>4. QED
      BY <3>2, <3>3
  <2>3. CASE d = c
    <3>1. dir[d] = "gutted" => d \in stranded' \/ Doomed(d)'
      BY <1>1, <2>1, <2>2, <2>3 DEF DirOf, Removing
    <3>2. QED
      BY <2>1, <2>3, <3>1 DEF DirOf
  <2>4. CASE d # c
    <3>1. Removing(c) \subseteq indexed \cup {c}
      BY <1>8 DEF Removing, StoreInv, ListInv
    <3>2. d \in stranded' => pc'[d] \in Indexable
      BY <1>1, <2>1, <2>4, <3>1 DEF DirOf, StoreInv, ListInv
    <3>3. QED
      BY <1>1, <1>2, <2>1, <2>2, <2>4, <3>2 DEF DirOf
  <2>5. QED
    BY <2>3, <2>4
<1>9. ASSUME NEW s \in Scanners, Publish(s) PROVE DirOf(d)'
  <2>1. /\ \A c \in Creators : ~Active(c)
        /\ Listed' = Described
        /\ UNCHANGED <<dir, pc, todo, stranded>>
    BY <1>9, PublishAtRest
  <2>2. ~Doomed(d)
    BY <2>1 DEF Doomed, Active
  <2>3. pc[d] = "done" /\ dir[d] # "none" => d \in Described \/ d \in stranded
    BY <1>1, <2>2 DEF DirOf, Described
  <2>4. pc[d] \notin {"copying", "described", "failing", "pruning"}
    BY <2>1 DEF Active
  <2>5. QED
    BY <1>1, <2>1, <2>2, <2>3, <2>4 DEF DirOf
<1>10. ASSUME NEW s \in Scanners, Scan(s) PROVE DirOf(d)'
  BY <1>3, <1>10 DEF Scan
<1>11. CASE UNCHANGED vars
  BY <1>3, <1>11 DEF vars
<1>12. QED
  BY <1>4, <1>5, <1>6, <1>7, <1>8, <1>9, <1>10, <1>11 DEF Next, CreatorStep

\* What an undisturbed rebuild has read stays true: of the calls, only one that
\* begins could change it, and it ends the calm.
LEMMA CalmStep ==
    ASSUME Types, StoreInv, [Next]_vars, ~raced'
    PROVE  \A s \in Scanners : CalmOf(s)'
<1> USE DEF Types, storeVars, historyVars
<1> SUFFICES ASSUME NEW s \in Scanners
             PROVE  CalmOf(s)'
  OBVIOUS
<1>1. CalmOf(s)
  BY DEF StoreInv
<1>2. ASSUME calm'[s] = calm[s], seen'[s] = seen[s], UNCHANGED <<pc, dir>>
      PROVE  CalmOf(s)'
  BY <1>1, <1>2 DEF CalmOf, Active, Described
<1>3. ASSUME NEW c \in Creators, Begin(c) PROVE CalmOf(s)'
  BY <1>3 DEF Begin, Disturb, CalmOf
<1>4. ASSUME NEW c \in Creators, CreatorStep(c), ~Begin(c) PROVE CalmOf(s)'
  <2>1. Active(c) /\ calm' = calm /\ seen' = seen
    BY <1>4 DEF CreatorStep, Describe, Insert, CopyFails, IndexFails, GutOwn,
       RemoveOwn, RemoveOwnFails, GutDropped, RemoveDropped,
       RemoveDroppedFails, Return, Crash, Active
  <2>2. QED
    BY <1>1, <2>1 DEF CalmOf
<1>5. ASSUME NEW t \in Scanners, Scan(t) PROVE CalmOf(s)'
  <2>1. CASE s # t
    BY <1>2, <1>5, <2>1 DEF Scan
  <2>2. CASE s = t
    <3>1. Described \in SUBSET Creators
      BY DEF Described
    <3>2. PICK records \in Listings(Described) :
              seen' = [seen EXCEPT ![t] = records]
      BY <1>5 DEF Scan
    <3>3. IsInjective(records) /\ Range(records) = Described
      BY <3>1, <3>2, ListingType
    <3>4. /\ seen'[s] = records /\ UNCHANGED <<pc, dir>>
          /\ calm'[s] = \A c \in Creators : ~Active(c)
      BY <1>5, <2>2, <3>2 DEF Scan
    <3>5. QED
      BY <3>3, <3>4 DEF CalmOf, Active, Described
  <2>3. QED
    BY <2>1, <2>2
<1>6. ASSUME NEW t \in Scanners, Publish(t) PROVE CalmOf(s)'
  <2>1. CASE s # t
    BY <1>2, <1>6, <2>1 DEF Publish
  <2>2. CASE s = t
    BY <1>6, <2>2 DEF Publish, CalmOf
  <2>3. QED
    BY <2>1, <2>2
<1>7. CASE UNCHANGED vars
  BY <1>2, <1>7 DEF vars
<1>8. QED
  BY <1>3, <1>4, <1>5, <1>6, <1>7 DEF Next

\* Newer checkpoints that were indexed stay so in history.
LEMMA KeptStep ==
    ASSUME Types, StampInv, StoreInv, [Next]_vars, ~raced'
    PROVE  KeptInv'
<1> USE DEF Types, storeVars, historyVars
<1>1. \A c \in indexed : pc[c] # "new" /\ stamp[c] > 0
  <2>1. \A c \in indexed : c \in Creators /\ pc[c] # "new"
    BY DEF StoreInv, ListInv, Indexable
  <2>2. QED
    BY <2>1 DEF StampInv
<1>2. ASSUME indexed \subseteq indexed', indexed' \subseteq Creators,
             \A c \in indexed : stamp'[c] = stamp[c],
             NEW c \in indexed, c \notin Listed
      PROVE  Cardinality({d \in indexed : Newer(d, c)}')  >= Cap
  <2> DEFINE A == {d \in indexed : Newer(d, c)}
             B == {d \in indexed : Newer(d, c)}'
  <2>1. A \subseteq B
    BY <1>2 DEF Newer
  <2>2. IsFiniteSet(B) /\ B \subseteq Creators
    BY <1>2, FiniteAssumption, FS_Subset
  <2>3. IsFiniteSet(A) /\ Cardinality(A) >= Cap
    BY <1>2, FiniteAssumption, FS_Subset DEF StoreInv, KeptInv
  <2> HIDE DEF A, B
  <2>4. Cardinality(A) =< Cardinality(B)
    BY <2>1, <2>2, FS_Subset
  <2>5. Cardinality(A) \in Nat /\ Cardinality(B) \in Nat
    BY <2>2, <2>3, FS_CardinalityType
  <2>6. QED
    BY <2>3, <2>4, <2>5, CapAssumption DEF B
<1>3. indexed' \subseteq Creators
  BY TypesStep
<1>4. index' = index => Listed' = Listed
  BY DEF Listed
<1>5. ASSUME index' = index, indexed' = indexed,
             \A c \in indexed : stamp'[c] = stamp[c]
      PROVE  KeptInv'
  BY <1>2, <1>3, <1>4, <1>5 DEF KeptInv
<1>6. ASSUME NEW c \in Creators, Begin(c) PROVE KeptInv'
  <2>1. c \notin indexed
    BY <1>1, <1>6 DEF Begin
  <2>2. QED
    BY <1>5, <1>6, <2>1 DEF Begin
<1>7. ASSUME NEW c \in Creators, Insert(c) PROVE KeptInv'
  <2>1. /\ Listed' = (Listed \cup {c}) \ todo'[c]
        /\ \A d \in todo'[c] :
               Cardinality({e \in indexed' : Newer(e, d)}) >= Cap
    BY <1>7, InsertSplits DEF StoreInv
  <2>2. stamp' = stamp /\ indexed' = indexed \cup {c}
    BY <1>7 DEF Insert
  <2>3. ASSUME NEW d \in indexed', d \notin Listed'
        PROVE  Cardinality({e \in indexed : Newer(e, d)}') >= Cap
    <3>1. CASE d \in todo'[c]
      BY <2>1, <2>2, <3>1 DEF Newer
    <3>2. CASE d \notin todo'[c]
      <4>1. d \in indexed /\ d \notin Listed
        BY <2>1, <2>2, <2>3, <3>2
      <4>2. QED
        BY <1>2, <1>3, <2>2, <4>1
    <3>3. QED
      BY <3>1, <3>2
  <2>4. QED
    BY <2>3 DEF KeptInv
<1>8. ASSUME NEW c \in Creators, CreatorStep(c), ~Begin(c), ~Insert(c)
      PROVE  KeptInv'
  BY <1>5, <1>8 DEF CreatorStep, Describe, CopyFails, IndexFails, GutOwn,
     RemoveOwn, RemoveOwnFails, GutDropped, RemoveDropped, RemoveDroppedFails,
     Return, Crash
<1>9. ASSUME NEW s \in Scanners, Scan(s) PROVE KeptInv'
  BY <1>5, <1>9 DEF Scan
<1>10. ASSUME NEW s \in Scanners, Publish(s) PROVE KeptInv'
  <2>1. /\ Listed' = Described /\ indexed' = indexed \cup Described
        /\ stamp' = stamp
    BY <1>10, PublishAtRest
  <2>2. Listed \subseteq Described
    BY DEF StoreInv, ListInv, Described
  <2>3. ASSUME NEW d \in indexed', d \notin Listed'
        PROVE  Cardinality({e \in indexed : Newer(e, d)}') >= Cap
    BY <1>2, <1>3, <2>1, <2>2, <2>3
  <2>4. QED
    BY <2>3 DEF KeptInv
<1>11. CASE UNCHANGED vars
  BY <1>5, <1>11 DEF vars
<1>12. QED
  BY <1>6, <1>7, <1>8, <1>9, <1>10, <1>11 DEF Next

-----------------------------------------------------------------------------
(* The invariants of the specification *)

LEMMA IInvInit ==
    ASSUME Init
    PROVE  IInv
<1>1. Types
  <2>1. index \in Seq(Creators)
    BY DEF Init
  <2>2. dir \in [Creators -> DirStates] /\ pc \in [Creators -> PCs]
    BY DEF Init, DirStates, PCs
  <2>3. seen \in [Scanners -> Seq(Creators) \cup {Unread}]
    BY DEF Init
  <2>4. QED
    BY <2>1, <2>2, <2>3 DEF Init, Types
<1>2. Stamped = {} /\ Cardinality(Stamped) = 0
  <2>1. Stamped = {}
    BY DEF Init, Stamped
  <2>2. QED
    BY <2>1, FS_EmptySet
<1>3. StampInv
  BY <1>2 DEF Init, StampInv
<1>4. Listed = {} /\ IsInjective(index)
  BY DEF Init, Listed, Range, IsInjective
<1>5. StoreInv
  BY <1>4 DEF Init, StoreInv, DirOf, ListInv, CalmOf, KeptInv
<1>6. QED
  BY <1>1, <1>3, <1>5 DEF IInv

LEMMA IInvStep ==
    ASSUME IInv, [Next]_vars
    PROVE  IInv'
<1>1. raced => raced'
  BY DEF IInv, Types, Next, CreatorStep, Begin, Describe, Insert, CopyFails,
     IndexFails, GutOwn, RemoveOwn, RemoveOwnFails, GutDropped, RemoveDropped,
     RemoveDroppedFails, Return, Crash, Scan, Publish, historyVars, vars
<1>2. Types' /\ StampInv'
  BY TypesStep, StampStep DEF IInv
<1>3. ASSUME ~raced' PROVE StoreInv'
  BY <1>1, <1>3, DirStep, ListStep, CalmStep, KeptStep DEF IInv, StoreInv
<1>4. QED
  BY <1>2, <1>3 DEF IInv

LEMMA Invariant == Spec => []IInv
<1>1. Init => IInv
  BY IInvInit
<1>2. IInv /\ [Next]_vars => IInv'
  BY IInvStep
<1>3. QED
  BY <1>1, <1>2, PTL DEF Spec

\* Every variable keeps its type, and the index lists no checkpoint twice, so
\* that dropping a record never removes the directory of a retained one.
\* (_select_retained_checkpoints)
THEOREM TypeCorrect == Spec => []TypeOK
<1>1. IInv => TypeOK
  <2> SUFFICES ASSUME IInv PROVE TypeOK
    OBVIOUS
  <2>1. stamp \in [Creators -> 0..Cardinality(Creators)]
    <3>1. ASSUME NEW c \in Creators
          PROVE  stamp[c] \in Nat /\ stamp[c] =< Cardinality(Stamped)
      BY DEF IInv, Types, StampInv
    <3>2. Cardinality(Creators) \in Nat
      BY FiniteAssumption, FS_CardinalityType
    <3>3. \A c \in Creators : stamp[c] \in 0..Cardinality(Creators)
      BY <3>1, <3>2, NextStampType
    <3>4. QED
      BY <3>3 DEF IInv, Types
  <2>2. raced \/ IsInjective(index)
    BY DEF IInv, StoreInv, ListInv
  <2>3. QED
    BY <2>1, <2>2 DEF IInv, Types, PCs, TypeOK
<1>2. QED
  BY <1>1, Invariant, PTL

\* Every checkpoint the index lists can be restored, whatever creates overlap,
\* fail or die, and whatever removals fail; only a ruin that a rebuild found is
\* excepted.  (create_checkpoint, _rebuild_index_from_checkpoint_metadata)
THEOREM ListedCanBeRestored == Spec => []ListedAreWhole
<1>1. IInv => ListedAreWhole
  BY DEF IInv, StoreInv, ListInv, ListedAreWhole
<1>2. QED
  BY <1>1, Invariant, PTL

\* A checkpoint the index has lost has Cap newer ones, in whatever order the
\* calls got the lock.  (_select_retained_checkpoints)
THEOREM NewestStay == Spec => []NewestAreKept
<1>1. IInv => NewestAreKept
  BY DEF IInv, StoreInv, KeptInv, NewestAreKept
<1>2. QED
  BY <1>1, Invariant, PTL

\* A directory belongs to a listed checkpoint, to a call that runs or has yet
\* to remove it, to a death, or to a removal that was cut short or gave up.
\* (create_checkpoint, shutil.rmtree with ignore_errors)
THEOREM DirectoriesAreAccounted == Spec => []NoDirectoryIsForgotten
<1>1. IInv => NoDirectoryIsForgotten
  <2> SUFFICES ASSUME IInv, ~raced, NEW c \in Creators, dir[c] # "none"
               PROVE  \/ c \in Listed \/ Active(c) \/ pc[c] = "crashed"
                      \/ c \in stranded
                      \/ \E d \in Creators : pc[d] = "pruning" /\ c \in todo[d]
    BY DEF NoDirectoryIsForgotten
  <2>1. DirOf(c) /\ pc[c] \in PCs
    BY DEF IInv, StoreInv, Types
  <2>2. QED
    BY <2>1 DEF DirOf, Doomed, PCs, Active
<1>2. QED
  BY <1>1, Invariant, PTL
=============================================================================
