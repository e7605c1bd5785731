------------------------- MODULE TrigramIndexProofs -------------------------
(***************************************************************************)
(* What the trigram index guarantees for any tree and any number of        *)
(* searches that build, save and query it while the tree changes.          *)
(*                                                                         *)
(* StatInv says what an entry of an index, saved or in memory, knows of    *)
(* the file it is for: if the file still has the stat of the entry, its    *)
(* text is that of the postings.  LeakInv follows the ignored files, and   *)
(* DueInv the hits a search owes, through its steps.                       *)
(***************************************************************************)
EXTENDS TrigramIndex, TLAPS, FiniteSetTheorems, SequenceTheorems

\* A walk: files and their stat.
IsWalk(walk) ==
    /\ DOMAIN walk \subseteq Files
    /\ \A f \in DOMAIN walk : walk[f] \in Nat

-----------------------------------------------------------------------------
(* What an update makes of an index *)

\* The number of the entries an update adds.
LEMMA AddedIsFinite ==
    ASSUME NEW x, NEW walk, IsWalk(walk)
    PROVE  Cardinality(Added(x, walk)) \in Nat
<1>1. Added(x, walk) \subseteq Files
  BY DEF Added, IsWalk
<1> QED BY <1>1, FilesAssumption, FS_Subset, FS_CardinalityType

\* An update keeps the entries of an index, but for tombstones and new stats, and
\* appends one for each file that is new.
LEMMA UpdatedEntries ==
    ASSUME NEW x, IsIndex(x), NEW walk, IsWalk(walk),
           NEW order \in Bijection(1 .. Cardinality(Added(x, walk)), Added(x, walk)),
           NEW y, y = Updated(x, walk, order)
    PROVE  /\ Len(x.files) \in Nat /\ Cardinality(Added(x, walk)) \in Nat
           /\ DOMAIN x.files = 1 .. Len(x.files)
           /\ y \in Seq(Entries)
           /\ DOMAIN y = 1 .. Len(x.files) + Cardinality(Added(x, walk))
           /\ \A i \in 1 .. Len(x.files) :
                /\ y[i].path = x.files[i].path
                /\ ~y[i].deleted <=> i \in Live(x) \ Deleted(x, walk)
                /\ i \notin Modified(x, walk) => y[i].stat = x.files[i].stat
                /\ i \in Modified(x, walk) => y[i].stat = walk[y[i].path]
           /\ \A i \in DOMAIN y : i > Len(x.files) =>
                /\ ~y[i].deleted
                /\ y[i].path \in Added(x, walk)
                /\ y[i].stat = walk[y[i].path]
           /\ \A i, j \in DOMAIN y :
                i > Len(x.files) /\ j > Len(x.files) /\ y[i].path = y[j].path => i = j
           /\ \A f \in Added(x, walk) :
                \E i \in DOMAIN y : i > Len(x.files) /\ y[i].path = f
<1> DEFINE n == Len(x.files)
           k == Cardinality(Added(x, walk))
<1>1. n \in Nat /\ x.files \in [1 .. n -> Entries] /\ k \in Nat
  BY LenProperties, AddedIsFinite DEF IsIndex
<1>2. /\ order \in [1 .. k -> Added(x, walk)]
      /\ \A i, j \in 1 .. k : order[i] = order[j] => i = j
      /\ \A f \in Added(x, walk) : \E i \in 1 .. k : order[i] = f
  BY DEF Bijection, Injection, IsInjective, Surjection
<1>3. y = [i \in 1 .. n + k |->
             IF i > n
             THEN [path |-> order[i - n], stat |-> walk[order[i - n]], deleted |-> FALSE]
             ELSE IF i \in Deleted(x, walk) THEN [x.files[i] EXCEPT !.deleted = TRUE]
             ELSE IF i \in Modified(x, walk)
                  THEN [x.files[i] EXCEPT !.stat = walk[x.files[i].path]]
             ELSE x.files[i]]
  BY DEF Updated
<1>4. Added(x, walk) \subseteq DOMAIN walk
  BY DEF Added
<1> HIDE DEF n, k
<1>5. ASSUME NEW i \in 1 .. n + k, i > n
      PROVE  /\ i - n \in 1 .. k
             /\ y[i].path = order[i - n] /\ y[i].stat = walk[order[i - n]]
             /\ ~y[i].deleted
             /\ y[i] \in Entries
  <2>1. i - n \in 1 .. k
    BY <1>1, <1>5
  <2>2. y[i] = [path |-> order[i - n], stat |-> walk[order[i - n]], deleted |-> FALSE]
    BY <1>3, <1>5
  <2>3. order[i - n] \in DOMAIN walk
    BY <1>2, <1>4, <2>1
  <2> QED BY <2>1, <2>2, <2>3 DEF IsWalk, Entries
<1>6. ASSUME NEW i \in 1 .. n
      PROVE  /\ y[i] \in Entries
             /\ y[i].path = x.files[i].path
             /\ ~y[i].deleted <=> i \in Live(x) \ Deleted(x, walk)
             /\ i \notin Modified(x, walk) => y[i].stat = x.files[i].stat
             /\ i \in Modified(x, walk) => y[i].stat = walk[y[i].path]
  <2>1. y[i] = IF i \in Deleted(x, walk) THEN [x.files[i] EXCEPT !.deleted = TRUE]
               ELSE IF i \in Modified(x, walk)
                    THEN [x.files[i] EXCEPT !.stat = walk[x.files[i].path]]
               ELSE x.files[i]
    BY <1>1, <1>3
  <2>2. x.files[i] \in Entries
    BY <1>1
  <2>3. i \in Modified(x, walk) => /\ x.files[i].path \in DOMAIN walk
                                   /\ i \in Live(x) /\ i \notin Deleted(x, walk)
    BY DEF Modified, Deleted
  <2>4. i \in Deleted(x, walk) => i \in Live(x)
    BY DEF Deleted
  <2>5. i \in Live(x) <=> ~x.files[i].deleted
    BY <1>1 DEF Live
  <2> QED BY <2>1, <2>2, <2>3, <2>4, <2>5 DEF IsWalk, Entries
<1>7. y \in [1 .. n + k -> Entries] /\ n + k \in Nat
  <2>1. \A i \in 1 .. n + k : y[i] \in Entries
    <3> TAKE i \in 1 .. n + k
    <3>1. CASE i > n
      BY <1>5, <3>1
    <3>2. CASE ~(i > n)
      <4>1. i \in 1 .. n
        BY <1>1, <3>2
      <4> QED BY <1>6, <4>1
    <3> QED BY <3>1, <3>2
  <2> QED BY <1>1, <1>3, <2>1
<1>8. y \in Seq(Entries)
  BY <1>7, SeqDef
<1>9. ASSUME NEW i \in 1 .. n + k, NEW j \in 1 .. n + k, i > n, j > n,
             y[i].path = y[j].path
      PROVE  i = j
  <2>1. i - n \in 1 .. k /\ j - n \in 1 .. k /\ order[i - n] = order[j - n]
    BY <1>5, <1>9
  <2>2. i - n = j - n
    BY <1>2, <2>1
  <2> QED BY <1>1, <2>2
<1>10. ASSUME NEW f \in Added(x, walk)
       PROVE  \E i \in 1 .. n + k : i > n /\ y[i].path = f
  <2>1. PICK i \in 1 .. k : order[i] = f
    BY <1>2
  <2>2. n + i \in 1 .. n + k /\ n + i > n /\ (n + i) - n = i
    BY <1>1
  <2>3. y[n + i].path = order[(n + i) - n]
    BY <1>5, <2>2
  <2> QED BY <2>1, <2>2, <2>3
<1>11. ASSUME NEW i \in 1 .. n + k, i > n
       PROVE  /\ ~y[i].deleted
              /\ y[i].path \in Added(x, walk)
              /\ y[i].stat = walk[y[i].path]
  BY <1>2, <1>5, <1>11
<1>12. DOMAIN y = 1 .. n + k /\ DOMAIN x.files = 1 .. n
  BY <1>1, <1>7
<1> QED BY <1>1, <1>6, <1>8, <1>9, <1>10, <1>11, <1>12 DEF n, k

\* What an update leaves: the entries are those of the walk, and each is either one
\* the index had, untouched, or one whose file was read.
LEMMA RebuiltIsIndex ==
    ASSUME NEW x, IsIndex(x), NEW walk, IsWalk(walk),
           NEW order \in Bijection(1 .. Cardinality(Added(x, walk)), Added(x, walk)),
           NEW failed, NEW m \in BOOLEAN,
           NEW y, y = Rebuilt(x, walk, order, failed, m)
    PROVE  /\ IsIndex(y) /\ y.mode = m /\ y.print = x.print
           /\ LivePaths(y) = DOMAIN walk
           /\ \A i \in Live(y) : y.files[i].stat = walk[y.files[i].path]
           /\ \A i \in Live(y) :
                \/ /\ i \in Live(x) /\ y.files[i].path = x.files[i].path
                   /\ y.files[i].stat = x.files[i].stat
                   /\ \A h \in Hits : <<i, h>> \in y.postings <=> <<i, h>> \in x.postings
                \/ /\ y.files[i].path \in
                          Added(x, walk) \cup {x.files[j].path : j \in Modified(x, walk)}
                   /\ \A h \in Hits : <<i, h>> \in y.postings <=>
                          /\ y.files[i].path \notin failed
                          /\ h \in text[y.files[i].path]
<1> DEFINE n == Len(x.files)
           k == Cardinality(Added(x, walk))
           files == Updated(x, walk, order)
           gone == Deleted(x, walk) \cup Modified(x, walk)
<1>1. /\ y.files = files /\ y.mode = m /\ y.print = x.print
      /\ y.postings = {p \in x.postings : p[1] \notin gone}
                         \cup {p \in Fresh(x, walk) \X Hits :
                                 /\ files[p[1]].path \notin failed
                                 /\ p[2] \in text[files[p[1]].path]}
      /\ y = [files |-> y.files, postings |-> y.postings, mode |-> y.mode,
               print |-> y.print]
  BY DEF Rebuilt
<1>2. /\ n \in Nat /\ k \in Nat /\ DOMAIN x.files = 1 .. n
      /\ files \in Seq(Entries) /\ DOMAIN files = 1 .. n + k
  BY UpdatedEntries
<1>3. \A i \in 1 .. n :
        /\ files[i].path = x.files[i].path
        /\ ~files[i].deleted <=> i \in Live(x) \ Deleted(x, walk)
        /\ i \notin Modified(x, walk) => files[i].stat = x.files[i].stat
        /\ i \in Modified(x, walk) => files[i].stat = walk[files[i].path]
  BY UpdatedEntries
<1>4. \A i \in 1 .. n + k : i > n =>
        /\ ~files[i].deleted
        /\ files[i].path \in Added(x, walk)
        /\ files[i].stat = walk[files[i].path]
  BY UpdatedEntries
<1>5. \A i, j \in 1 .. n + k :
        i > n /\ j > n /\ files[i].path = files[j].path => i = j
  BY UpdatedEntries
<1>6. \A f \in Added(x, walk) : \E i \in 1 .. n + k : i > n /\ files[i].path = f
  BY UpdatedEntries
<1>7. Fresh(x, walk) = Modified(x, walk) \cup (n + 1 .. n + k)
  BY DEF Fresh
<1>8. /\ Live(x) \subseteq 1 .. n /\ x.postings \subseteq Live(x) \X Hits
      /\ Modified(x, walk) \subseteq Live(x) \ Deleted(x, walk)
      /\ \A i, j \in Live(x) : x.files[i].path = x.files[j].path => i = j
  BY <1>2 DEF IsIndex, Live, Modified, Deleted
<1> HIDE DEF n, k, files
<1>9. Live(y) = (Live(x) \ Deleted(x, walk)) \cup (n + 1 .. n + k)
  <2>1. Live(y) = {i \in 1 .. n + k : ~files[i].deleted}
    BY <1>1, <1>2 DEF Live
  <2>2. \A i \in 1 .. n + k : i \in 1 .. n \/ i \in n + 1 .. n + k
    BY <1>2
  <2>3. \A i \in n + 1 .. n + k : i \in 1 .. n + k /\ i > n
    BY <1>2
  <2>4. \A i \in 1 .. n : i \in 1 .. n + k
    BY <1>2
  <2> QED BY <1>3, <1>4, <1>8, <2>1, <2>2, <2>3, <2>4
<1>10. \A i \in Live(x) \ Deleted(x, walk) :
         /\ i \in 1 .. n
         /\ files[i].path = x.files[i].path /\ files[i].path \in LivePaths(x)
         /\ files[i].path \in DOMAIN walk /\ files[i].stat = walk[files[i].path]
  BY <1>3, <1>8 DEF Deleted, Modified, LivePaths
<1>11. \A i \in n + 1 .. n + k :
         /\ i \in 1 .. n + k /\ i > n
         /\ files[i].path \in Added(x, walk) /\ files[i].stat = walk[files[i].path]
         /\ files[i].path \in DOMAIN walk /\ files[i].path \notin LivePaths(x)
  <2>1. \A i \in n + 1 .. n + k : i \in 1 .. n + k /\ i > n
    BY <1>2
  <2> QED BY <1>4, <2>1 DEF Added
<1>12. LivePaths(y) = DOMAIN walk
  <2>1. LivePaths(y) \subseteq DOMAIN walk
    BY <1>1, <1>9, <1>10, <1>11 DEF LivePaths
  <2>2. ASSUME NEW f \in DOMAIN walk
        PROVE  f \in LivePaths(y)
    <3>1. CASE f \in LivePaths(x)
      <4>1. PICK i \in Live(x) : x.files[i].path = f
        BY <3>1 DEF LivePaths
      <4>2. i \in Live(x) \ Deleted(x, walk)
        BY <4>1 DEF Deleted
      <4> QED BY <1>1, <1>9, <1>10, <4>1, <4>2 DEF LivePaths
    <3>2. CASE f \notin LivePaths(x)
      <4>1. PICK i \in 1 .. n + k : i > n /\ files[i].path = f
        BY <1>6, <3>2 DEF Added
      <4>2. i \in n + 1 .. n + k
        BY <1>2, <4>1
      <4> QED BY <1>1, <1>9, <4>1, <4>2 DEF LivePaths
    <3> QED BY <3>1, <3>2
  <2> QED BY <2>1, <2>2
<1>13. \A i \in Live(y) : y.files[i].stat = walk[y.files[i].path]
  BY <1>1, <1>9, <1>10, <1>11
<1>14. \A i, j \in Live(y) : y.files[i].path = y.files[j].path => i = j
  BY <1>1, <1>5, <1>8, <1>9, <1>10, <1>11
<1>15. Fresh(x, walk) \subseteq Live(y)
  BY <1>7, <1>8, <1>9
<1>16. y.postings \subseteq Live(y) \X Hits
  <2>1. \A p \in x.postings : p[1] \notin gone => p \in Live(y) \X Hits
    BY <1>8, <1>9
  <2> QED BY <1>1, <1>15, <2>1
<1>17. IsIndex(y)
  BY <1>1, <1>2, <1>14, <1>16 DEF IsIndex
<1>18. ASSUME NEW i \in Live(y), i \in Fresh(x, walk)
       PROVE  /\ y.files[i].path \in
                     Added(x, walk) \cup {x.files[j].path : j \in Modified(x, walk)}
              /\ \A h \in Hits : <<i, h>> \in y.postings <=>
                     /\ y.files[i].path \notin failed
                     /\ h \in text[y.files[i].path]
  <2>1. y.files[i].path \in
          Added(x, walk) \cup {x.files[j].path : j \in Modified(x, walk)}
    BY <1>1, <1>3, <1>7, <1>8, <1>11, <1>18
  <2>2. \A h \in Hits : <<i, h>> \notin {p \in x.postings : p[1] \notin gone}
    <3>1. i \in gone \/ i \notin 1 .. n
      BY <1>2, <1>7, <1>18
    <3> QED BY <1>8, <3>1
  <2>3. \A h \in Hits : <<i, h>> \in Fresh(x, walk) \X Hits
    BY <1>18
  <2> QED BY <1>1, <2>1, <2>2, <2>3
<1>19. ASSUME NEW i \in Live(y), i \notin Fresh(x, walk)
       PROVE  /\ i \in Live(x) /\ y.files[i].path = x.files[i].path
              /\ y.files[i].stat = x.files[i].stat
              /\ \A h \in Hits : <<i, h>> \in y.postings <=> <<i, h>> \in x.postings
  <2>1. i \in Live(x) \ Deleted(x, walk) /\ i \notin Modified(x, walk)
    BY <1>7, <1>9, <1>19
  <2>2. \A h \in Hits : <<i, h>> \in y.postings <=> <<i, h>> \in x.postings
    BY <1>1, <1>19, <2>1
  <2> QED BY <1>1, <1>3, <1>8, <2>1, <2>2
<1>20. \A i \in Live(y) :
         \/ /\ i \in Live(x) /\ y.files[i].path = x.files[i].path
            /\ y.files[i].stat = x.files[i].stat
            /\ \A h \in Hits : <<i, h>> \in y.postings <=> <<i, h>> \in x.postings
         \/ /\ y.files[i].path \in
                   Added(x, walk) \cup {x.files[j].path : j \in Modified(x, walk)}
            /\ \A h \in Hits : <<i, h>> \in y.postings <=>
                   /\ y.files[i].path \notin failed
                   /\ h \in text[y.files[i].path]
  BY <1>18, <1>19
<1> QED BY <1>1, <1>12, <1>13, <1>17, <1>20

-----------------------------------------------------------------------------
(* Types *)

LEMMA EmptyIsIndex == IsIndex(EmptyIndex) /\ Live(EmptyIndex) = {}
BY DEF IsIndex, EmptyIndex, Live

LEMMA EmptiedIsIndex ==
    ASSUME NEW f \in Files
    PROVE  IsIndex(Emptied(f)) /\ Live(Emptied(f)) = {}
<1> DEFINE x == Emptied(f)
<1>1. /\ x = [files |-> x.files, postings |-> x.postings, mode |-> x.mode,
               print |-> x.print]
      /\ x.files = <<[path |-> f, stat |-> 1, deleted |-> TRUE]>>
      /\ x.postings = {} /\ x.mode = FALSE
  BY DEF Emptied
<1>2. [path |-> f, stat |-> 1, deleted |-> TRUE] \in Entries
  BY DEF Entries
<1> HIDE DEF x
<1>3. x.files \in Seq(Entries)
  BY <1>1, <1>2
<1>4. Live(x) = {}
  BY <1>1 DEF Live
<1> QED BY <1>1, <1>3, <1>4 DEF IsIndex, x

\* An index with another fingerprint.
LEMMA PrintedIsIndex ==
    ASSUME NEW x, IsIndex(x), NEW p, NEW y, y = [x EXCEPT !.print = p]
    PROVE  /\ IsIndex(y) /\ y.files = x.files /\ y.postings = x.postings
           /\ y.mode = x.mode /\ Live(y) = Live(x) /\ LivePaths(y) = LivePaths(x)
<1>1. x = [files |-> x.files, postings |-> x.postings, mode |-> x.mode,
           print |-> x.print]
  BY DEF IsIndex
<1>2. y = [files |-> x.files, postings |-> x.postings, mode |-> x.mode, print |-> p]
  BY <1>1
<1>3. y.files = x.files /\ y.postings = x.postings /\ y.mode = x.mode /\ y.print = p
  BY <1>2
<1>4. Live(y) = Live(x)
  BY <1>3 DEF Live
<1>5. LivePaths(y) = LivePaths(x)
  BY <1>3, <1>4 DEF LivePaths
<1> QED BY <1>2, <1>3, <1>4, <1>5 DEF IsIndex

\* What a search looks at is in the files of the index.
LEMMA CandidatesAreLive ==
    ASSUME NEW x, IsIndex(x), NEW full \in BOOLEAN
    PROVE  /\ Candidates(x, full) \subseteq LivePaths(x) \X Hits
           /\ Candidates(x, FALSE) \subseteq Candidates(x, full)
           /\ LivePaths(x) \subseteq Files
<1>1. \A i \in Live(x) : x.files[i] \in Entries /\ x.files[i].path \in LivePaths(x)
  BY ElementOfSeq, LenProperties DEF IsIndex, Live, LivePaths
<1>2. Candidates(x, FALSE) \subseteq LivePaths(x) \X Hits
  BY <1>1 DEF Candidates, IsIndex
<1>3. LivePaths(x) \subseteq Files
  BY <1>1 DEF LivePaths, Entries
<1> QED BY <1>2, <1>3 DEF Candidates

LEMMA TypeInit == Init => TypeOK
<1> SUFFICES ASSUME Init PROVE TypeOK
  OBVIOUS
<1>1. (CHOOSE f \in Files : TRUE) \in Files
  BY FilesAssumption
<1>2. disk \in {Nothing, Alien} \/ IsIndex(disk)
  BY <1>1, EmptiedIsIndex DEF Init
<1> QED BY <1>2, EmptyIsIndex DEF Init, TypeOK, Versions

\* A walk may miss files, which counts as an event.
LEMMA FoundIsWalked == \A m, found : found \in Found(m) => found \subseteq Walked(m)
BY DEF Found

LEMMA EventsGrow ==
    ASSUME edits \in Nat, NEW complete, Count(complete)
    PROVE  edits' \in Nat /\ edits <= edits'
BY DEF Count

\* What a check does: an index that passes has the stat of now for all its entries,
\* and has the files of the hits that are still due.
LEMMA CheckStep ==
    ASSUME TypeOK, NEW c \in Calls, Check(c)
    PROVE  /\ pc[c] = "check" /\ edits' \in Nat /\ edits <= edits'
           /\ UNCHANGED <<stat, text, ignored, disk, route, mode, ix, seen, result,
                          swapped, unread, lapsed>>
           /\ \E l \in {"elsewhere", "walk", "query"} : pc' = [pc EXCEPT ![c] = l]
           /\ \E due \in SUBSET steady[c] : steady' = [steady EXCEPT ![c] = due]
           /\ pc'[c] = "query" =>
                 /\ ix[c].mode = mode[c]
                 /\ \A i \in Live(ix[c]) :
                       stat[ix[c].files[i].path] = ix[c].files[i].stat
                 /\ \A fh \in steady'[c] : fh[1] \in LivePaths(ix[c])
<1>0. DOMAIN pc = Calls /\ DOMAIN steady = Calls /\ edits \in Nat
  BY DEF TypeOK
<1>1. PICK found, sampled \in Found(ix[c].mode) :
        /\ Count(found = Walked(ix[c].mode) /\ sampled = Walked(ix[c].mode))
        /\ IF IsStale(ix[c], mode[c], found, sampled)
           THEN /\ Goto(c, IF route[c] = "warm" THEN "elsewhere" ELSE "walk")
                /\ UNCHANGED steady
           ELSE /\ Goto(c, "query")
                /\ steady' = [steady EXCEPT ![c] =
                                 {fh \in steady[c] : fh[1] \in found \cup LivePaths(ix[c])}]
  BY DEF Check
<1>2. edits' \in Nat /\ edits <= edits'
  BY <1>0, <1>1, EventsGrow
<1>3. /\ pc[c] = "check"
      /\ UNCHANGED <<stat, text, ignored, disk, route, mode, ix, seen, result,
                     swapped, unread, lapsed>>
  BY DEF Check
<1>4. CASE IsStale(ix[c], mode[c], found, sampled)
  <2>1. \E l \in {"elsewhere", "walk"} : pc' = [pc EXCEPT ![c] = l]
    BY <1>1, <1>4 DEF Goto
  <2>2. pc'[c] # "query"
    BY <1>0, <2>1
  <2>3. steady' = [steady EXCEPT ![c] = steady[c]]
    BY <1>0, <1>1, <1>4 DEF TypeOK
  <2> QED BY <1>2, <1>3, <2>1, <2>2, <2>3
<1>5. CASE ~IsStale(ix[c], mode[c], found, sampled)
  <2>1. /\ ix[c].mode = mode[c] /\ found \subseteq LivePaths(ix[c])
        /\ \A i \in Live(ix[c]) : stat[ix[c].files[i].path] = ix[c].files[i].stat
    BY <1>5 DEF IsStale
  <2> DEFINE due == {fh \in steady[c] : fh[1] \in found \cup LivePaths(ix[c])}
  <2>2. pc' = [pc EXCEPT ![c] = "query"] /\ steady' = [steady EXCEPT ![c] = due]
    BY <1>1, <1>5 DEF Goto
  <2>3. due \subseteq steady[c] /\ \A fh \in due : fh[1] \in LivePaths(ix[c])
    BY <2>1
  <2> HIDE DEF due
  <2>4. steady'[c] = due
    BY <1>0, <2>2
  <2> QED BY <1>2, <1>3, <2>1, <2>2, <2>3, <2>4
<1> QED BY <1>4, <1>5

\* What a walk does.
LEMMA WalkStep ==
    ASSUME TypeOK, NEW c \in Calls, Walk(c)
    PROVE  /\ pc[c] = "walk" /\ edits' \in Nat /\ edits <= edits'
           /\ UNCHANGED <<stat, text, ignored, disk, mode, ix, result, swapped, unread,
                          lapsed>>
           /\ pc' = [pc EXCEPT ![c] = "read"]
           /\ route' = [route EXCEPT ![c] = "rebuilt"]
           /\ \E walk, due :
                 /\ seen' = [seen EXCEPT ![c] = walk]
                 /\ steady' = [steady EXCEPT ![c] = due]
                 /\ DOMAIN walk \subseteq Walked(mode[c])
                 /\ \A f \in DOMAIN walk : walk[f] = stat[f]
                 /\ due \subseteq steady[c] /\ \A fh \in due : fh[1] \in DOMAIN walk
<1>1. PICK found \in Found(mode[c]) :
        /\ Count(found = Walked(mode[c]))
        /\ seen' = [seen EXCEPT ![c] = [f \in found |-> stat[f]]]
        /\ steady' = [steady EXCEPT ![c] = {fh \in steady[c] : fh[1] \in found}]
  BY DEF Walk
<1>2. edits' \in Nat /\ edits <= edits'
  BY <1>1, EventsGrow DEF TypeOK
<1>3. found \subseteq Walked(mode[c])
  BY <1>1, FoundIsWalked
<1>4. \E walk, due :
        /\ seen' = [seen EXCEPT ![c] = walk]
        /\ steady' = [steady EXCEPT ![c] = due]
        /\ DOMAIN walk \subseteq Walked(mode[c])
        /\ \A f \in DOMAIN walk : walk[f] = stat[f]
        /\ due \subseteq steady[c] /\ \A fh \in due : fh[1] \in DOMAIN walk
  <2> WITNESS [f \in found |-> stat[f]], {fh \in steady[c] : fh[1] \in found}
  <2> QED BY <1>1, <1>3
<1> QED BY <1>2, <1>4 DEF Walk, Goto

\* What a fingerprint does.
LEMMA ImprintStep ==
    ASSUME TypeOK, NEW c \in Calls, Imprint(c)
    PROVE  /\ pc[c] = "print" /\ edits' \in Nat /\ edits <= edits'
           /\ UNCHANGED <<stat, text, ignored, disk, route, mode, result, swapped, unread,
                          steady, lapsed>>
           /\ pc' = [pc EXCEPT ![c] = "save"]
           /\ seen' = [seen EXCEPT ![c] = <<>>]
           /\ \E p : ix' = [ix EXCEPT ![c] = [ix[c] EXCEPT !.print = p]]
<1>1. PICK sampled \in Found(mode[c]) :
        /\ Count(sampled = Walked(mode[c]))
        /\ ix' = [ix EXCEPT ![c] = [ix[c] EXCEPT !.print = Fingerprint(sampled)]]
  BY DEF Imprint
<1>2. edits' \in Nat /\ edits <= edits'
  BY <1>1, EventsGrow DEF TypeOK
<1> QED BY <1>1, <1>2 DEF Imprint, Goto, historyVars

LEMMA TypeNext == TypeOK /\ [Next]_vars => TypeOK'
<1> SUFFICES ASSUME TypeOK, [Next]_vars PROVE TypeOK'
  OBVIOUS
<1> USE DEF TypeOK
<1>1. ASSUME NEW c \in Calls, Load(c) PROVE TypeOK'
  <2>1. Due(TRUE) \subseteq Files \X Hits /\ Due(FALSE) \subseteq Files \X Hits
    BY DEF Due
  <2>2. PICK r \in {"warm", "asked"}, m \in BOOLEAN :
          /\ route' = [route EXCEPT ![c] = r]
          /\ mode' = [mode EXCEPT ![c] = m]
          /\ \/ Goto(c, "elsewhere") /\ UNCHANGED ix
             \/ Goto(c, "walk") /\ UNCHANGED ix
             \/ Goto(c, "check") /\ ix' = [ix EXCEPT ![c] = disk] /\ IsIndex(disk)
          /\ steady' = [steady EXCEPT ![c] = Due(m)]
    BY <1>1 DEF Load
  <2>3. steady' \in [Calls -> SUBSET (Files \X Hits)]
    BY <2>1, <2>2
  <2>4. ix' = [d \in Calls |-> ix'[d]] /\ \A d \in Calls : IsIndex(ix'[d])
    BY <2>2
  <2> QED BY <1>1, <2>2, <2>3, <2>4 DEF Load, treeVars, Goto
<1>2. ASSUME NEW c \in Calls, Check(c) PROVE TypeOK'
  <2>1. PICK l \in {"elsewhere", "walk", "query"}, due \in SUBSET steady[c] :
          pc' = [pc EXCEPT ![c] = l] /\ steady' = [steady EXCEPT ![c] = due]
    BY <1>2, CheckStep
  <2>2. steady' \in [Calls -> SUBSET (Files \X Hits)]
    BY <1>2, <2>1
  <2>3. \A d \in Calls : pc'[d] = "read" => pc[d] = "read"
    BY <2>1
  <2> QED BY <1>2, <2>1, <2>2, <2>3, CheckStep
<1>3. ASSUME NEW c \in Calls, Walk(c) PROVE TypeOK'
  <2>1. PICK walk, due :
          /\ seen' = [seen EXCEPT ![c] = walk]
          /\ steady' = [steady EXCEPT ![c] = due]
          /\ DOMAIN walk \subseteq Walked(mode[c])
          /\ \A f \in DOMAIN walk : walk[f] = stat[f]
          /\ due \subseteq steady[c]
    BY <1>3, WalkStep
  <2>2. DOMAIN walk \subseteq Files /\ \A f \in DOMAIN walk : walk[f] \in Nat
    BY <2>1 DEF Walked
  <2>3. steady' \in [Calls -> SUBSET (Files \X Hits)]
    BY <1>3, <2>1
  <2>4. /\ seen' = [d \in Calls |-> seen'[d]] /\ seen'[c] = walk
        /\ \A d \in Calls : d # c => seen'[d] = seen[d] /\ pc'[d] = pc[d]
    <3>1. pc' = [pc EXCEPT ![c] = "read"]
      BY <1>3, WalkStep
    <3> QED BY <1>3, <2>1, <3>1
  <2> QED BY <1>3, <2>2, <2>3, <2>4, WalkStep
<1>4. ASSUME NEW c \in Calls, ReadFiles(c) PROVE TypeOK'
  <2> DEFINE walk == seen[c]
             added == Added(ix[c], walk)
             again == {ix[c].files[i].path : i \in Modified(ix[c], walk)}
  <2>1. PICK order \in Bijection(1 .. Cardinality(added), added),
             failed \in SUBSET (added \cup again) :
          /\ edits' = IF failed = {} THEN edits ELSE edits + 1
          /\ ix' = [ix EXCEPT ![c] = Rebuilt(ix[c], walk, order, failed, mode[c])]
          /\ unread' = unread \cup {<<f, walk[f]>> : f \in failed}
          /\ steady' = [d \in Calls |-> {fh \in steady[d] : fh[1] \in failed =>
                           d # c /\ stat[fh[1]] # walk[fh[1]]}]
    BY <1>4 DEF ReadFiles, Count
  <2>2. IsWalk(walk)
    BY <1>4 DEF ReadFiles, IsWalk
  <2>3. IsIndex(Rebuilt(ix[c], walk, order, failed, mode[c]))
    BY <2>2, RebuiltIsIndex
  <2>4. added \cup again \subseteq DOMAIN walk
    BY DEF Added, Modified
  <2>5. unread' \subseteq Versions
    BY <2>1, <2>2, <2>4 DEF IsWalk, Versions
  <2>6. steady' \in [Calls -> SUBSET (Files \X Hits)]
    BY <2>1
  <2>7. ix' = [d \in Calls |-> ix'[d]] /\ \A d \in Calls : IsIndex(ix'[d])
    BY <2>1, <2>3
  <2>8. \A d \in Calls : pc'[d] = "read" => pc[d] = "read"
    BY <1>4 DEF ReadFiles, Goto
  <2>9. edits' \in Nat
    BY <2>1
  <2> QED BY <1>4, <2>5, <2>6, <2>7, <2>8, <2>9 DEF ReadFiles, Goto
<1>5. ASSUME NEW c \in Calls, Imprint(c) PROVE TypeOK'
  <2>1. PICK p : ix' = [ix EXCEPT ![c] = [ix[c] EXCEPT !.print = p]]
    BY <1>5, ImprintStep
  <2>2. IsIndex([ix[c] EXCEPT !.print = p])
    BY <1>5, PrintedIsIndex
  <2>3. ix' = [d \in Calls |-> ix'[d]] /\ \A d \in Calls : IsIndex(ix'[d])
    BY <2>1, <2>2
  <2>4. /\ seen' = [d \in Calls |-> seen'[d]]
        /\ \A d \in Calls : pc'[d] = "read" => pc[d] = "read" /\ seen'[d] = seen[d]
    BY <1>5, ImprintStep
  <2> QED BY <1>5, <2>3, <2>4, ImprintStep
<1>6. ASSUME NEW c \in Calls, Save(c) PROVE TypeOK'
  BY <1>6 DEF Save, treeVars, historyVars, Goto
<1>7. ASSUME NEW c \in Calls, Query(c) PROVE TypeOK'
  <2>1. ASSUME NEW full \in BOOLEAN
        PROVE  Candidates(ix[c], full) \subseteq Files \X Hits
    <3> DEFINE candidates == Candidates(ix[c], full)
               paths == LivePaths(ix[c])
    <3>1. candidates \subseteq paths \X Hits /\ paths \subseteq Files
      BY CandidatesAreLive
    <3> HIDE DEF candidates, paths
    <3>2. candidates \subseteq Files \X Hits
      BY <3>1
    <3> QED BY <3>2 DEF candidates
  <2>2. result' \in [Calls -> SUBSET (Files \X Hits)]
        /\ pc' \in [Calls -> {"new", "check", "walk", "read", "print", "save",
                               "query", "answered", "failed", "elsewhere"}]
        /\ \A d \in Calls : pc'[d] = "read" => pc[d] = "read"
    <3>1. PICK full \in BOOLEAN :
            \/ Goto(c, "failed") /\ UNCHANGED result
            \/ /\ Goto(c, "answered")
               /\ result' = [result EXCEPT ![c] =
                               {fh \in Candidates(ix[c], full) : fh[2] \in text[fh[1]]}]
      BY <1>7 DEF Query
    <3> QED BY <2>1, <3>1 DEF Goto
  <2>3. ix' = [d \in Calls |-> ix'[d]] /\ \A d \in Calls : IsIndex(ix'[d])
    BY <1>7, EmptyIsIndex DEF Query
  <2> QED BY <1>7, <2>2, <2>3 DEF Query, treeVars, historyVars
<1>8. ASSUME NEW f \in Files, Write(f) PROVE TypeOK'
  BY <1>8 DEF Write, Edit, callVars
<1>9. ASSUME NEW f \in Files, Remove(f) PROVE TypeOK'
  BY <1>9 DEF Remove, Edit, callVars
<1>10. ASSUME NEW f \in Files, Swap(f) PROVE TypeOK'
  BY <1>10 DEF Swap, Edit, callVars, Versions
<1>11. ASSUME NEW f \in Files, Ignore(f) PROVE TypeOK'
  <2>1. steady' \in [Calls -> SUBSET (Files \X Hits)]
    BY <1>11 DEF Ignore
  <2> QED BY <1>11, <2>1 DEF Ignore, callVars
<1>12. ASSUME Spoil PROVE TypeOK'
  BY <1>12 DEF Spoil, callVars, historyVars
<1>13. CASE UNCHANGED vars
  BY <1>13 DEF vars
<1> QED BY <1>1, <1>2, <1>3, <1>4, <1>5, <1>6, <1>7, <1>8, <1>9, <1>10, <1>11, <1>12,
           <1>13 DEF Next, Search

\* The index stays well-formed: every posting belongs to a live entry, and no path
\* ever has two of them (rebuild_incremental_with_options, remove_file_postings).
THEOREM TypeCorrect == Spec => []TypeOK
BY TypeInit, TypeNext, PTL DEF Spec

-----------------------------------------------------------------------------
(* What the entries of an index know of their files *)

\* If a file has the stat of its entry, the postings of the entry are its text, but
\* for a version that could not be read or was swapped.  No entry knows a stat that
\* is still to come.
Known(x) ==
    \A i \in Live(x) :
        /\ x.files[i].stat \in 1 .. edits + 2
        /\ stat[x.files[i].path] = x.files[i].stat /\ Sound(x.files[i].path) =>
               \A h \in Hits : <<i, h>> \in x.postings <=> h \in text[x.files[i].path]

StatInv ==
    /\ \A f \in Files : stat[f] <= edits + 2
    /\ disk \notin {Nothing, Alien} => Known(disk)
    /\ \A c \in Calls : Known(ix[c])
    /\ \A c \in Calls : pc[c] = "read" =>
          \A f \in DOMAIN seen[c] : seen[c][f] \in 1 .. edits + 2

\* An index keeps what it knows when only the histories of failures and the ignore
\* rules change ...
LEMMA KnownStays ==
    ASSUME NEW x, Known(x), edits \in Nat, edits' \in Nat, edits <= edits',
           UNCHANGED <<stat, text>>, swapped \subseteq swapped', unread \subseteq unread'
    PROVE  Known(x)'
<1> SUFFICES ASSUME NEW i \in Live(x)'
             PROVE  /\ x.files[i].stat \in 1 .. edits' + 2
                    /\ stat'[x.files[i].path] = x.files[i].stat /\ Sound(x.files[i].path)' =>
                          \A h \in Hits :
                             <<i, h>> \in x.postings <=> h \in text'[x.files[i].path]
  BY DEF Known
<1>1. i \in Live(x)
  BY DEF Live
<1>2. x.files[i].stat \in 1 .. edits' + 2
  BY <1>1 DEF Known
<1>3. Sound(x.files[i].path)' => Sound(x.files[i].path)
  BY DEF Sound
<1> QED BY <1>1, <1>2, <1>3 DEF Known

\* ... and when a file is edited: its stat is one no entry has, or the swap is known.
LEMMA KnownAfterEdit ==
    ASSUME TypeOK, NEW x, IsIndex(x), Known(x), NEW f \in Files, NEW s, NEW hits,
           Edit(f, s, hits), unread' = unread, swapped \subseteq swapped',
           \/ s = 0 \/ s = edits + 3
           \/ s = stat[f] /\ <<f, s>> \in swapped'
    PROVE  Known(x)'
<1> SUFFICES ASSUME NEW i \in Live(x)'
             PROVE  /\ x.files[i].stat \in 1 .. edits' + 2
                    /\ stat'[x.files[i].path] = x.files[i].stat /\ Sound(x.files[i].path)' =>
                          \A h \in Hits :
                             <<i, h>> \in x.postings <=> h \in text'[x.files[i].path]
  BY DEF Known
<1>1. i \in Live(x)
  BY DEF Live
<1>2. /\ edits \in Nat /\ edits' = edits + 1
      /\ stat' = [stat EXCEPT ![f] = s] /\ text' = [text EXCEPT ![f] = hits]
      /\ stat \in [Files -> Nat] /\ text \in [Files -> SUBSET Hits]
  BY DEF Edit, TypeOK
<1>3. x.files[i].stat \in 1 .. edits + 2
  BY <1>1 DEF Known
<1>4. x.files[i].stat \in 1 .. edits' + 2 /\ x.files[i].stat # 0
      /\ x.files[i].stat # edits + 3
  BY <1>2, <1>3
<1>5. CASE x.files[i].path = f
  <2>1. stat'[f] = s
    BY <1>2
  <2>2. s = stat[f] /\ <<f, s>> \in swapped' => ~Sound(f)'
    BY <2>1 DEF Sound
  <2> QED BY <1>4, <1>5, <2>1, <2>2
<1>6. CASE x.files[i].path # f
  <2>1. x.files[i].path \in Files
    BY <1>1, CandidatesAreLive DEF LivePaths
  <2>2. stat'[x.files[i].path] = stat[x.files[i].path]
        /\ text'[x.files[i].path] = text[x.files[i].path]
    BY <1>2, <1>6, <2>1
  <2>3. Sound(x.files[i].path)' => Sound(x.files[i].path)
    BY <2>2 DEF Sound
  <2> QED BY <1>1, <1>4, <2>2, <2>3 DEF Known
<1> QED BY <1>5, <1>6

\* A file that is read in an update has the postings of its text of now.
LEMMA KnownAfterUpdate ==
    ASSUME TypeOK, NEW x, IsIndex(x), Known(x), NEW walk, IsWalk(walk),
           NEW order \in Bijection(1 .. Cardinality(Added(x, walk)), Added(x, walk)),
           NEW failed, NEW m \in BOOLEAN,
           NEW y, y = Rebuilt(x, walk, order, failed, m),
           edits' \in Nat, edits <= edits',
           UNCHANGED <<stat, text, swapped>>,
           unread' = unread \cup {<<f, walk[f]>> : f \in failed},
           \A f \in DOMAIN walk : walk[f] \in 1 .. edits + 2
    PROVE  Known(y)'
<1> SUFFICES ASSUME NEW i \in Live(y)'
             PROVE  /\ y.files[i].stat \in 1 .. edits' + 2
                    /\ stat'[y.files[i].path] = y.files[i].stat /\ Sound(y.files[i].path)' =>
                          \A h \in Hits :
                             <<i, h>> \in y.postings <=> h \in text'[y.files[i].path]
  BY DEF Known
<1>1. i \in Live(y)
  BY DEF Live
<1>2. /\ LivePaths(y) = DOMAIN walk
      /\ y.files[i].stat = walk[y.files[i].path]
      /\ \/ /\ i \in Live(x) /\ y.files[i].path = x.files[i].path
            /\ y.files[i].stat = x.files[i].stat
            /\ \A h \in Hits : <<i, h>> \in y.postings <=> <<i, h>> \in x.postings
         \/ \A h \in Hits : <<i, h>> \in y.postings <=>
                   /\ y.files[i].path \notin failed
                   /\ h \in text[y.files[i].path]
  BY <1>1, RebuiltIsIndex
<1>3. y.files[i].path \in DOMAIN walk
  BY <1>1, <1>2 DEF LivePaths
<1>4. y.files[i].stat \in 1 .. edits' + 2
  BY <1>2, <1>3 DEF TypeOK
<1>5. ASSUME stat'[y.files[i].path] = y.files[i].stat, Sound(y.files[i].path)'
      PROVE  Sound(y.files[i].path) /\ y.files[i].path \notin failed
  BY <1>2, <1>5 DEF Sound
<1> QED BY <1>2, <1>4, <1>5 DEF Known

LEMMA StatInit == Init => StatInv
<1> SUFFICES ASSUME Init PROVE StatInv
  OBVIOUS
<1>1. (CHOOSE f \in Files : TRUE) \in Files
  BY FilesAssumption
<1>2. disk \notin {Nothing, Alien} => Live(disk) = {}
  BY <1>1, EmptiedIsIndex DEF Init
<1>3. \A c \in Calls : Live(ix[c]) = {}
  BY EmptyIsIndex DEF Init
<1>4. \A f \in Files : stat[f] <= edits + 2
  BY DEF Init
<1>5. \A c \in Calls : pc[c] # "read"
  BY DEF Init
<1> QED BY <1>2, <1>3, <1>4, <1>5 DEF StatInv, Known

LEMMA StatNext == TypeOK /\ StatInv /\ [Next]_vars => StatInv'
<1> SUFFICES ASSUME TypeOK, StatInv, [Next]_vars PROVE StatInv'
  OBVIOUS
<1>0. edits \in Nat /\ stat \in [Files -> Nat] /\ ix = [c \in Calls |-> ix[c]]
      /\ seen = [c \in Calls |-> seen[c]]
  BY DEF TypeOK
\* A step that leaves the tree alone: what is left to see is the indexes.
<1>1. ASSUME UNCHANGED <<stat, text, swapped, unread>>, edits' \in Nat, edits <= edits',
             disk' # disk => disk' \in {Nothing, Alien} \/ Known(disk'),
             NEW c \in Calls,
             \A d \in Calls : d # c => ix'[d] = ix[d] /\ pc'[d] = pc[d] /\ seen'[d] = seen[d],
             Known(ix'[c]),
             pc'[c] = "read" =>
                 \A f \in DOMAIN seen'[c] : seen'[c][f] \in 1 .. edits + 2
      PROVE  StatInv'
  <2>1. \A z \in 1 .. edits + 2 : z \in 1 .. edits' + 2
    BY <1>0, <1>1
  <2>2. disk' \notin {Nothing, Alien} => Known(disk')
    BY <1>1 DEF StatInv
  <2>3. \A d \in Calls : Known(ix'[d])
    BY <1>1 DEF StatInv
  <2>4. (disk \notin {Nothing, Alien} => Known(disk))'
    BY <1>1, <2>1, <2>2 DEF Known, Live, Sound
  <2>5. \A d \in Calls : Known(ix[d])'
    BY <1>1, <2>1, <2>3 DEF Known, Live, Sound
  <2>6. \A d \in Calls : pc'[d] = "read" =>
          \A f \in DOMAIN seen'[d] : seen'[d][f] \in 1 .. edits' + 2
    BY <1>1, <2>1 DEF StatInv
  <2>7. \A f \in Files : stat'[f] <= edits' + 2
    BY <1>0, <1>1 DEF StatInv
  <2> QED BY <2>4, <2>5, <2>6, <2>7 DEF StatInv
\* An edit of a file.
<1>2. ASSUME NEW file \in Files, NEW s, NEW hits, Edit(file, s, hits), unread' = unread,
             swapped \subseteq swapped', s \in Nat,
             \/ s = 0 \/ s = edits + 3
             \/ s = stat[file] /\ <<file, s>> \in swapped'
      PROVE  StatInv'
  <2>1. ASSUME NEW x, IsIndex(x), Known(x) PROVE Known(x)'
    BY <1>2, <2>1, KnownAfterEdit
  <2>2. /\ UNCHANGED <<disk, ix, pc, seen>> /\ edits' = edits + 1
        /\ stat' = [stat EXCEPT ![file] = s]
    BY <1>2 DEF Edit, callVars
  <2>3. (disk \notin {Nothing, Alien} => Known(disk))'
    <3>1. disk \notin {Nothing, Alien} => IsIndex(disk) /\ Known(disk)
      BY DEF TypeOK, StatInv
    <3>2. ASSUME IsIndex(disk), Known(disk) PROVE Known(disk)'
      <4>1. \A x : IsIndex(x) /\ Known(x) /\ disk' = x => Known(disk)'
        <5> TAKE x
        <5> HAVE IsIndex(x) /\ Known(x) /\ disk' = x
        <5>1. Known(x)'
          BY <2>1
        <5> QED BY <5>1 DEF Known, Live
      <4> QED BY <2>2, <3>2, <4>1
    <3> QED BY <2>2, <3>1, <3>2
  <2>4. \A d \in Calls : Known(ix[d])'
    <3> TAKE d \in Calls
    <3>1. IsIndex(ix[d]) /\ Known(ix[d])
      BY DEF TypeOK, StatInv
    <3>2. \A x : IsIndex(x) /\ Known(x) /\ ix'[d] = x => Known(ix[d])'
      <4> TAKE x
      <4> HAVE IsIndex(x) /\ Known(x) /\ ix'[d] = x
      <4>1. Known(x)'
        BY <2>1
      <4> QED BY <4>1 DEF Known, Live
    <3> QED BY <2>2, <3>1, <3>2
  <2>5. \A d \in Calls : pc'[d] = "read" =>
          \A f \in DOMAIN seen'[d] : seen'[d][f] \in 1 .. edits' + 2
    BY <1>0, <2>2 DEF StatInv
  <2>6. \A f \in Files : stat'[f] <= edits' + 2
    BY <1>0, <1>2, <2>2 DEF StatInv
  <2> QED BY <2>3, <2>4, <2>5, <2>6 DEF StatInv
\* A step that leaves the indexes alone, but for one that is removed.
<1>3. ASSUME UNCHANGED <<stat, text, swapped, unread, ix, pc, seen>>,
             edits' \in Nat, edits <= edits',
             disk' = disk \/ disk' \in {Nothing, Alien}
      PROVE  StatInv'
  <2>1. \A f \in Files : stat'[f] <= edits' + 2
    BY <1>0, <1>3 DEF StatInv
  <2>2. \A d \in Calls : pc'[d] = "read" =>
          \A f \in DOMAIN seen'[d] : seen'[d][f] \in 1 .. edits' + 2
    <3> TAKE d \in Calls
    <3> HAVE pc'[d] = "read"
    <3> TAKE f \in DOMAIN seen'[d]
    <3>1. seen'[d][f] \in 1 .. edits + 2
      BY <1>3 DEF StatInv
    <3> QED BY <1>0, <1>3, <3>1
  <2>3. ASSUME NEW x, Known(x) PROVE Known(x)'
    BY <1>0, <1>3, <2>3, KnownStays
  <2>4. (disk \notin {Nothing, Alien} => Known(disk))'
    <3> SUFFICES ASSUME disk' \notin {Nothing, Alien} PROVE Known(disk)'
      OBVIOUS
    <3>1. Known(disk) /\ disk' = disk
      BY <1>3 DEF StatInv
    <3>2. \A x : Known(x) /\ disk' = x => Known(disk)'
      <4> TAKE x
      <4> HAVE Known(x) /\ disk' = x
      <4>1. Known(x)'
        BY <2>3
      <4> QED BY <4>1 DEF Known, Live
    <3> QED BY <3>1, <3>2
  <2>5. \A d \in Calls : Known(ix[d])'
    <3> TAKE d \in Calls
    <3>1. Known(ix[d]) /\ ix'[d] = ix[d]
      BY <1>3 DEF StatInv
    <3>2. \A x : Known(x) /\ ix'[d] = x => Known(ix[d])'
      <4> TAKE x
      <4> HAVE Known(x) /\ ix'[d] = x
      <4>1. Known(x)'
        BY <2>3
      <4> QED BY <4>1 DEF Known, Live
    <3> QED BY <3>1, <3>2
  <2> QED BY <2>1, <2>2, <2>4, <2>5 DEF StatInv
<1>4. ASSUME NEW c \in Calls, Load(c) PROVE StatInv'
  <2>1. /\ UNCHANGED <<stat, text, edits, swapped, unread, disk, seen>>
        /\ \E l \in {"elsewhere", "walk", "check"} : pc' = [pc EXCEPT ![c] = l]
        /\ \/ ix' = ix
           \/ ix' = [ix EXCEPT ![c] = disk] /\ disk \notin {Nothing, Alien}
    BY <1>4 DEF Load, treeVars, Goto
  <2>2. Known(ix'[c])
    BY <1>0, <2>1 DEF StatInv
  <2>3. pc'[c] # "read" /\ \A d \in Calls : d # c => pc'[d] = pc[d] /\ ix'[d] = ix[d]
    BY <1>0, <2>1 DEF TypeOK
  <2> QED BY <1>0, <1>1, <2>1, <2>2, <2>3
<1>5. ASSUME NEW c \in Calls, Check(c) PROVE StatInv'
  <2>1. /\ UNCHANGED <<stat, text, swapped, unread, disk, seen, ix>>
        /\ \E l \in {"elsewhere", "walk", "query"} : pc' = [pc EXCEPT ![c] = l]
        /\ edits' \in Nat /\ edits <= edits'
    BY <1>5, CheckStep
  <2>2. pc'[c] # "read" /\ \A d \in Calls : d # c => pc'[d] = pc[d]
    BY <1>5, <2>1 DEF TypeOK
  <2> QED BY <1>1, <1>5, <2>1, <2>2 DEF StatInv
<1>6. ASSUME NEW c \in Calls, Walk(c) PROVE StatInv'
  <2>1. /\ UNCHANGED <<stat, text, swapped, unread, disk, ix>>
        /\ pc' = [pc EXCEPT ![c] = "read"] /\ edits' \in Nat /\ edits <= edits'
    BY <1>6, WalkStep
  <2>2. PICK walk : /\ seen' = [seen EXCEPT ![c] = walk]
                    /\ DOMAIN walk \subseteq Walked(mode[c])
                    /\ \A f \in DOMAIN walk : walk[f] = stat[f]
    BY <1>6, WalkStep
  <2>3. /\ seen'[c] = walk
        /\ \A d \in Calls : d # c => pc'[d] = pc[d] /\ seen'[d] = seen[d]
    BY <1>0, <1>6, <2>1, <2>2 DEF TypeOK
  <2>4. \A f \in Walked(mode[c]) : stat[f] \in 1 .. edits + 2
    BY <1>0 DEF Walked, StatInv
  <2>5. \A f \in DOMAIN seen'[c] : seen'[c][f] \in 1 .. edits + 2
    BY <2>2, <2>3, <2>4
  <2> QED BY <1>1, <1>6, <2>1, <2>3, <2>5 DEF StatInv
<1>7. ASSUME NEW c \in Calls, ReadFiles(c) PROVE StatInv'
  <2> DEFINE x == ix[c]
             walk == seen[c]
  <2>1. PICK order \in Bijection(1 .. Cardinality(Added(x, walk)), Added(x, walk)),
             failed \in SUBSET (Added(x, walk) \cup
                                  {x.files[i].path : i \in Modified(x, walk)}) :
          /\ edits' = IF failed = {} THEN edits ELSE edits + 1
          /\ ix' = [ix EXCEPT ![c] = Rebuilt(x, walk, order, failed, mode[c])]
          /\ unread' = unread \cup {<<f, walk[f]>> : f \in failed}
    BY <1>7 DEF ReadFiles, Count
  <2>2. IsWalk(walk) /\ IsIndex(x) /\ mode[c] \in BOOLEAN
    BY <1>7 DEF ReadFiles, IsWalk, TypeOK
  <2>3. edits' \in Nat /\ edits <= edits'
    BY <1>0, <2>1
  <2>4. UNCHANGED <<stat, text, swapped, disk, seen>> /\ pc[c] = "read"
        /\ pc' = [pc EXCEPT ![c] = "print"]
    BY <1>7 DEF ReadFiles, Goto
  <2>5. Known(x) /\ \A f \in DOMAIN walk : walk[f] \in 1 .. edits + 2
    BY <2>4 DEF StatInv
  <2>6. \A y : y = Rebuilt(x, walk, order, failed, mode[c]) => Known(y)'
    BY <2>1, <2>2, <2>3, <2>4, <2>5, KnownAfterUpdate
  <2>7. Known(ix[c])'
    <3>1. \A y : y = Rebuilt(x, walk, order, failed, mode[c]) /\ ix'[c] = y => Known(ix[c])'
      <4> TAKE y
      <4> HAVE y = Rebuilt(x, walk, order, failed, mode[c]) /\ ix'[c] = y
      <4>1. Known(y)'
        BY <2>6
      <4> QED BY <4>1 DEF Known, Live
    <3>2. ix'[c] = Rebuilt(x, walk, order, failed, mode[c])
      BY <1>0, <2>1
    <3> QED BY <3>1, <3>2
  <2>8. ASSUME NEW z, Known(z) PROVE Known(z)'
    BY <1>0, <2>1, <2>3, <2>4, <2>8, KnownStays
  <2>9. (disk \notin {Nothing, Alien} => Known(disk))'
    <3>1. \A z : Known(z) /\ disk' = z => Known(disk)'
      <4> TAKE z
      <4> HAVE Known(z) /\ disk' = z
      <4>1. Known(z)'
        BY <2>8
      <4> QED BY <4>1 DEF Known, Live
    <3> QED BY <2>4, <3>1 DEF StatInv
  <2>10. \A d \in Calls : Known(ix[d])'
    <3> TAKE d \in Calls
    <3>1. CASE d = c
      BY <2>7, <3>1
    <3>2. CASE d # c
      <4>1. \A z : Known(z) /\ ix'[d] = z => Known(ix[d])'
        <5> TAKE z
        <5> HAVE Known(z) /\ ix'[d] = z
        <5>1. Known(z)'
          BY <2>8
        <5> QED BY <5>1 DEF Known, Live
      <4>2. ix'[d] = ix[d]
        BY <1>0, <2>1, <3>2
      <4> QED BY <4>1, <4>2 DEF StatInv
    <3> QED BY <3>1, <3>2
  <2>11. \A d \in Calls : pc'[d] = "read" =>
           \A f \in DOMAIN seen'[d] : seen'[d][f] \in 1 .. edits' + 2
    <3> TAKE d \in Calls
    <3> HAVE pc'[d] = "read"
    <3> TAKE f \in DOMAIN seen'[d]
    <3>1. pc[d] = "read"
      BY <2>4 DEF TypeOK
    <3>2. seen'[d][f] \in 1 .. edits + 2
      BY <2>4, <3>1 DEF StatInv
    <3> QED BY <1>0, <2>3, <3>2
  <2>12. \A f \in Files : stat'[f] <= edits' + 2
    BY <1>0, <2>3, <2>4 DEF StatInv
  <2> QED BY <2>9, <2>10, <2>11, <2>12 DEF StatInv
<1>8. ASSUME NEW c \in Calls, Imprint(c) PROVE StatInv'
  <2>1. /\ UNCHANGED <<stat, text, swapped, unread, disk>>
        /\ pc' = [pc EXCEPT ![c] = "save"]
        /\ seen' = [seen EXCEPT ![c] = <<>>]
        /\ edits' \in Nat /\ edits <= edits'
    BY <1>8, ImprintStep
  <2>p. PICK p : ix' = [ix EXCEPT ![c] = [ix[c] EXCEPT !.print = p]]
    BY <1>8, ImprintStep
  <2>2. /\ pc'[c] # "read"
        /\ ix'[c] = [ix[c] EXCEPT !.print = p]
        /\ \A d \in Calls : d # c => pc'[d] = pc[d] /\ seen'[d] = seen[d] /\ ix'[d] = ix[d]
    BY <1>0, <1>8, <2>1, <2>p DEF TypeOK
  <2>3. /\ ix'[c].files = ix[c].files /\ ix'[c].postings = ix[c].postings
        /\ Live(ix'[c]) = Live(ix[c])
    <3>1. IsIndex(ix[c])
      BY <1>8 DEF TypeOK
    <3>2. \A y : y = [ix[c] EXCEPT !.print = p] =>
            /\ y.files = ix[c].files /\ y.postings = ix[c].postings
            /\ Live(y) = Live(ix[c])
      BY <3>1, PrintedIsIndex
    <3> QED BY <2>2, <3>2
  <2>4. Known(ix'[c])
    BY <1>8, <2>3 DEF StatInv, Known
  <2> QED BY <1>1, <2>1, <2>2, <2>4
<1>9. ASSUME NEW c \in Calls, Save(c) PROVE StatInv'
  <2>1. /\ UNCHANGED <<stat, text, edits, swapped, unread, seen, ix>>
        /\ disk' = ix[c] \/ disk' = disk
        /\ pc' = [pc EXCEPT ![c] = "query"]
    BY <1>9 DEF Save, treeVars, historyVars, Goto
  <2>2. pc'[c] # "read" /\ \A d \in Calls : d # c => pc'[d] = pc[d]
    BY <2>1 DEF TypeOK
  <2> QED BY <1>0, <1>1, <1>9, <2>1, <2>2 DEF StatInv
<1>10. ASSUME NEW c \in Calls, Query(c) PROVE StatInv'
  <2>1. /\ UNCHANGED <<stat, text, edits, swapped, unread, disk, seen>>
        /\ \E l \in {"failed", "answered"} : pc' = [pc EXCEPT ![c] = l]
        /\ ix' = [ix EXCEPT ![c] = EmptyIndex]
    BY <1>10 DEF Query, treeVars, historyVars, Goto
  <2>2. /\ pc'[c] # "read" /\ ix'[c] = EmptyIndex
        /\ \A d \in Calls : d # c => pc'[d] = pc[d] /\ ix'[d] = ix[d]
    BY <1>0, <2>1 DEF TypeOK
  <2>3. Known(ix'[c])
    BY <2>2, EmptyIsIndex DEF Known
  <2> QED BY <1>0, <1>1, <2>1, <2>2, <2>3
<1>11. ASSUME NEW file \in Files, Write(file) PROVE StatInv'
  <2>1. PICK hits : Edit(file, edits + 3, hits)
    BY <1>11 DEF Write
  <2>2. unread' = unread /\ swapped' = swapped /\ edits + 3 \in Nat
    BY <1>0, <1>11, <2>1 DEF Write, Edit
  <2> QED BY <1>2, <2>1, <2>2
<1>12. ASSUME NEW file \in Files, Remove(file) PROVE StatInv'
  <2>1. Edit(file, 0, {}) /\ unread' = unread /\ swapped' = swapped
    BY <1>12 DEF Remove, Edit
  <2> QED BY <1>2, <2>1
<1>13. ASSUME NEW file \in Files, Swap(file) PROVE StatInv'
  <2>1. PICK hits : Edit(file, stat[file], hits)
    BY <1>13 DEF Swap
  <2>2. unread' = unread /\ swapped' = swapped \cup {<<file, stat[file]>>}
        /\ stat[file] \in Nat
    BY <1>0, <1>13, <2>1 DEF Swap, Edit
  <2> QED BY <1>2, <2>1, <2>2
<1>14. ASSUME NEW file \in Files, Ignore(file) PROVE StatInv'
  BY <1>0, <1>3, <1>14 DEF Ignore, callVars
<1>15. ASSUME Spoil PROVE StatInv'
  BY <1>0, <1>3, <1>15 DEF Spoil, callVars, historyVars
<1>16. CASE UNCHANGED vars
  BY <1>0, <1>3, <1>16 DEF vars
<1> QED BY <1>4, <1>5, <1>6, <1>7, <1>8, <1>9, <1>10, <1>11, <1>12, <1>13, <1>14, <1>15,
           <1>16 DEF Next, Search

\* An index that passes for fresh has the text of now, of every file that could be
\* read and was not swapped (staleness_reason: a search may query it as it is).
THEOREM FreshIsCurrent == Spec => []FreshMeansCurrent
<1>1. TypeOK /\ StatInv => FreshMeansCurrent
  <2> SUFFICES ASSUME TypeOK, StatInv, NEW m \in BOOLEAN,
                      disk \notin {Nothing, Alien},
                      ~IsStale(disk, m, Walked(disk.mode), Walked(disk.mode)),
                      NEW f \in Walked(m), Sound(f)
               PROVE  \E i \in Live(disk) :
                        /\ disk.files[i].path = f
                        /\ \A h \in Hits : h \in text[f] <=> <<i, h>> \in disk.postings
    BY DEF FreshMeansCurrent
  <2>1. disk.mode = m /\ f \in LivePaths(disk)
    BY DEF IsStale
  <2>2. PICK i \in Live(disk) : disk.files[i].path = f
    BY <2>1 DEF LivePaths
  <2>3. stat[f] = disk.files[i].stat
    BY <2>2 DEF IsStale
  <2> QED BY <2>2, <2>3 DEF StatInv, Known
<1> QED BY <1>1, TypeInit, TypeNext, StatInit, StatNext, PTL DEF Spec

-----------------------------------------------------------------------------
(* What an index says of ignored files *)

\* An index built without the ignored files has none, but for those that became
\* ignored later.
Honest(x, excluded, later) == ~x.mode => LivePaths(x) \cap excluded \subseteq later

CallIsHonest(c) ==
    /\ Honest(ix[c], ignored, lapsed)
    /\ pc[c] = "read" /\ ~mode[c] => DOMAIN seen[c] \cap ignored \subseteq lapsed
    /\ pc[c] \in {"print", "save", "query"} => ix[c].mode = mode[c]
    /\ pc[c] = "answered" /\ ~mode[c] =>
          \A fh \in result[c] : fh[1] \in ignored => fh[1] \in lapsed

LeakInv ==
    /\ disk \notin {Nothing, Alien} => Honest(disk, ignored, lapsed)
    /\ \A c \in Calls : CallIsHonest(c)

LEMMA LeakInit == Init => LeakInv
<1> SUFFICES ASSUME Init PROVE LeakInv
  OBVIOUS
<1>1. (CHOOSE f \in Files : TRUE) \in Files
  BY FilesAssumption
<1>2. disk \notin {Nothing, Alien} => Live(disk) = {}
  BY <1>1, EmptiedIsIndex DEF Init
<1>3. \A c \in Calls : Live(ix[c]) = {} /\ pc[c] = "new"
  BY EmptyIsIndex DEF Init
<1> QED BY <1>2, <1>3 DEF LeakInv, CallIsHonest, Honest, LivePaths

LEMMA LeakNext == TypeOK /\ LeakInv /\ [Next]_vars => LeakInv'
<1> SUFFICES ASSUME TypeOK, LeakInv, [Next]_vars PROVE LeakInv'
  OBVIOUS
<1>0. /\ ix = [c \in Calls |-> ix[c]] /\ seen = [c \in Calls |-> seen[c]]
      /\ DOMAIN pc = Calls /\ DOMAIN mode = Calls /\ DOMAIN result = Calls
      /\ DOMAIN route = Calls
      /\ \A c \in Calls : IsIndex(ix[c]) /\ mode[c] \in BOOLEAN
  BY DEF TypeOK
\* The step of a search: the others are as they were.
<1>1. ASSUME NEW c \in Calls, UNCHANGED <<ignored, lapsed>>,
             \A d \in Calls : d # c =>
                 /\ ix'[d] = ix[d] /\ pc'[d] = pc[d] /\ seen'[d] = seen[d]
                 /\ mode'[d] = mode[d] /\ result'[d] = result[d],
             disk' = disk \/ Honest(disk', ignored, lapsed),
             CallIsHonest(c)'
      PROVE  LeakInv'
  <2>1. ASSUME NEW d \in Calls PROVE CallIsHonest(d)'
    <3>1. CASE d = c
      BY <1>1, <3>1
    <3>2. CASE d # c
      <4>1. CallIsHonest(d)
        BY DEF LeakInv
      <4> QED BY <1>1, <3>2, <4>1 DEF CallIsHonest
    <3> QED BY <3>1, <3>2
  <2> QED BY <1>1, <2>1 DEF LeakInv
<1>2. ASSUME NEW c \in Calls, Load(c) PROVE LeakInv'
  <2>1. PICK l \in {"elsewhere", "walk", "check"} :
          /\ pc' = [pc EXCEPT ![c] = l]
          /\ \/ ix' = ix
             \/ ix' = [ix EXCEPT ![c] = disk] /\ disk \notin {Nothing, Alien}
    BY <1>2 DEF Load, Goto
  <2>2. UNCHANGED <<ignored, lapsed, disk, seen, result>>
        /\ \A d \in Calls : d # c => mode'[d] = mode[d]
    BY <1>0, <1>2 DEF Load, treeVars
  <2>3. Honest(ix'[c], ignored, lapsed) /\ pc'[c] = l
        /\ \A d \in Calls : d # c => ix'[d] = ix[d] /\ pc'[d] = pc[d]
    BY <1>0, <2>1 DEF LeakInv, CallIsHonest
  <2>4. CallIsHonest(c)'
    BY <2>2, <2>3 DEF CallIsHonest
  <2> QED BY <1>1, <2>2, <2>3, <2>4
<1>3. ASSUME NEW c \in Calls, Check(c) PROVE LeakInv'
  <2>1. /\ UNCHANGED <<ignored, lapsed, disk, seen, result, mode, ix>>
        /\ \E l \in {"elsewhere", "walk", "query"} : pc' = [pc EXCEPT ![c] = l]
        /\ pc'[c] = "query" => ix[c].mode = mode[c]
    BY <1>3, CheckStep
  <2>2. /\ pc'[c] \in {"elsewhere", "walk", "query"}
        /\ \A d \in Calls : d # c => pc'[d] = pc[d]
    BY <1>0, <1>3, <2>1
  <2>3. CallIsHonest(c)'
    BY <1>3, <2>1, <2>2 DEF CallIsHonest, LeakInv
  <2> QED BY <1>1, <1>3, <2>1, <2>2, <2>3
<1>4. ASSUME NEW c \in Calls, Walk(c) PROVE LeakInv'
  <2>1. /\ UNCHANGED <<ignored, lapsed, disk, result, mode, ix>>
        /\ pc' = [pc EXCEPT ![c] = "read"]
    BY <1>4, WalkStep
  <2>2. PICK walk : /\ seen' = [seen EXCEPT ![c] = walk]
                    /\ DOMAIN walk \subseteq Walked(mode[c])
    BY <1>4, WalkStep
  <2>3. ~mode[c] => DOMAIN walk \cap ignored = {}
    BY <2>2 DEF Walked
  <2>4. /\ pc'[c] = "read" /\ seen'[c] = walk
        /\ \A d \in Calls : d # c => pc'[d] = pc[d] /\ seen'[d] = seen[d]
    BY <1>0, <1>4, <2>1, <2>2
  <2>5. CallIsHonest(c)'
    BY <1>4, <2>1, <2>3, <2>4 DEF CallIsHonest, LeakInv
  <2> QED BY <1>1, <1>4, <2>1, <2>4, <2>5
<1>5. ASSUME NEW c \in Calls, ReadFiles(c) PROVE LeakInv'
  <2> DEFINE x == ix[c]
             walk == seen[c]
  <2>1. PICK order \in Bijection(1 .. Cardinality(Added(x, walk)), Added(x, walk)),
             failed \in SUBSET (Added(x, walk) \cup
                                  {x.files[i].path : i \in Modified(x, walk)}) :
          ix' = [ix EXCEPT ![c] = Rebuilt(x, walk, order, failed, mode[c])]
    BY <1>5 DEF ReadFiles
  <2>2. IsWalk(walk)
    BY <1>5 DEF ReadFiles, IsWalk, TypeOK
  <2>3. PICK y : y = Rebuilt(x, walk, order, failed, mode[c])
    OBVIOUS
  <2>4. y.mode = mode[c] /\ LivePaths(y) = DOMAIN walk
    BY <1>0, <2>2, <2>3, RebuiltIsIndex
  <2>5. UNCHANGED <<ignored, lapsed, disk, result, mode, seen>> /\ pc[c] = "read"
        /\ pc' = [pc EXCEPT ![c] = "print"]
    BY <1>5 DEF ReadFiles, Goto
  <2>6. /\ pc'[c] = "print" /\ ix'[c] = y
        /\ \A d \in Calls : d # c => pc'[d] = pc[d] /\ ix'[d] = ix[d]
    BY <1>0, <2>1, <2>3, <2>5
  <2>7. ~mode[c] => DOMAIN walk \cap ignored \subseteq lapsed
    BY <2>5 DEF LeakInv, CallIsHonest
  <2>8. CallIsHonest(c)'
    BY <2>4, <2>5, <2>6, <2>7 DEF CallIsHonest, Honest
  <2> QED BY <1>1, <2>5, <2>6, <2>8
<1>6. ASSUME NEW c \in Calls, Imprint(c) PROVE LeakInv'
  <2>1. /\ UNCHANGED <<ignored, lapsed, disk, result, mode>> /\ pc[c] = "print"
        /\ pc' = [pc EXCEPT ![c] = "save"] /\ seen' = [seen EXCEPT ![c] = <<>>]
    BY <1>6, ImprintStep
  <2>p. PICK p : ix' = [ix EXCEPT ![c] = [ix[c] EXCEPT !.print = p]]
    BY <1>6, ImprintStep
  <2>2. /\ pc'[c] = "save" /\ ix'[c] = [ix[c] EXCEPT !.print = p]
        /\ \A d \in Calls : d # c => pc'[d] = pc[d] /\ ix'[d] = ix[d] /\ seen'[d] = seen[d]
    BY <1>0, <1>6, <2>1, <2>p
  <2>3. ix'[c].mode = ix[c].mode /\ LivePaths(ix'[c]) = LivePaths(ix[c])
    BY <1>0, <1>6, <2>2, PrintedIsIndex
  <2>4. CallIsHonest(c)'
    BY <1>6, <2>1, <2>2, <2>3 DEF CallIsHonest, Honest, LeakInv
  <2> QED BY <1>1, <1>6, <2>1, <2>2, <2>4
<1>7. ASSUME NEW c \in Calls, Save(c) PROVE LeakInv'
  <2>1. /\ UNCHANGED <<ignored, lapsed, result, mode, ix, seen>> /\ pc[c] = "save"
        /\ pc' = [pc EXCEPT ![c] = "query"]
        /\ disk' = ix[c] \/ disk' = disk
    BY <1>7 DEF Save, treeVars, historyVars, Goto
  <2>2. pc'[c] = "query" /\ \A d \in Calls : d # c => pc'[d] = pc[d]
    BY <1>0, <2>1
  <2>3. CallIsHonest(c)'
    BY <2>1, <2>2 DEF CallIsHonest, LeakInv
  <2>4. disk' = disk \/ Honest(disk', ignored, lapsed)
    BY <2>1 DEF LeakInv, CallIsHonest
  <2> QED BY <1>1, <2>1, <2>2, <2>3, <2>4
<1>8. ASSUME NEW c \in Calls, Query(c) PROVE LeakInv'
  <2>1. /\ UNCHANGED <<ignored, lapsed, mode, seen, disk>> /\ pc[c] = "query"
        /\ ix' = [ix EXCEPT ![c] = EmptyIndex]
    BY <1>8 DEF Query, treeVars, historyVars
  <2>2. PICK full \in BOOLEAN :
          \/ Goto(c, "failed") /\ UNCHANGED result
          \/ /\ Goto(c, "answered")
             /\ result' = [result EXCEPT ![c] =
                              {fh \in Candidates(ix[c], full) : fh[2] \in text[fh[1]]}]
    BY <1>8 DEF Query
  <2>3. /\ pc'[c] \in {"failed", "answered"} /\ ix'[c] = EmptyIndex
        /\ \A d \in Calls : d # c =>
              pc'[d] = pc[d] /\ ix'[d] = ix[d] /\ result'[d] = result[d]
        /\ pc'[c] = "answered" => result'[c] \subseteq Candidates(ix[c], full)
    BY <1>0, <2>1, <2>2 DEF Goto
  <2>4. Honest(ix'[c], ignored, lapsed)
    BY <2>3, EmptyIsIndex DEF Honest, LivePaths
  <2>5. \A fh \in Candidates(ix[c], full) : fh[1] \in LivePaths(ix[c])
    <3> DEFINE candidates == Candidates(ix[c], full)
               paths == LivePaths(ix[c])
    <3>1. candidates \subseteq paths \X Hits
      BY <1>0, CandidatesAreLive
    <3> HIDE DEF candidates, paths
    <3>2. \A fh \in candidates : fh[1] \in paths
      BY <3>1
    <3> QED BY <3>2 DEF candidates, paths
  <2>6. ~mode[c] => LivePaths(ix[c]) \cap ignored \subseteq lapsed
    BY <2>1 DEF LeakInv, CallIsHonest, Honest
  <2>7. pc'[c] = "answered" /\ ~mode[c] =>
          \A fh \in result'[c] : fh[1] \in ignored => fh[1] \in lapsed
    BY <2>3, <2>5, <2>6
  <2>8. CallIsHonest(c)'
    BY <2>1, <2>3, <2>4, <2>7 DEF CallIsHonest
  <2> QED BY <1>1, <2>1, <2>3, <2>8
\* The tree changes: a file that becomes ignored has lapsed.
<1>9. ASSUME UNCHANGED callVars, disk' = disk \/ disk' \in {Nothing, Alien},
             \A f : f \in lapsed => f \in lapsed',
             \A f : f \in ignored' => f \in ignored \/ f \in lapsed'
      PROVE  LeakInv'
  <2>1. ASSUME NEW x, Honest(x, ignored, lapsed) PROVE Honest(x, ignored', lapsed')
    BY <1>9, <2>1 DEF Honest
  <2>2. disk' \notin {Nothing, Alien} => Honest(disk', ignored', lapsed')
    BY <1>9, <2>1 DEF LeakInv
  <2>3. ASSUME NEW d \in Calls PROVE CallIsHonest(d)'
    <3>1. CallIsHonest(d)
      BY DEF LeakInv
    <3>2. Honest(ix[d], ignored', lapsed')
      BY <2>1, <3>1 DEF CallIsHonest
    <3> QED BY <1>9, <3>1, <3>2 DEF CallIsHonest, callVars
  <2> QED BY <2>2, <2>3 DEF LeakInv
<1>10. ASSUME NEW f \in Files, Write(f) \/ Remove(f) \/ Swap(f) PROVE LeakInv'
  BY <1>9, <1>10 DEF Write, Remove, Swap, Edit
<1>11. ASSUME NEW f \in Files, Ignore(f) PROVE LeakInv'
  BY <1>9, <1>11 DEF Ignore
<1>12. ASSUME Spoil PROVE LeakInv'
  BY <1>9, <1>12 DEF Spoil, historyVars
<1>13. CASE UNCHANGED vars
  BY <1>9, <1>13 DEF vars, callVars
<1> QED BY <1>2, <1>3, <1>4, <1>5, <1>6, <1>7, <1>8, <1>10, <1>11, <1>12, <1>13
        DEF Next, Search

\* A search that was not asked for ignored files reports none, whoever built the
\* index it uses (staleness_reason compares the mode of the build).
THEOREM IgnoredIsNotReported == Spec => []NothingLeaks
<1>1. LeakInv => NothingLeaks
  BY DEF LeakInv, CallIsHonest, NothingLeaks
<1> QED BY <1>1, TypeInit, TypeNext, LeakInit, LeakNext, PTL DEF Spec

-----------------------------------------------------------------------------
(* What a search owes *)

IsSwapped(f) == <<f, stat[f]>> \in swapped

\* A hit that was there since c began is there still.  Before the read, c has found its
\* file, and an entry that will not be read again has it; later it is a candidate.
Owed(c, fh) ==
    /\ pc[c] \in Running =>
          /\ fh[1] \in Walked(mode[c]) /\ fh[2] \in text[fh[1]]
          /\ <<fh[1], stat[fh[1]]>> \notin unread
    /\ pc[c] = "read" =>
          /\ fh[1] \in DOMAIN seen[c]
          /\ \/ IsSwapped(fh[1])
             \/ \A i \in Live(ix[c]) :
                   ix[c].files[i].path = fh[1] /\ ix[c].files[i].stat = seen[c][fh[1]] =>
                       <<i, fh[2]>> \in ix[c].postings
    /\ pc[c] \in {"print", "save", "query"} =>
          IsSwapped(fh[1]) \/ fh \in Candidates(ix[c], FALSE)
    /\ pc[c] = "answered" => IsSwapped(fh[1]) \/ fh \in result[c]

DueInv ==
    /\ \A v \in unread : v[2] <= edits + 2
    /\ \A c \in Calls : \A fh \in steady[c] : Owed(c, fh)

LEMMA DueInit == Init => DueInv
BY DEF Init, DueInv

\* While a version is neither swapped nor unread, the entry that knows its stat has
\* its hits.
LEMMA KnownHits ==
    ASSUME NEW x, Known(x), NEW f, NEW h \in Hits, h \in text[f],
           <<f, stat[f]>> \notin unread
    PROVE  \/ IsSwapped(f)
           \/ \A i \in Live(x) : x.files[i].path = f /\ x.files[i].stat = stat[f] =>
                 <<i, h>> \in x.postings
BY DEF Known, Sound, IsSwapped

LEMMA DueNext == TypeOK /\ StatInv /\ DueInv /\ [Next]_vars => DueInv'
<1> SUFFICES ASSUME TypeOK, StatInv, DueInv, [Next]_vars PROVE DueInv'
  OBVIOUS
<1>0. /\ ix = [c \in Calls |-> ix[c]] /\ seen = [c \in Calls |-> seen[c]]
      /\ DOMAIN pc = Calls /\ DOMAIN mode = Calls /\ DOMAIN result = Calls
      /\ DOMAIN route = Calls /\ DOMAIN steady = Calls
      /\ \A c \in Calls : IsIndex(ix[c]) /\ mode[c] \in BOOLEAN
      /\ \A c \in Calls : \A fh \in steady[c] :
            fh[1] \in Files /\ fh[2] \in Hits /\ fh = <<fh[1], fh[2]>>
      /\ edits \in Nat /\ stat \in [Files -> Nat] /\ text \in [Files -> SUBSET Hits]
      /\ unread \subseteq Versions
  BY DEF TypeOK
\* The step of a search that reads no file: the others are as they were.
<1>1. ASSUME NEW c \in Calls, UNCHANGED <<stat, text, ignored, swapped, unread>>,
             edits' \in Nat, edits <= edits',
             \A d \in Calls : d # c =>
                 /\ ix'[d] = ix[d] /\ pc'[d] = pc[d] /\ seen'[d] = seen[d]
                 /\ mode'[d] = mode[d] /\ result'[d] = result[d] /\ steady'[d] = steady[d],
             \A fh \in steady'[c] : Owed(c, fh)'
      PROVE  DueInv'
  <2>1. ASSUME NEW d \in Calls, NEW fh \in steady'[d] PROVE Owed(d, fh)'
    <3>1. CASE d = c
      BY <1>1, <3>1
    <3>2. CASE d # c
      <4>1. Owed(d, fh)
        BY <1>1, <3>2 DEF DueInv
      <4> QED BY <1>1, <3>2, <4>1 DEF Owed, Walked, IsSwapped
    <3> QED BY <3>1, <3>2
  <2>2. \A v \in unread' : v[2] <= edits' + 2
    <3>1. \A v \in unread : v[2] \in Nat /\ v[2] <= edits + 2
      BY <1>0 DEF DueInv, Versions
    <3> QED BY <1>0, <1>1, <3>1
  <2> QED BY <2>1, <2>2 DEF DueInv
<1>2. ASSUME NEW c \in Calls, Load(c) PROVE DueInv'
  <2>1. PICK m \in BOOLEAN, l \in {"elsewhere", "walk", "check"} :
          /\ mode' = [mode EXCEPT ![c] = m]
          /\ steady' = [steady EXCEPT ![c] = Due(m)]
          /\ pc' = [pc EXCEPT ![c] = l]
          /\ ix' = ix \/ ix' = [ix EXCEPT ![c] = disk]
    BY <1>2 DEF Load, Goto
  <2>2. UNCHANGED <<stat, text, ignored, swapped, unread, edits, seen, result>>
    BY <1>2 DEF Load, treeVars
  <2>3. /\ mode'[c] = m /\ steady'[c] = Due(m) /\ pc'[c] = l
        /\ \A d \in Calls : d # c => ix'[d] = ix[d] /\ pc'[d] = pc[d]
              /\ mode'[d] = mode[d] /\ steady'[d] = steady[d]
    BY <1>0, <2>1
  <2>4. \A fh \in steady'[c] : Owed(c, fh)'
    BY <2>2, <2>3 DEF Owed, Due, Walked
  <2> QED BY <1>0, <1>1, <2>2, <2>3, <2>4
<1>3. ASSUME NEW c \in Calls, Check(c) PROVE DueInv'
  <2>1. /\ pc[c] = "check" /\ edits' \in Nat /\ edits <= edits'
        /\ UNCHANGED <<stat, text, ignored, swapped, unread, seen, result, mode, ix>>
        /\ \E l \in {"elsewhere", "walk", "query"} : pc' = [pc EXCEPT ![c] = l]
        /\ \E due \in SUBSET steady[c] : steady' = [steady EXCEPT ![c] = due]
        /\ pc'[c] = "query" =>
              /\ \A i \in Live(ix[c]) : stat[ix[c].files[i].path] = ix[c].files[i].stat
              /\ \A fh \in steady'[c] : fh[1] \in LivePaths(ix[c])
    BY <1>3, CheckStep
  <2>2. /\ pc'[c] \in {"elsewhere", "walk", "query"}
        /\ steady'[c] \subseteq steady[c]
        /\ \A d \in Calls : d # c => pc'[d] = pc[d] /\ steady'[d] = steady[d]
    BY <1>0, <1>3, <2>1
  <2>3. ASSUME NEW fh \in steady'[c] PROVE Owed(c, fh)'
    <3>1. /\ fh \in steady[c] /\ fh[1] \in Walked(mode[c]) /\ fh[2] \in text[fh[1]]
          /\ <<fh[1], stat[fh[1]]>> \notin unread
      BY <1>3, <2>1, <2>2, <2>3 DEF DueInv, Owed, Running
    <3>2. /\ fh[1] \in Walked(mode[c])' /\ fh[2] \in text'[fh[1]]
          /\ <<fh[1], stat'[fh[1]]>> \notin unread'
      BY <2>1, <3>1 DEF Walked
    <3>3. pc'[c] = "query" => IsSwapped(fh[1]) \/ fh \in Candidates(ix[c], FALSE)
      <4> SUFFICES ASSUME pc'[c] = "query", ~IsSwapped(fh[1])
                   PROVE  fh \in Candidates(ix[c], FALSE)
        OBVIOUS
      <4>1. fh[1] \in LivePaths(ix[c])
        BY <2>1, <2>3
      <4>2. PICK i \in Live(ix[c]) : ix[c].files[i].path = fh[1]
        BY <4>1 DEF LivePaths
      <4>3. ix[c].files[i].stat = stat[fh[1]]
        BY <2>1, <4>2
      <4>4. <<i, fh[2]>> \in ix[c].postings
        BY <1>0, <1>3, <3>1, <4>2, <4>3, KnownHits DEF StatInv
      <4>5. \E p \in ix[c].postings : <<ix[c].files[p[1]].path, p[2]>> = <<fh[1], fh[2]>>
        BY <4>2, <4>4
      <4> QED BY <1>0, <1>3, <3>1, <4>5 DEF Candidates
    <3>4. IsSwapped(fh[1])' <=> IsSwapped(fh[1])
      BY <2>1 DEF IsSwapped
    <3> QED BY <2>1, <2>2, <3>2, <3>3, <3>4 DEF Owed
  <2> QED BY <1>1, <1>3, <2>1, <2>2, <2>3
<1>4. ASSUME NEW c \in Calls, Walk(c) PROVE DueInv'
  <2>1. /\ pc[c] = "walk" /\ edits' \in Nat /\ edits <= edits'
        /\ UNCHANGED <<stat, text, ignored, swapped, unread, result, mode, ix>>
        /\ pc' = [pc EXCEPT ![c] = "read"]
    BY <1>4, WalkStep
  <2>2. PICK walk, due :
          /\ seen' = [seen EXCEPT ![c] = walk]
          /\ steady' = [steady EXCEPT ![c] = due]
          /\ DOMAIN walk \subseteq Walked(mode[c])
          /\ \A f \in DOMAIN walk : walk[f] = stat[f]
          /\ due \subseteq steady[c] /\ \A fh \in due : fh[1] \in DOMAIN walk
    BY <1>4, WalkStep
  <2>3. /\ pc'[c] = "read" /\ seen'[c] = walk /\ steady'[c] = due
        /\ \A d \in Calls : d # c =>
              pc'[d] = pc[d] /\ seen'[d] = seen[d] /\ steady'[d] = steady[d]
    BY <1>0, <1>4, <2>1, <2>2
  <2>4. ASSUME NEW fh \in steady'[c] PROVE Owed(c, fh)'
    <3>1. /\ fh[1] \in Walked(mode[c]) /\ fh[2] \in text[fh[1]]
          /\ <<fh[1], stat[fh[1]]>> \notin unread
          /\ fh \in steady[c] /\ fh[1] \in DOMAIN walk
      BY <1>4, <2>1, <2>2, <2>3, <2>4 DEF DueInv, Owed, Running
    <3>2. \/ IsSwapped(fh[1])
          \/ \A i \in Live(ix[c]) :
               ix[c].files[i].path = fh[1] /\ ix[c].files[i].stat = stat[fh[1]] =>
                   <<i, fh[2]>> \in ix[c].postings
      BY <1>0, <1>4, <3>1, KnownHits DEF StatInv
    <3>3. /\ fh[1] \in Walked(mode[c])' /\ fh[2] \in text'[fh[1]]
          /\ <<fh[1], stat'[fh[1]]>> \notin unread'
      BY <2>1, <3>1 DEF Walked
    <3>4. IsSwapped(fh[1])' <=> IsSwapped(fh[1])
      BY <2>1 DEF IsSwapped
    <3>5. /\ fh[1] \in DOMAIN seen'[c]
          /\ \/ IsSwapped(fh[1])'
             \/ \A i \in Live(ix[c])' :
                  ix'[c].files[i].path = fh[1] /\ ix'[c].files[i].stat = seen'[c][fh[1]] =>
                      <<i, fh[2]>> \in ix'[c].postings
      BY <2>1, <2>2, <2>3, <3>1, <3>2, <3>4 DEF Live
    <3> QED BY <2>3, <3>3, <3>5 DEF Owed
  <2> QED BY <1>1, <1>4, <2>1, <2>3, <2>4
<1>5. ASSUME NEW c \in Calls, ReadFiles(c) PROVE DueInv'
  <2> DEFINE x == ix[c]
             walk == seen[c]
  <2>1. PICK order \in Bijection(1 .. Cardinality(Added(x, walk)), Added(x, walk)),
             failed \in SUBSET (Added(x, walk) \cup
                                  {x.files[i].path : i \in Modified(x, walk)}) :
          /\ edits' = IF failed = {} THEN edits ELSE edits + 1
          /\ ix' = [ix EXCEPT ![c] = Rebuilt(x, walk, order, failed, mode[c])]
          /\ unread' = unread \cup {<<f, walk[f]>> : f \in failed}
          /\ steady' = [d \in Calls |-> {fh \in steady[d] : fh[1] \in failed =>
                           d # c /\ stat[fh[1]] # walk[fh[1]]}]
    BY <1>5 DEF ReadFiles, Count
  <2>2. IsWalk(walk)
    BY <1>5 DEF ReadFiles, IsWalk, TypeOK
  <2>3. UNCHANGED <<stat, text, ignored, swapped, result, mode, seen>> /\ pc[c] = "read"
        /\ pc' = [pc EXCEPT ![c] = "print"]
    BY <1>5 DEF ReadFiles, Goto
  <2>4. failed \subseteq DOMAIN walk
    BY DEF Added, Modified
  <2>5. \A v \in unread' : v[2] <= edits' + 2
    <3>1. \A f \in failed : walk[f] \in 1 .. edits + 2
      BY <2>3, <2>4 DEF StatInv
    <3>2. edits' \in Nat /\ edits <= edits'
      BY <1>0, <2>1
    <3>3. \A v \in unread : v[2] \in Nat /\ v[2] <= edits + 2
      BY <1>0 DEF DueInv, Versions
    <3> QED BY <1>0, <2>1, <3>1, <3>2, <3>3
  <2>6. PICK y : y = Rebuilt(x, walk, order, failed, mode[c])
    OBVIOUS
  <2>7. /\ ix'[c] = y /\ pc'[c] = "print"
        /\ \A d \in Calls : d # c => pc'[d] = pc[d] /\ ix'[d] = ix[d]
        /\ \A d \in Calls : steady'[d] = {fh \in steady[d] : fh[1] \in failed =>
                                         d # c /\ stat[fh[1]] # walk[fh[1]]}
    BY <1>0, <2>1, <2>3, <2>6
  <2>8. ASSUME NEW d \in Calls, NEW fh \in steady'[d]
        PROVE  <<fh[1], stat[fh[1]]>> \in unread' => <<fh[1], stat[fh[1]]>> \in unread
    BY <2>1, <2>7
  <2>9. ASSUME NEW d \in Calls, NEW fh \in steady'[d], d # c
        PROVE  Owed(d, fh)'
    <3>1. Owed(d, fh)
      BY <2>7 DEF DueInv
    <3> QED BY <2>3, <2>7, <2>8, <2>9, <3>1 DEF Owed, Walked, IsSwapped
  <2>10. ASSUME NEW fh \in steady'[c] PROVE Owed(c, fh)'
    <3>1. Owed(c, fh) /\ fh[1] \notin failed
      BY <2>7 DEF DueInv
    <3>2. /\ fh[1] \in Walked(mode[c]) /\ fh[2] \in text[fh[1]]
          /\ <<fh[1], stat[fh[1]]>> \notin unread
          /\ fh[1] \in DOMAIN walk
          /\ \/ IsSwapped(fh[1])
             \/ \A i \in Live(x) :
                   x.files[i].path = fh[1] /\ x.files[i].stat = walk[fh[1]] =>
                       <<i, fh[2]>> \in x.postings
      BY <2>3, <3>1 DEF Owed, Running
    <3>3. ASSUME ~IsSwapped(fh[1])
          PROVE  fh \in Candidates(y, FALSE)
      <4>0. fh[2] \in Hits /\ fh = <<fh[1], fh[2]>>
        BY <1>0, <2>7
      <4>1. /\ LivePaths(y) = DOMAIN walk
            /\ \A i \in Live(y) : y.files[i].stat = walk[y.files[i].path]
            /\ \A i \in Live(y) :
                 \/ /\ i \in Live(x) /\ y.files[i].path = x.files[i].path
                    /\ y.files[i].stat = x.files[i].stat
                    /\ \A h \in Hits : <<i, h>> \in y.postings <=> <<i, h>> \in x.postings
                 \/ \A h \in Hits : <<i, h>> \in y.postings <=>
                        y.files[i].path \notin failed /\ h \in text[y.files[i].path]
        BY <1>0, <2>2, <2>6, RebuiltIsIndex
      <4>2. PICK i \in Live(y) : y.files[i].path = fh[1]
        BY <3>2, <4>1 DEF LivePaths
      <4>3. <<i, fh[2]>> \in y.postings
        BY <3>1, <3>2, <3>3, <4>0, <4>1, <4>2
      <4>4. \E p \in y.postings : <<y.files[p[1]].path, p[2]>> = <<fh[1], fh[2]>>
        BY <4>2, <4>3
      <4> QED BY <4>0, <4>4 DEF Candidates
    <3>4. /\ fh[1] \in Walked(mode[c])' /\ fh[2] \in text'[fh[1]]
          /\ <<fh[1], stat'[fh[1]]>> \notin unread'
      BY <2>3, <2>8, <3>2 DEF Walked
    <3>5. IsSwapped(fh[1])' \/ fh \in Candidates(ix'[c], FALSE)
      BY <2>3, <2>7, <3>3 DEF IsSwapped
    <3> QED BY <2>7, <3>4, <3>5 DEF Owed
  <2>11. \A d \in Calls : \A fh \in steady'[d] : Owed(d, fh)'
    BY <2>9, <2>10
  <2> QED BY <2>5, <2>11 DEF DueInv
<1>6. ASSUME NEW c \in Calls, Imprint(c) PROVE DueInv'
  <2>1. /\ UNCHANGED <<stat, text, ignored, swapped, unread, result, mode, steady>>
        /\ pc[c] = "print" /\ edits' \in Nat /\ edits <= edits'
        /\ pc' = [pc EXCEPT ![c] = "save"] /\ seen' = [seen EXCEPT ![c] = <<>>]
    BY <1>6, ImprintStep
  <2>p. PICK p : ix' = [ix EXCEPT ![c] = [ix[c] EXCEPT !.print = p]]
    BY <1>6, ImprintStep
  <2>2. /\ pc'[c] = "save" /\ ix'[c] = [ix[c] EXCEPT !.print = p]
        /\ \A d \in Calls : d # c => pc'[d] = pc[d] /\ ix'[d] = ix[d] /\ seen'[d] = seen[d]
    BY <1>0, <1>6, <2>1, <2>p
  <2>3. ix'[c].files = ix[c].files /\ ix'[c].postings = ix[c].postings
    BY <1>0, <1>6, <2>2, PrintedIsIndex
  <2>4. Candidates(ix'[c], FALSE) = Candidates(ix[c], FALSE)
    BY <2>3 DEF Candidates
  <2>5. ASSUME NEW fh \in steady'[c] PROVE Owed(c, fh)'
    <3>1. Owed(c, fh)
      BY <2>1 DEF DueInv
    <3>2. /\ fh[1] \in Walked(mode[c]) /\ fh[2] \in text[fh[1]]
          /\ <<fh[1], stat[fh[1]]>> \notin unread
          /\ IsSwapped(fh[1]) \/ fh \in Candidates(ix[c], FALSE)
      BY <2>1, <3>1 DEF Owed, Running
    <3>3. /\ fh[1] \in Walked(mode[c])' /\ fh[2] \in text'[fh[1]]
          /\ <<fh[1], stat'[fh[1]]>> \notin unread'
      BY <2>1, <3>2 DEF Walked
    <3>4. IsSwapped(fh[1])' \/ fh \in Candidates(ix'[c], FALSE)
      BY <2>1, <2>4, <3>2 DEF IsSwapped
    <3> QED BY <2>2, <3>3, <3>4 DEF Owed
  <2> QED BY <1>1, <2>1, <2>2, <2>5
<1>7. ASSUME NEW c \in Calls, Save(c) PROVE DueInv'
  <2>1. /\ UNCHANGED <<stat, text, ignored, swapped, unread, edits, result, mode, steady, ix,
                       seen>>
        /\ pc[c] = "save" /\ pc' = [pc EXCEPT ![c] = "query"]
    BY <1>7 DEF Save, treeVars, historyVars, Goto
  <2>2. pc'[c] = "query" /\ \A d \in Calls : d # c => pc'[d] = pc[d]
    BY <1>0, <2>1
  <2>3. ASSUME NEW fh \in steady'[c] PROVE Owed(c, fh)'
    <3>1. Owed(c, fh)
      BY <2>1 DEF DueInv
    <3>2. /\ fh[1] \in Walked(mode[c]) /\ fh[2] \in text[fh[1]]
          /\ <<fh[1], stat[fh[1]]>> \notin unread
          /\ IsSwapped(fh[1]) \/ fh \in Candidates(ix[c], FALSE)
      BY <2>1, <3>1 DEF Owed, Running
    <3> QED BY <2>1, <2>2, <3>2 DEF Owed, Walked, IsSwapped
  <2> QED BY <1>0, <1>1, <2>1, <2>2, <2>3
<1>8. ASSUME NEW c \in Calls, Query(c) PROVE DueInv'
  <2>1. /\ UNCHANGED <<stat, text, ignored, swapped, unread, edits, mode, steady, seen>>
        /\ pc[c] = "query" /\ ix' = [ix EXCEPT ![c] = EmptyIndex]
    BY <1>8 DEF Query, treeVars, historyVars
  <2>2. PICK full \in BOOLEAN :
          \/ Goto(c, "failed") /\ UNCHANGED result
          \/ /\ Goto(c, "answered")
             /\ result' = [result EXCEPT ![c] =
                              {fh \in Candidates(ix[c], full) : fh[2] \in text[fh[1]]}]
    BY <1>8 DEF Query
  <2> DEFINE candidates == Candidates(ix[c], full)
  <2>3. /\ pc'[c] \in {"failed", "answered"}
        /\ \A d \in Calls : d # c =>
              pc'[d] = pc[d] /\ ix'[d] = ix[d] /\ result'[d] = result[d]
        /\ pc'[c] = "answered" => result'[c] = {fh \in candidates : fh[2] \in text[fh[1]]}
    BY <1>0, <2>1, <2>2 DEF Goto
  <2>4. Candidates(ix[c], FALSE) \subseteq candidates
    BY <1>0, CandidatesAreLive
  <2> HIDE DEF candidates
  <2>5. ASSUME NEW fh \in steady'[c] PROVE Owed(c, fh)'
    <3>1. Owed(c, fh)
      BY <2>1 DEF DueInv
    <3>2. fh[2] \in text[fh[1]] /\ (IsSwapped(fh[1]) \/ fh \in Candidates(ix[c], FALSE))
      BY <2>1, <3>1 DEF Owed, Running
    <3>3. pc'[c] = "answered" => IsSwapped(fh[1])' \/ fh \in result'[c]
      BY <2>1, <2>3, <2>4, <3>2 DEF IsSwapped
    <3> QED BY <2>3, <3>3 DEF Owed, Running
  <2> QED BY <1>0, <1>1, <2>1, <2>3, <2>5
\* An edit of a file: what a search still owes was not swapped there before.
<1>9. ASSUME NEW file \in Files, NEW s \in Nat, NEW hits, Edit(file, s, hits),
             swapped \subseteq swapped',
             (s = 0 /\ hits = {}) \/ s = edits + 3 \/ (s = stat[file] /\ s # 0)
      PROVE  DueInv'
  <2>1. /\ edits' = edits + 1 /\ UNCHANGED <<ignored, unread, pc, mode, ix, seen, result>>
        /\ stat' = [stat EXCEPT ![file] = s] /\ text' = [text EXCEPT ![file] = hits]
        /\ \A d \in Calls : steady'[d] = {fh \in steady[d] :
              pc[d] \in Running /\ (fh[1] = file => fh[2] \in hits /\ ~IsSwapped(file))}
    BY <1>9 DEF Edit, callVars, IsSwapped
  <2>2. \A v \in unread' : v[2] <= edits' + 2
    <3>1. \A v \in unread : v[2] \in Nat /\ v[2] <= edits + 2
      BY <1>0 DEF DueInv, Versions
    <3> QED BY <1>0, <2>1, <3>1
  <2>3. ASSUME NEW d \in Calls, NEW fh \in steady'[d] PROVE Owed(d, fh)'
    <3>1. /\ Owed(d, fh) /\ pc[d] \in Running /\ fh[1] \in Files
          /\ fh[1] = file => fh[2] \in hits /\ ~IsSwapped(file)
      BY <1>0, <2>1 DEF DueInv
    <3>2. /\ fh[1] \in Walked(mode[d]) /\ fh[2] \in text[fh[1]]
          /\ <<fh[1], stat[fh[1]]>> \notin unread
      BY <3>1 DEF Owed
    <3>3. CASE fh[1] = file
      <4>1. stat'[file] = s /\ text'[file] = hits
        BY <1>0, <2>1
      <4>2. s # 0 /\ <<file, s>> \notin unread
        <5>1. s # 0
          BY <1>0, <1>9, <3>1, <3>3
        <5>2. CASE s = edits + 3
          BY <1>0, <5>1, <5>2 DEF DueInv, Versions
        <5>3. CASE s = stat[file]
          BY <3>2, <3>3, <5>1, <5>3
        <5> QED BY <1>9, <5>1, <5>2, <5>3
      <4>3. fh[1] \in Walked(mode[d])'
        BY <2>1, <3>2, <3>3, <4>1, <4>2 DEF Walked
      <4>4. <<fh[1], stat'[fh[1]]>> \notin unread' /\ fh[2] \in text'[fh[1]]
        BY <2>1, <3>1, <3>3, <4>1, <4>2
      <4>5. pc[d] = "read" =>
              /\ fh[1] \in DOMAIN seen[d]
              /\ \A i \in Live(ix[d]) :
                   ix[d].files[i].path = fh[1] /\ ix[d].files[i].stat = seen[d][fh[1]] =>
                       <<i, fh[2]>> \in ix[d].postings
        BY <3>1, <3>3 DEF Owed
      <4>6. pc[d] \in {"print", "save", "query"} => fh \in Candidates(ix[d], FALSE)
        BY <3>1, <3>3 DEF Owed
      <4>7. pc'[d] = pc[d] /\ ix'[d] = ix[d] /\ seen'[d] = seen[d] /\ pc[d] # "answered"
        BY <2>1, <3>1 DEF Running
      <4> QED BY <4>3, <4>4, <4>5, <4>6, <4>7 DEF Owed
    <3>4. CASE fh[1] # file
      <4>1. stat'[fh[1]] = stat[fh[1]] /\ text'[fh[1]] = text[fh[1]]
        BY <1>0, <2>1, <3>1, <3>4
      <4>2. fh[1] \in Walked(mode[d])'
        BY <2>1, <3>2, <4>1 DEF Walked
      <4>3. IsSwapped(fh[1]) => IsSwapped(fh[1])'
        BY <1>9, <4>1 DEF IsSwapped
      <4>4. <<fh[1], stat'[fh[1]]>> \notin unread' /\ fh[2] \in text'[fh[1]]
        BY <2>1, <3>2, <4>1
      <4>5. pc[d] = "read" =>
              /\ fh[1] \in DOMAIN seen[d]
              /\ \/ IsSwapped(fh[1])
                 \/ \A i \in Live(ix[d]) :
                      ix[d].files[i].path = fh[1] /\ ix[d].files[i].stat = seen[d][fh[1]] =>
                          <<i, fh[2]>> \in ix[d].postings
        BY <3>1 DEF Owed
      <4>6. pc[d] \in {"print", "save", "query"} =>
              IsSwapped(fh[1]) \/ fh \in Candidates(ix[d], FALSE)
        BY <3>1 DEF Owed
      <4>7. pc'[d] = pc[d] /\ ix'[d] = ix[d] /\ seen'[d] = seen[d] /\ pc[d] # "answered"
        BY <2>1, <3>1 DEF Running
      <4> QED BY <4>2, <4>3, <4>4, <4>5, <4>6, <4>7 DEF Owed
    <3> QED BY <3>3, <3>4
  <2> QED BY <2>2, <2>3 DEF DueInv
<1>10. ASSUME NEW file \in Files, Write(file) PROVE DueInv'
  <2>1. PICK hits : Edit(file, edits + 3, hits)
    BY <1>10 DEF Write
  <2>2. swapped \subseteq swapped' /\ edits + 3 \in Nat
    BY <1>0, <1>10 DEF Write
  <2> QED BY <1>9, <2>1, <2>2
<1>11. ASSUME NEW file \in Files, Remove(file) PROVE DueInv'
  <2>1. Edit(file, 0, {}) /\ swapped \subseteq swapped'
    BY <1>11 DEF Remove
  <2> QED BY <1>9, <2>1
<1>12. ASSUME NEW file \in Files, Swap(file) PROVE DueInv'
  <2>1. PICK hits : Edit(file, stat[file], hits)
    BY <1>12 DEF Swap
  <2>2. swapped \subseteq swapped' /\ stat[file] \in Nat /\ stat[file] # 0
    BY <1>0, <1>12 DEF Swap
  <2> QED BY <1>9, <2>1, <2>2
<1>13. ASSUME UNCHANGED <<stat, text, swapped, unread, pc, mode, ix, seen, result>>,
              edits' \in Nat, edits <= edits',
              \A d \in Calls : \A fh \in steady'[d] :
                 fh \in steady[d] /\ (fh[1] \in ignored' => fh[1] \in ignored \/ mode[d])
       PROVE  DueInv'
  <2>1. \A v \in unread' : v[2] <= edits' + 2
    <3>1. \A v \in unread : v[2] \in Nat /\ v[2] <= edits + 2
      BY <1>0 DEF DueInv, Versions
    <3> QED BY <1>0, <1>13, <3>1
  <2>2. ASSUME NEW d \in Calls, NEW fh \in steady'[d] PROVE Owed(d, fh)'
    <3>1. Owed(d, fh) /\ (fh[1] \in ignored' => fh[1] \in ignored \/ mode[d])
      BY <1>13 DEF DueInv
    <3>2. fh[1] \in Walked(mode[d]) => fh[1] \in Walked(mode[d])'
      BY <1>13, <3>1 DEF Walked
    <3> QED BY <1>13, <3>1, <3>2 DEF Owed, Live, IsSwapped
  <2> QED BY <2>1, <2>2 DEF DueInv
<1>14. ASSUME NEW f \in Files, Ignore(f) PROVE DueInv'
  <2>1. /\ UNCHANGED <<stat, text, swapped, unread, pc, mode, ix, seen, result>>
        /\ edits' = edits + 1
    BY <1>14 DEF Ignore, callVars
  <2>2. \A d \in Calls : \A fh \in steady'[d] :
          fh \in steady[d] /\ (fh[1] \in ignored' => fh[1] \in ignored \/ mode[d])
    <3>1. CASE f \in ignored
      BY <1>14, <3>1 DEF Ignore
    <3>2. CASE f \notin ignored
      BY <1>14, <3>2 DEF Ignore
    <3> QED BY <3>1, <3>2
  <2> QED BY <1>0, <1>13, <2>1, <2>2
<1>15. ASSUME Spoil PROVE DueInv'
  BY <1>0, <1>13, <1>15 DEF Spoil, callVars, historyVars
<1>16. CASE UNCHANGED vars
  BY <1>0, <1>13, <1>16 DEF vars
<1> QED BY <1>2, <1>3, <1>4, <1>5, <1>6, <1>7, <1>8, <1>10, <1>11, <1>12, <1>14, <1>15,
           <1>16 DEF Next, Search

\* A search finds every hit that was in the tree all the time it ran, with three
\* exceptions: versions that a build could not read, which those over 10 MB never
\* can be; versions that changed under their stat; and files that the search's own
\* walk, or the scan that took the index for fresh, has missed.  Within these the
\* index introduces no false negative (select_regex_prefilter_literals), in whatever
\* order searches build, save and load it, and whatever the walks of others missed.
THEOREM NoFalseNegative == Spec => []NothingIsMissed
<1>1. DueInv => NothingIsMissed
  BY DEF DueInv, Owed, IsSwapped, NothingIsMissed
<1> QED BY <1>1, TypeInit, TypeNext, StatInit, StatNext, DueInit, DueNext, PTL DEF Spec
=============================================================================
