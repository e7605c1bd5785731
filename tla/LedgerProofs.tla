---------------------------- MODULE LedgerProofs ----------------------------
(***************************************************************************)
(* What the ledger guarantees for any number of agents, calls, topics and  *)
(* artifacts, any caps, and every combination of the faults.               *)
(*                                                                         *)
(* RecordInv says whose record an index entry is, and that it does not     *)
(* change once made.  SectionInv says what the call in the locked section  *)
(* has on disk and has yet to unlink.                                      *)
(***************************************************************************)
EXTENDS Ledger, TLAPS, FiniteSetTheorems

\* An entry of an index is the record of a call that has made it; it was
\* recorded in history, and its call writes nothing any more.
RecordInv ==
    /\ claims \subseteq claimed
    /\ findings \subseteq recorded
    /\ \A d \in claimed : pc[d] = "done" /\ req[d] \in ClaimRequests
    /\ \A d \in recorded : /\ pc[d] \in {"collect", "done"}
                           /\ req[d] \in RecordRequests

\* The call in the section is the one that holds the lock.
LockInv ==
    /\ lock # None => pc[lock] \in {"stored", "collect"}
    /\ \A c \in Calls : pc[c] \in {"stored", "collect"} => lock = c

\* Its artifact is on disk when it writes the index, and what it has yet to
\* unlink is not listed.
SectionInv ==
    \A c \in Calls :
         /\ pc[c] \in {"stored", "collect"} => req[c] \in RecordRequests
         /\ pc[c] = "stored" => blob[req[c].artifact] # "none"
         /\ pc[c] # "collect" => todo[c] = {}
         /\ pc[c] = "called" => req[c] \in Requests
         /\ todo[c] \cap ArtifactsOf(findings) = {}

\* Every blob on disk is listed, left by a failure, or the section's business.
Accounted ==
    \A a \in OnDisk :
        \/ a \in ArtifactsOf(findings) \/ a \in leaked
        \/ lock # None /\ \/ pc[lock] = "stored" /\ a = req[lock].artifact
                          \/ a \in todo[lock]

\* A find verifies findings it has read in the index.
ReadingInv == \A c \in Calls : reading[c] \subseteq recorded

\* The clock counts the calls that have begun, each stamped on the way.
Begun == {c \in Calls : pc[c] # "new"}
ClockInv == /\ clock = Cardinality(Begun)
            /\ \A c \in Calls : stamp[c] =< clock

\* TypeOK, split into what the calls are about and what the disk holds.
Types ==
    /\ claims \subseteq Calls /\ findings \subseteq Calls
    /\ blob \in [Artifacts -> {"none", "good", "large", "bad"}]
    /\ lock \in Calls \cup {None}
    /\ pc \in [Calls -> {"new", "called", "stored", "collect", "verify",
                         "done"}]
    /\ req \in [Calls -> Requests \cup {None}]
    /\ overlaps \in [Calls -> SUBSET Calls]
    /\ todo \in [Calls -> SUBSET Artifacts]
    /\ reading \in [Calls -> SUBSET Calls]
    /\ claimed \subseteq Calls /\ recorded \subseteq Calls
    /\ released \subseteq Calls
    /\ leaked \subseteq Artifacts /\ misread \subseteq Calls

Times ==
    /\ clock \in 0..Cardinality(Calls)
    /\ stamp \in [Calls -> 0..Cardinality(Calls)]

\* The inductive invariant.
IInv == Types /\ Times /\ LockInv /\ ClockInv /\ RecordInv /\ SectionInv

-----------------------------------------------------------------------------
(* The operators of the module *)

\* A live record is one of the records.
LEMMA LiveSubset ==
    ASSUME NEW records, NEW now
    PROVE  Live(records, now) \subseteq records
BY DEF Live

\* What a record call writes into the index.
LEMMA NextFindingsSubset ==
    ASSUME NEW c \in Calls
    PROVE  NextFindings(c) \subseteq findings \cup {c}
BY DEF NextFindings, Fitting, NewestOf, Live

\* A request with the command "record" names an artifact.
LEMMA RecordRequest ==
    ASSUME NEW r \in Requests, r.cmd = "record"
    PROVE  r \in RecordRequests
BY DEF Requests, ClaimRequests, RecordRequests, ReleaseById, ReleaseByTopic,
       FindRequests

LEMMA ClaimRequest ==
    ASSUME NEW r \in Requests, r.cmd = "claim"
    PROVE  r \in ClaimRequests
BY DEF Requests, ClaimRequests, RecordRequests, ReleaseById, ReleaseByTopic,
       FindRequests

LEMMA RecordRequestType ==
    ASSUME NEW r \in RecordRequests
    PROVE  r \in Requests /\ r.artifact \in Artifacts /\ r.ttl \in Nat
BY TTLAssumption DEF Requests, RecordRequests

LEMMA ClaimRequestType ==
    ASSUME NEW r \in ClaimRequests
    PROVE  r \in Requests /\ r.ttl \in Nat
BY TTLAssumption DEF Requests, ClaimRequests
-----------------------------------------------------------------------------
(* Type correctness *)

LEMMA TypesStep ==
    ASSUME Types, [Next]_vars
    PROVE  Types'
<1> USE DEF Types, callVars, claimVars, findingVars,
         findVars
<1>1. ASSUME NEW c \in Calls, Begin(c) PROVE Types'
  BY <1>1 DEF Begin, Goto
<1>2. ASSUME NEW c \in Calls, LockFails(c) PROVE Types'
  BY <1>2 DEF LockFails, End, Goto
<1>3. ASSUME NEW c \in Calls, Submit(c) PROVE Types'
  BY <1>3 DEF Submit, Goto, Live, NewestOf, Overlapping
<1>4. ASSUME NEW c \in Calls, Release(c) PROVE Types'
  BY <1>4 DEF Release, End, Goto, Live
<1>5. ASSUME NEW c \in Calls, StoreBlob(c) PROVE Types'
  BY <1>5 DEF StoreBlob, Stored, Goto
<1>6. ASSUME NEW c \in Calls, WriteIndex(c) PROVE Types'
  BY <1>6, NextFindingsSubset DEF WriteIndex, Goto, Orphans, OnDisk
<1>7. ASSUME NEW c \in Calls, WriteFails(c) PROVE Types'
  BY <1>7 DEF WriteFails, End, Goto, Orphans, OnDisk
<1>8. ASSUME NEW c \in Calls, Collect(c) PROVE Types'
  BY <1>8 DEF Collect
<1>9. ASSUME NEW c \in Calls, CollectFails(c) PROVE Types'
  BY <1>9 DEF CollectFails
<1>10. ASSUME NEW c \in Calls, Return(c) PROVE Types'
  BY <1>10 DEF Return, Goto
<1>11. ASSUME NEW c \in Calls, Crash(c) PROVE Types'
  BY <1>11 DEF Crash, End, Goto, Orphans, OnDisk
<1>12. ASSUME NEW c \in Calls, ReadIndex(c) PROVE Types'
  BY <1>12 DEF ReadIndex, Goto, Live
<1>13. ASSUME NEW c \in Calls, Verify(c) PROVE Types'
  BY <1>13 DEF Verify
<1>14. ASSUME NEW c \in Calls, Refuse(c) \/ ReadFails(c) PROVE Types'
  BY <1>14 DEF Refuse, ReadFails, End, Goto
<1>15. ASSUME NEW c \in Calls, Serve(c) PROVE Types'
  BY <1>15 DEF Serve, End, Goto
<1>16. ASSUME NEW a \in Artifacts, Damage(a) PROVE Types'
  BY <1>16 DEF Damage
<1>17. CASE UNCHANGED vars
  BY <1>17 DEF vars
<1> QED
  BY <1>1, <1>2, <1>3, <1>4, <1>5, <1>6, <1>7, <1>8, <1>9, <1>10, <1>11,
     <1>12, <1>13, <1>14, <1>15, <1>16, <1>17 DEF Next, CallStep

\* Every call that enters the section finds the lock free, and frees it.
LEMMA LockStep ==
    ASSUME Types, LockInv, [Next]_vars
    PROVE  LockInv'
<1> USE NoneAssumption DEF Types, LockInv, callVars, claimVars, findingVars,
         findVars
<1>1. ASSUME NEW c \in Calls, Begin(c) PROVE LockInv'
  BY <1>1 DEF Begin, Goto
<1>2. ASSUME NEW c \in Calls, LockFails(c) PROVE LockInv'
  BY <1>2 DEF LockFails, End, Goto
<1>3. ASSUME NEW c \in Calls, Submit(c) PROVE LockInv'
  BY <1>3 DEF Submit, Goto
<1>4. ASSUME NEW c \in Calls, Release(c) PROVE LockInv'
  BY <1>4 DEF Release, End, Goto
<1>5. ASSUME NEW c \in Calls, StoreBlob(c) PROVE LockInv'
  BY <1>5 DEF StoreBlob, Goto
<1>6. ASSUME NEW c \in Calls, WriteIndex(c) PROVE LockInv'
  BY <1>6 DEF WriteIndex, Goto
<1>7. ASSUME NEW c \in Calls, WriteFails(c) PROVE LockInv'
  BY <1>7 DEF WriteFails, End, Goto
<1>8. ASSUME NEW c \in Calls, Collect(c) \/ CollectFails(c) PROVE LockInv'
  BY <1>8 DEF Collect, CollectFails
<1>9. ASSUME NEW c \in Calls, Return(c) PROVE LockInv'
  BY <1>9 DEF Return, Goto
<1>10. ASSUME NEW c \in Calls, Crash(c) PROVE LockInv'
  BY <1>10 DEF Crash, End, Goto
<1>11. ASSUME NEW c \in Calls, ReadIndex(c) PROVE LockInv'
  BY <1>11 DEF ReadIndex, Goto
<1>12. ASSUME NEW c \in Calls, Verify(c) PROVE LockInv'
  BY <1>12 DEF Verify
<1>13. ASSUME NEW c \in Calls, Refuse(c) \/ ReadFails(c) \/ Serve(c)
      PROVE  LockInv'
  BY <1>13 DEF Refuse, ReadFails, Serve, End, Goto
<1>14. ASSUME NEW a \in Artifacts, Damage(a) PROVE LockInv'
  BY <1>14 DEF Damage
<1>15. CASE UNCHANGED vars
  BY <1>15 DEF vars
<1> QED
  BY <1>1, <1>2, <1>3, <1>4, <1>5, <1>6, <1>7, <1>8, <1>9, <1>10, <1>11,
     <1>12, <1>13, <1>14, <1>15 DEF Next, CallStep

\* Only Begin moves the clock, and it takes one more call out of "new".
LEMMA ClockStep ==
    ASSUME Types, Times, LockInv, ClockInv, [Next]_vars
    PROVE  Times' /\ ClockInv'
<1> USE DEF Types, callVars, claimVars, findingVars,
         findVars
<1>1. ASSUME NEW c \in Calls, Begin(c) PROVE Times' /\ ClockInv'
  <2>1. Begun' = Begun \cup {c} /\ c \notin Begun
    BY <1>1 DEF Begin, Goto, Begun
  <2>2. Begun' \subseteq Calls /\ Begun \subseteq Calls
    BY DEF Begun
  <2>3. IsFiniteSet(Begun)
    BY <2>2, FiniteAssumption, FS_Subset
  <2>4. Cardinality(Begun') = Cardinality(Begun) + 1
    BY <2>1, <2>3, FS_AddElement
  <2>5. Cardinality(Begun') \in Nat /\ Cardinality(Begun') =< Cardinality(Calls)
    BY <2>2, FiniteAssumption, FS_Subset, FS_CardinalityType
  <2>6. clock' = clock + 1 /\ stamp' = [stamp EXCEPT ![c] = clock']
    BY <1>1 DEF Begin
  <2>7. Cardinality(Calls) \in Nat
    BY FiniteAssumption, FS_CardinalityType
  <2> QED BY <2>4, <2>5, <2>6, <2>7 DEF ClockInv, Times
<1>2. ASSUME clock' = clock, Begun' = Begun,
             \/ stamp' = stamp
             \/ \E c \in Calls : stamp' = [stamp EXCEPT ![c] = 0]
      PROVE  Times' /\ ClockInv'
  <2>1. Cardinality(Calls) \in Nat
    BY FiniteAssumption, FS_CardinalityType
  <2> QED BY <1>2, <2>1 DEF Times, ClockInv
<1>3. ASSUME NEW c \in Calls, CallStep(c), ~Begin(c) PROVE Times' /\ ClockInv'
  <2>1. clock' = clock
    BY <1>3 DEF CallStep, LockFails, Submit, Release, StoreBlob, WriteIndex,
         WriteFails, Collect, CollectFails, Return, Crash, ReadIndex, Verify,
         Refuse, ReadFails, Serve
  <2>2. stamp' = stamp \/ stamp' = [stamp EXCEPT ![c] = 0]
    BY <1>3 DEF CallStep, LockFails, Submit, Release, StoreBlob, WriteIndex,
         WriteFails, Collect, CollectFails, Return, Crash, ReadIndex, Verify,
         Refuse, ReadFails, Serve, End
  <2>3. Begun' = Begun
    BY <1>3, NoneAssumption DEF LockInv, CallStep, LockFails, Submit, Release,
              StoreBlob, WriteIndex, WriteFails, Collect, CollectFails, Return,
              Crash, ReadIndex, Verify, Refuse, ReadFails, Serve, End, Goto,
              Begun
  <2> QED BY <1>2, <2>1, <2>2, <2>3
<1>4. ASSUME NEW a \in Artifacts, Damage(a) PROVE Times' /\ ClockInv'
  BY <1>2, <1>4 DEF Damage, Begun
<1>5. CASE UNCHANGED vars
  BY <1>2, <1>5 DEF vars, Begun
<1> QED BY <1>1, <1>3, <1>4, <1>5 DEF Next

LEMMA InitialTypes == Init => Types /\ Times /\ LockInv /\ ClockInv
<1>1. Init => Types /\ LockInv
  BY DEF Init, Types, LockInv
<1>2. Cardinality(Calls) \in Nat
  BY FiniteAssumption, FS_CardinalityType
<1>3. Init => Times
  BY <1>2 DEF Init, Times
<1>4. Init => Begun = {}
  BY DEF Init, Begun
<1>5. Init => ClockInv
  BY <1>4, FS_EmptySet DEF Init, ClockInv
<1> QED BY <1>1, <1>3, <1>5

-----------------------------------------------------------------------------
(* Records and the locked section *)

\* A record is made in the step that puts it into the index; no later step of
\* its call changes what it says.
LEMMA RecordStep ==
    ASSUME Types, LockInv, SectionInv, RecordInv, [Next]_vars
    PROVE  RecordInv'
<1> USE DEF Types, RecordInv, callVars, claimVars, findingVars,
         findVars
<1>1. ASSUME NEW c \in Calls, Begin(c) PROVE RecordInv'
  BY <1>1 DEF Begin, Goto
<1>2. ASSUME NEW c \in Calls, LockFails(c) PROVE RecordInv'
  BY <1>2 DEF LockFails, End, Goto
<1>3. ASSUME NEW c \in Calls, Submit(c) PROVE RecordInv'
  <2>1. req[c] \in ClaimRequests
    BY <1>3, ClaimRequest DEF Submit, SectionInv, Cmd
  <2>2. claims' \subseteq claims \cup {c}
    BY <1>3 DEF Submit, NewestOf, Live
  <2> QED BY <1>3, <2>1, <2>2 DEF Submit, Goto
<1>4. ASSUME NEW c \in Calls, Release(c) PROVE RecordInv'
  <2>1. claims' \subseteq claims
    BY <1>4 DEF Release, Live
  <2> QED BY <1>4, <2>1 DEF Release, End, Goto
<1>5. ASSUME NEW c \in Calls, StoreBlob(c) PROVE RecordInv'
  BY <1>5 DEF StoreBlob, Goto
<1>6. ASSUME NEW c \in Calls, WriteIndex(c) PROVE RecordInv'
  <2>1. findings' \subseteq findings \cup {c}
    BY <1>6, NextFindingsSubset DEF WriteIndex
  <2> QED BY <1>6, <2>1 DEF WriteIndex, Goto, SectionInv
<1>7. ASSUME NEW c \in Calls, WriteFails(c) PROVE RecordInv'
  BY <1>7 DEF WriteFails, End, Goto
<1>8. ASSUME NEW c \in Calls, Collect(c) \/ CollectFails(c) PROVE RecordInv'
  BY <1>8 DEF Collect, CollectFails
<1>9. ASSUME NEW c \in Calls, Return(c) PROVE RecordInv'
  BY <1>9 DEF Return, Goto
<1>10. ASSUME NEW c \in Calls, Crash(c) PROVE RecordInv'
  BY <1>10, NoneAssumption DEF Crash, End, Goto, LockInv
<1>11. ASSUME NEW c \in Calls, ReadIndex(c) PROVE RecordInv'
  BY <1>11 DEF ReadIndex, Goto
<1>12. ASSUME NEW c \in Calls, Verify(c) PROVE RecordInv'
  BY <1>12 DEF Verify
<1>13. ASSUME NEW c \in Calls, Refuse(c) \/ ReadFails(c) \/ Serve(c)
      PROVE  RecordInv'
  BY <1>13 DEF Refuse, ReadFails, Serve, End, Goto
<1>14. ASSUME NEW a \in Artifacts, Damage(a) PROVE RecordInv'
  BY <1>14 DEF Damage
<1>15. CASE UNCHANGED vars
  BY <1>15 DEF vars
<1> QED
  BY <1>1, <1>2, <1>3, <1>4, <1>5, <1>6, <1>7, <1>8, <1>9, <1>10, <1>11,
     <1>12, <1>13, <1>14, <1>15 DEF Next, CallStep

\* What the listed findings name stays the same while the index does.
LEMMA SameArtifacts ==
    ASSUME findings' = findings, \A d \in findings : req'[d] = req[d]
    PROVE  ArtifactsOf(findings)' = ArtifactsOf(findings)
BY DEF ArtifactsOf

\* A listed finding's request is changed by nobody.
LEMMA ListedKeepRequests ==
    ASSUME Types, LockInv, RecordInv, [Next]_vars, NEW d \in recorded
    PROVE  req'[d] = req[d]
<1> USE DEF Types, RecordInv, callVars, claimVars, findingVars,
         findVars
<1>1. ASSUME NEW c \in Calls, CallStep(c), ~Crash(c) PROVE req'[d] = req[d]
  BY <1>1 DEF CallStep, Begin, LockFails, Submit, Release, StoreBlob,
     WriteIndex, WriteFails, Collect, CollectFails, Return, ReadIndex, Verify,
     Refuse, ReadFails, Serve, End
<1>2. ASSUME NEW c \in Calls, Crash(c) PROVE req'[d] = req[d]
  BY <1>2, NoneAssumption DEF Crash, End, LockInv
<1>3. ASSUME NEW a \in Artifacts, Damage(a) PROVE req'[d] = req[d]
  BY <1>3 DEF Damage
<1>4. CASE UNCHANGED vars
  BY <1>4 DEF vars
<1> QED BY <1>1, <1>2, <1>3, <1>4 DEF Next

LEMMA ClaimsKeepRequests ==
    ASSUME Types, LockInv, RecordInv, [Next]_vars, NEW d \in claimed
    PROVE  req'[d] = req[d]
<1> USE DEF Types, RecordInv, callVars, claimVars, findingVars,
         findVars
<1>1. ASSUME NEW c \in Calls, CallStep(c), ~Crash(c) PROVE req'[d] = req[d]
  BY <1>1 DEF CallStep, Begin, LockFails, Submit, Release, StoreBlob,
     WriteIndex, WriteFails, Collect, CollectFails, Return, ReadIndex, Verify,
     Refuse, ReadFails, Serve, End
<1>2. ASSUME NEW c \in Calls, Crash(c) PROVE req'[d] = req[d]
  BY <1>2, NoneAssumption DEF Crash, End, LockInv
<1>3. ASSUME NEW a \in Artifacts, Damage(a) PROVE req'[d] = req[d]
  BY <1>3 DEF Damage
<1>4. CASE UNCHANGED vars
  BY <1>4 DEF vars
<1> QED BY <1>1, <1>2, <1>3, <1>4 DEF Next

\* The section's invariant: nobody else writes blobs or the index meanwhile.
LEMMA SectionStep ==
    ASSUME Types, LockInv, RecordInv, SectionInv, [Next]_vars
    PROVE  SectionInv'
<1> USE NoneAssumption DEF Types, SectionInv, callVars, claimVars, findingVars,
         findVars
<1>0. findings' = findings => ArtifactsOf(findings)' = ArtifactsOf(findings)
  BY SameArtifacts, ListedKeepRequests DEF RecordInv
<1>1. ASSUME NEW c \in Calls, Begin(c) PROVE SectionInv'
  BY <1>0, <1>1 DEF Begin, Goto
<1>2. ASSUME NEW c \in Calls, LockFails(c) PROVE SectionInv'
  BY <1>0, <1>2 DEF LockFails, End, Goto
<1>3. ASSUME NEW c \in Calls, Submit(c) PROVE SectionInv'
  BY <1>0, <1>3 DEF Submit, Goto
<1>4. ASSUME NEW c \in Calls, Release(c) PROVE SectionInv'
  BY <1>0, <1>4 DEF Release, End, Goto
<1>5. ASSUME NEW c \in Calls, StoreBlob(c) PROVE SectionInv'
  <2>1. req[c] \in RecordRequests /\ req[c].artifact \in Artifacts
    BY <1>5, RecordRequest, RecordRequestType DEF StoreBlob, Cmd
  <2>2. blob'[req[c].artifact] # "none"
    BY <1>5, <2>1 DEF StoreBlob, Stored
  <2> QED BY <1>0, <1>5, <2>1, <2>2 DEF StoreBlob, Goto, LockInv
<1>6. ASSUME NEW c \in Calls, WriteIndex(c) PROVE SectionInv'
  <2>1. \A d \in Calls : d # c => todo[d] = {}
    BY <1>6 DEF WriteIndex, LockInv
  <2>2. ArtifactsOf(findings)' = ArtifactsOf(NextFindings(c))
    BY <1>6 DEF WriteIndex, ArtifactsOf
  <2>3. todo'[c] \cap ArtifactsOf(findings)' = {}
    BY <1>6, <2>2 DEF WriteIndex, Orphans
  <2>4. \A d \in Calls : d # c => todo'[d] = {}
    BY <1>6, <2>1 DEF WriteIndex
  <2> QED BY <1>6, <2>3, <2>4 DEF WriteIndex, Goto
<1>7. ASSUME NEW c \in Calls, WriteFails(c) PROVE SectionInv'
  BY <1>0, <1>7 DEF WriteFails, End, Goto
<1>8. ASSUME NEW c \in Calls, Collect(c) PROVE SectionInv'
  BY <1>0, <1>8 DEF Collect, LockInv
<1>9. ASSUME NEW c \in Calls, CollectFails(c) PROVE SectionInv'
  BY <1>0, <1>9 DEF CollectFails
<1>10. ASSUME NEW c \in Calls, Return(c) PROVE SectionInv'
  BY <1>0, <1>10 DEF Return, Goto
<1>11. ASSUME NEW c \in Calls, Crash(c) PROVE SectionInv'
  BY <1>0, <1>11 DEF Crash, End, Goto, LockInv
<1>12. ASSUME NEW c \in Calls, ReadIndex(c) PROVE SectionInv'
  BY <1>0, <1>12 DEF ReadIndex, Goto
<1>13. ASSUME NEW c \in Calls, Verify(c) PROVE SectionInv'
  BY <1>0, <1>13 DEF Verify
<1>14. ASSUME NEW c \in Calls, Refuse(c) \/ ReadFails(c) \/ Serve(c)
      PROVE  SectionInv'
  BY <1>0, <1>14 DEF Refuse, ReadFails, Serve, End, Goto
<1>15. ASSUME NEW a \in Artifacts, Damage(a) PROVE SectionInv'
  BY <1>0, <1>15 DEF Damage
<1>16. CASE UNCHANGED vars
  BY <1>0, <1>16 DEF vars
<1> QED
  BY <1>1, <1>2, <1>3, <1>4, <1>5, <1>6, <1>7, <1>8, <1>9, <1>10, <1>11,
     <1>12, <1>13, <1>14, <1>15, <1>16 DEF Next, CallStep

\* What a find reads are recorded findings.
LEMMA ReadingStep ==
    ASSUME IInv, ReadingInv, [Next]_vars
    PROVE  ReadingInv'
<1> USE DEF IInv, Types, RecordInv, ReadingInv, callVars, claimVars, findingVars,
         findVars
<1>1. ASSUME NEW c \in Calls, ReadIndex(c) PROVE ReadingInv'
  BY <1>1 DEF ReadIndex, Live
<1>2. ASSUME NEW c \in Calls, CallStep(c), ~ReadIndex(c) PROVE ReadingInv'
  BY <1>2 DEF CallStep, Begin, LockFails, Submit, Release, StoreBlob,
     WriteIndex, WriteFails, Collect, CollectFails, Return, Crash, Verify,
     Refuse, ReadFails, Serve
<1>3. ASSUME NEW a \in Artifacts, Damage(a) PROVE ReadingInv'
  BY <1>3 DEF Damage
<1>4. CASE UNCHANGED vars
  BY <1>4 DEF vars
<1> QED BY <1>1, <1>2, <1>3, <1>4 DEF Next

LEMMA InductiveInvariant == Spec => []IInv
<1>1. Init => RecordInv /\ SectionInv
  BY DEF Init, RecordInv, SectionInv
<1>2. Init => Types /\ Times /\ LockInv /\ ClockInv
  BY InitialTypes
<1>3. IInv /\ [Next]_vars => IInv'
  BY TypesStep, LockStep, ClockStep, RecordStep, SectionStep DEF IInv
<1>4. Init => IInv
  BY <1>1, <1>2 DEF IInv
<1> QED BY <1>3, <1>4, PTL DEF Spec
-----------------------------------------------------------------------------
(* The theorems *)

\* Every variable keeps its type, and the clock never passes the number of
\* calls.
THEOREM TypeCorrect == Spec => []TypeOK
<1>1. IInv => TypeOK
  BY NoneAssumption DEF IInv, Types, Times, LockInv, TypeOK
<1> QED BY <1>1, InductiveInvariant, PTL
\* Whatever a lock-free reader sees in the index has its blob on disk, at every
\* moment of a locked section and after a crash.  (record_finding)
THEOREM BlobsOutliveListings == Spec => []ListedHaveBlobs
<1>1. Init => ListedHaveBlobs
  BY DEF Init, ListedHaveBlobs
<1>2. ASSUME IInv, ListedHaveBlobs, [Next]_vars
      PROVE  ListedHaveBlobs'
  <2> USE DEF IInv, Types, RecordInv, SectionInv, LockInv, ListedHaveBlobs,
              callVars, claimVars, findingVars,
         findVars
  <2>1. \A d \in findings : req'[d] = req[d]
    BY <1>2, ListedKeepRequests
  <2>2. \A d \in recorded : req[d].artifact \in Artifacts
    BY <1>2, RecordRequestType
  <2>3. ASSUME NEW c \in Calls, StoreBlob(c) PROVE ListedHaveBlobs'
    BY <1>2, <2>1, <2>2, <2>3 DEF StoreBlob, Stored
  <2>4. ASSUME NEW c \in Calls, WriteIndex(c) PROVE ListedHaveBlobs'
    <3>1. findings' \subseteq findings \cup {c}
      BY <2>4, NextFindingsSubset DEF WriteIndex
    <3> QED BY <1>2, <2>4, <3>1 DEF WriteIndex
  <2>5. ASSUME NEW c \in Calls, Collect(c) PROVE ListedHaveBlobs'
    <3>1. PICK a \in todo[c] : blob' = [blob EXCEPT ![a] = "none"]
      BY <2>5 DEF Collect
    <3>2. \A d \in findings : req[d].artifact # a
      BY <1>2, <3>1 DEF ArtifactsOf
    <3> QED BY <1>2, <2>1, <2>2, <2>5, <3>1, <3>2 DEF Collect
  <2>6. ASSUME NEW c \in Calls, CallStep(c),
               ~StoreBlob(c), ~WriteIndex(c), ~Collect(c)
        PROVE  findings' = findings /\ blob' = blob
    BY <2>6 DEF CallStep, Begin, LockFails, Submit, Release, WriteFails,
       CollectFails, Return, Crash, ReadIndex, Verify, Refuse, ReadFails, Serve
  <2>7. ASSUME NEW a \in Artifacts, Damage(a) PROVE ListedHaveBlobs'
    BY <1>2, <2>1, <2>2, <2>7 DEF Damage
  <2>8. ASSUME findings' = findings, blob' = blob PROVE ListedHaveBlobs'
    BY <1>2, <2>1, <2>8
  <2>9. CASE UNCHANGED vars
    BY <2>8, <2>9 DEF vars
  <2> QED BY <1>2, <2>3, <2>4, <2>5, <2>6, <2>7, <2>8, <2>9 DEF Next
<1>3. IInv /\ ListedHaveBlobs /\ [Next]_vars => ListedHaveBlobs'
  BY <1>2
<1> QED BY <1>1, <1>3, InductiveInvariant, PTL DEF Spec

\* Blobs nobody references are bounded: each is the section's own work in
\* progress or the next record collects it.  (_gc_orphaned_blobs)
THEOREM BlobsAreCollected == Spec => []NoBlobIsForgotten
<1>1. Init => Accounted
  BY DEF Init, Accounted, OnDisk
<1>2. ASSUME IInv, Accounted, [Next]_vars
      PROVE  Accounted'
  <2> USE NoneAssumption
      DEF IInv, Types, RecordInv, SectionInv, LockInv, Accounted,
          OnDisk, callVars, claimVars, findingVars,
         findVars
  <2>1. findings' = findings => ArtifactsOf(findings)' = ArtifactsOf(findings)
    BY <1>2, SameArtifacts, ListedKeepRequests
  <2>2. ASSUME NEW c \in Calls, StoreBlob(c) PROVE Accounted'
    <3>1. /\ lock = None /\ lock' = c /\ pc' = [pc EXCEPT ![c] = "stored"]
          /\ req' = req /\ findings' = findings /\ leaked' = leaked
      BY <2>2 DEF StoreBlob, Goto
    <3>2. \A a \in OnDisk' : a \in OnDisk \/ a = req[c].artifact
      BY <1>2, <2>2 DEF StoreBlob, Stored
    <3> QED BY <1>2, <2>1, <3>1, <3>2
  <2>3. ASSUME NEW c \in Calls, WriteIndex(c) PROVE Accounted'
    <3>1. ArtifactsOf(findings)' = ArtifactsOf(NextFindings(c))
      BY <2>3 DEF WriteIndex, ArtifactsOf
    <3>2. todo'[c] = OnDisk \ ArtifactsOf(NextFindings(c)) /\ lock' = c
      BY <1>2, <2>3 DEF WriteIndex, Orphans
    <3> QED BY <1>2, <2>3, <3>1, <3>2 DEF WriteIndex
  <2>4. ASSUME NEW c \in Calls, WriteFails(c) \/ Crash(c)
        PROVE Accounted'
    <3>1. leaked' = OnDisk \ ArtifactsOf(findings) /\ blob' = blob
          /\ findings' = findings
      BY <2>4 DEF WriteFails, Crash, Orphans
    <3> QED BY <2>1, <3>1
  <2>5. ASSUME NEW c \in Calls, Collect(c) PROVE Accounted'
    <3>1. PICK a \in todo[c] : /\ blob' = [blob EXCEPT ![a] = "none"]
                               /\ todo' = [todo EXCEPT ![c] = @ \ {a}]
      BY <2>5 DEF Collect
    <3> QED BY <1>2, <2>1, <2>5, <3>1 DEF Collect
  <2>6. ASSUME NEW c \in Calls, CollectFails(c) PROVE Accounted'
    <3>1. PICK a \in todo[c] : /\ leaked' = leaked \cup {a}
                               /\ todo' = [todo EXCEPT ![c] = @ \ {a}]
      BY <2>6 DEF CollectFails
    <3> QED BY <1>2, <2>1, <2>6, <3>1 DEF CollectFails
  <2>7. ASSUME NEW c \in Calls, Return(c) PROVE Accounted'
    <3>1. todo[lock] = {} /\ lock = c /\ lock' = None /\ pc[c] = "collect"
      BY <1>2, <2>7 DEF Return
    <3>2. findings' = findings /\ leaked' = leaked /\ blob' = blob
      BY <2>7 DEF Return
    <3> QED BY <1>2, <2>1, <3>1, <3>2
  <2>8. ASSUME NEW c \in Calls,
               \/ Begin(c) \/ LockFails(c) \/ Submit(c) \/ Release(c)
               \/ ReadIndex(c) \/ Verify(c) \/ Refuse(c) \/ ReadFails(c)
               \/ Serve(c)
        PROVE  Accounted'
    <3>1. UNCHANGED <<findings, blob, lock, todo, leaked>>
      BY <2>8 DEF Begin, LockFails, Submit, Release, ReadIndex, Verify, Refuse,
                ReadFails, Serve
    <3>2. lock # None => req'[lock] = req[lock] /\ pc'[lock] = pc[lock]
      BY <1>2, <2>8 DEF Goto, Begin, LockFails, Submit, Release, ReadIndex,
                Verify, Refuse, ReadFails, Serve, End
    <3> QED BY <1>2, <2>1, <3>1, <3>2
  <2>9. ASSUME NEW a \in Artifacts, Damage(a) PROVE Accounted'
    BY <1>2, <2>1, <2>9 DEF Damage, Stored
  <2>10. CASE UNCHANGED vars
    BY <1>2, <2>1, <2>10 DEF vars
  <2> QED BY <1>2, <2>2, <2>3, <2>4, <2>5, <2>6, <2>7, <2>8, <2>9, <2>10
          DEF Next, CallStep
<1>3. IInv /\ Accounted /\ [Next]_vars => Accounted'
  BY <1>2
<1>4. Accounted => NoBlobIsForgotten
  BY DEF Accounted, NoBlobIsForgotten
<1> QED BY <1>1, <1>3, <1>4, InductiveInvariant, PTL DEF Spec

\* Of two live overlapping claims one was reported to the agent that made the
\* other.  (_find_overlaps)
THEOREM OverlapsAreReported == Spec => []OverlapIsReported
<1>1. Init => OverlapIsReported
  BY DEF Init, OverlapIsReported
<1>2. ASSUME IInv, OverlapIsReported, [Next]_vars
      PROVE  OverlapIsReported'
  <2> USE DEF IInv, Types, RecordInv, OverlapIsReported, callVars, claimVars,
              findingVars, findVars
  <2>1. \A d \in claimed : req'[d] = req[d]
    BY <1>2, ClaimsKeepRequests
  <2>2. ASSUME NEW c \in Calls, Submit(c) PROVE OverlapIsReported'
    <3>1. claims' \subseteq Live(claims, stamp[c]) \cup {c}
      BY <2>2 DEF Submit, NewestOf
    <3>2. overlaps' = [overlaps EXCEPT
                         ![c] = Overlapping(c, Live(claims, stamp[c]))]
      BY <2>2 DEF Submit
    <3>3. c \notin claimed /\ req' = req
      BY <1>2, <2>2 DEF Submit
    <3>4. Live(claims, stamp[c]) \subseteq claims
      BY LiveSubset
    <3>5. \A d \in Live(claims, stamp[c]) :
            /\ ~SameAgent(req[c].agent, req[d].agent)
            /\ req[d].topics \cap req[c].topics # {}
            => d \in overlaps'[c]
      BY <1>2, <3>2 DEF Overlapping
    <3> QED BY <1>2, <3>1, <3>2, <3>3, <3>4, <3>5 DEF SameAgent
  <2>3. ASSUME NEW c \in Calls, Release(c) PROVE OverlapIsReported'
    <3>1. claims' \subseteq claims /\ overlaps' = overlaps
      BY <2>3 DEF Release, Live
    <3> QED BY <1>2, <2>1, <3>1
  <2>4. ASSUME NEW c \in Calls, CallStep(c), ~Submit(c), ~Release(c)
        PROVE  claims' = claims /\ overlaps' = overlaps
    BY <2>4 DEF CallStep, Begin, LockFails, StoreBlob, WriteIndex, WriteFails,
              Collect, CollectFails, Return, Crash, ReadIndex, Verify, Refuse,
              ReadFails, Serve
  <2>5. ASSUME NEW a \in Artifacts, Damage(a)
        PROVE  claims' = claims /\ overlaps' = overlaps
    BY <2>5 DEF Damage
  <2>6. CASE UNCHANGED vars
    BY <1>2, <2>6 DEF vars
  <2>7. ASSUME claims' = claims, overlaps' = overlaps PROVE OverlapIsReported'
    BY <1>2, <2>1, <2>7
  <2> QED BY <1>2, <2>2, <2>3, <2>4, <2>5, <2>6, <2>7 DEF Next
<1>3. IInv /\ OverlapIsReported /\ [Next]_vars => OverlapIsReported'
  BY <1>2
<1> QED BY <1>1, <1>3, InductiveInvariant, PTL DEF Spec

\* A find raises an integrity error only about a blob that is damaged, too large
\* as written or unreadable, or about a finding that has gone from the index
\* meanwhile.  (find_findings, record_finding)
THEOREM AlarmsAreHonest == Spec => AlarmIsHonest
<1> DEFINE Honest ==
      \A c \in Calls : pc[c] = "verify" /\ pc'[c] = "done" /\ reading[c] # {} =>
         \E d \in reading[c] :
            \/ blob[req[d].artifact] \in {"bad", "large"}
            \/ d \notin findings \/ c \in misread'
<1>1. ASSUME IInv, ListedHaveBlobs, ReadingInv, [Next]_vars
      PROVE  [Honest]_vars
  <2> SUFFICES ASSUME NEW c \in Calls, pc[c] = "verify", pc'[c] = "done",
                      reading[c] # {}
               PROVE  \E d \in reading[c] :
                        \/ blob[req[d].artifact] \in {"bad", "large"}
                        \/ d \notin findings \/ c \in misread'
    OBVIOUS
  <2> USE <1>1 DEF IInv, Types, callVars
  <2>1. ASSUME NEW e \in Calls, CallStep(e) PROVE Refuse(c) \/ ReadFails(c)
    <3>1. e = c
      BY <2>1 DEF CallStep, Begin, LockFails, Submit, Release, StoreBlob,
         WriteIndex, WriteFails, Collect, CollectFails, Return, Crash,
         ReadIndex, Verify, Refuse, ReadFails, Serve, End, Goto
    <3>2. ~Crash(c)
      BY NoneAssumption DEF Crash, LockInv
    <3> QED
      BY <2>1, <3>1, <3>2
         DEF CallStep, Begin, LockFails, Submit, Release, StoreBlob,
             WriteIndex, WriteFails, Collect, CollectFails, Return, ReadIndex,
             Verify, Serve, End, Goto
  <2>2. ~ \E a \in Artifacts : Damage(a)
    BY DEF Damage
  <2>3. ~ UNCHANGED vars
    BY DEF vars
  <2>4. Refuse(c) \/ ReadFails(c)
    BY <2>1, <2>2, <2>3 DEF Next
  <2>5. CASE ReadFails(c)
    BY <2>5 DEF ReadFails
  <2>6. CASE Refuse(c)
    <3>1. PICK d \in reading[c] : blob[req[d].artifact] # "good"
      BY <2>6 DEF Refuse
    <3>2. blob[req[d].artifact] \in {"bad", "large", "none"}
      BY <1>1, <3>1, RecordRequestType DEF IInv, Types, RecordInv, ReadingInv
    <3> QED BY <1>1, <3>1, <3>2 DEF ListedHaveBlobs
  <2> QED BY <2>4, <2>5, <2>6
<1>2. Init => ReadingInv
  BY DEF Init, ReadingInv
<1>3. IInv /\ ReadingInv /\ [Next]_vars => ReadingInv'
  BY ReadingStep
<1>4. IInv /\ ListedHaveBlobs /\ ReadingInv /\ [Next]_vars => [Honest]_vars
  BY <1>1
<1>5. Spec => []ReadingInv
  BY <1>2, <1>3, InductiveInvariant, PTL DEF Spec
<1> QED BY <1>4, <1>5, InductiveInvariant, BlobsOutliveListings, PTL
        DEF Spec, AlarmIsHonest
-----------------------------------------------------------------------------
(* Why records leave *)

\* A subset has at most as many members.
LEMMA FewerInSubset ==
    ASSUME NEW S, NEW T, S \subseteq T, IsFiniteSet(T)
    PROVE  /\ IsFiniteSet(S) /\ Cardinality(S) \in Nat /\ Cardinality(T) \in Nat
           /\ Cardinality(S) =< Cardinality(T)
BY FS_Subset, FS_CardinalityType

\* ... and takes at most as much room.
LEMMA FewerBytes ==
    ASSUME NEW S, NEW T, S \subseteq T, IsFiniteSet(T)
    PROVE  Bytes(S) \in Nat /\ Bytes(T) \in Nat /\ Bytes(S) =< Bytes(T)
<1>1. S \cap Inflated \subseteq T \cap Inflated
  OBVIOUS
<1>2. IsFiniteSet(T \cap Inflated)
  BY FS_Subset
<1> QED BY <1>1, <1>2, FewerInSubset DEF Bytes

\* Finitely many records name finitely many artifacts.
LEMMA ArtifactsFinite ==
    ASSUME NEW records, NEW about, IsFiniteSet(records)
    PROVE  IsFiniteSet({about[d].artifact : d \in records})
<1> DEFINE f == [d \in records |-> about[d].artifact]
<1>1. f \in Surjection(records, {about[d].artifact : d \in records})
  BY DEF Surjection
<1> QED BY <1>1, FS_Surjection

\* A record keeps its request and its time, and time does not run backwards.
LEMMA RecordsAreFixed ==
    ASSUME IInv, [Next]_vars
    PROVE  /\ \A d \in claimed \cup recorded : stamp'[d] = stamp[d]
           /\ \A d \in claimed \cup recorded : req'[d] = req[d]
           /\ clock =< clock'
<1> USE DEF IInv, Types, Times, RecordInv, callVars, claimVars, findingVars,
         findVars
<1>1. \A d \in claimed \cup recorded : req'[d] = req[d]
  BY ListedKeepRequests, ClaimsKeepRequests
<1>2. ASSUME NEW c \in Calls, CallStep(c), ~Crash(c)
      PROVE  /\ \A d \in claimed \cup recorded : stamp'[d] = stamp[d]
             /\ clock =< clock'
  BY <1>2 DEF CallStep, Begin, LockFails, Submit, Release, StoreBlob,
     WriteIndex, WriteFails, Collect, CollectFails, Return, ReadIndex, Verify,
     Refuse, ReadFails, Serve, End
<1>3. ASSUME NEW c \in Calls, Crash(c)
      PROVE  /\ \A d \in claimed \cup recorded : stamp'[d] = stamp[d]
             /\ clock =< clock'
  BY <1>3, NoneAssumption DEF Crash, End, LockInv
<1>4. ASSUME NEW a \in Artifacts, Damage(a) PROVE UNCHANGED <<stamp, clock>>
  BY <1>4 DEF Damage
<1>5. CASE UNCHANGED vars
  BY <1>5 DEF vars
<1> QED BY <1>1, <1>2, <1>3, <1>4, <1>5 DEF Next

\* A reason for a record to be gone stays one.
LEMMA DueStaysDue ==
    ASSUME IInv, [Next]_vars, claimed \subseteq claimed', claimed' \subseteq Calls,
           recorded \subseteq recorded', recorded' \subseteq Calls
    PROVE  /\ \A d \in claimed \cup recorded : Expired(d) => Expired(d)'
           /\ \A d \in claimed :
                Cardinality({e \in claimed : stamp[e] > stamp[d]}) >= ClaimCap
                => Cardinality({e \in claimed : stamp[e] > stamp[d]})' >= ClaimCap
           /\ \A d \in recorded :
                Cardinality({e \in recorded : stamp[e] > stamp[d]})
                    >= FindingCap
                => Cardinality({e \in recorded : stamp[e] > stamp[d]})'
                    >= FindingCap
<1> USE RecordsAreFixed, CapAssumption DEF IInv, Types, Times, RecordInv
<1>1. ASSUME NEW d \in claimed \cup recorded, Expired(d) PROVE Expired(d)'
  <2>1. req[d].ttl \in Nat
    BY ClaimRequestType, RecordRequestType
  <2>2. stamp[d] \in Nat /\ stamp'[d] = stamp[d] /\ req'[d] = req[d]
    OBVIOUS
  <2>3. clock \in Nat /\ clock =< clock' /\ clock' \in Nat
    BY ClockStep
  <2> QED BY <1>1, <2>1, <2>2, <2>3 DEF Expired
<1>2. ASSUME NEW d \in claimed,
             Cardinality({e \in claimed : stamp[e] > stamp[d]}) >= ClaimCap
      PROVE  Cardinality({e \in claimed : stamp[e] > stamp[d]})' >= ClaimCap
  <2>1. {e \in claimed : stamp[e] > stamp[d]}
           \subseteq {e \in claimed : stamp[e] > stamp[d]}'
    OBVIOUS
  <2>2. IsFiniteSet({e \in claimed : stamp[e] > stamp[d]}')
    BY FiniteAssumption, FewerInSubset
  <2> QED BY <1>2, <2>1, <2>2, FewerInSubset
<1>3. ASSUME NEW d \in recorded,
             Cardinality({e \in recorded : stamp[e] > stamp[d]}) >= FindingCap
      PROVE  Cardinality({e \in recorded : stamp[e] > stamp[d]})' >= FindingCap
  <2>1. {e \in recorded : stamp[e] > stamp[d]}
           \subseteq {e \in recorded : stamp[e] > stamp[d]}'
    OBVIOUS
  <2>2. IsFiniteSet({e \in recorded : stamp[e] > stamp[d]}')
    BY FiniteAssumption, FewerInSubset
  <2> QED BY <1>3, <2>1, <2>2, FewerInSubset
<1> QED BY <1>1, <1>2, <1>3
\* History only grows, and only by the two steps that write an index.
LEMMA HistoryGrows ==
    ASSUME IInv, [Next]_vars
    PROVE  /\ claimed \subseteq claimed' /\ claimed' \subseteq Calls
           /\ recorded \subseteq recorded' /\ recorded' \subseteq Calls
           /\ released \subseteq released'
<1> USE DEF IInv, Types, callVars, claimVars, findingVars,
         findVars
<1>1. ASSUME NEW c \in Calls, CallStep(c)
      PROVE  /\ claimed \subseteq claimed' /\ recorded \subseteq recorded'
             /\ released \subseteq released'
  BY <1>1 DEF CallStep, Begin, LockFails, Submit, Release, StoreBlob,
     WriteIndex, WriteFails, Collect, CollectFails, Return, Crash, ReadIndex,
     Verify, Refuse, ReadFails, Serve
<1>2. ASSUME NEW a \in Artifacts, Damage(a)
      PROVE  UNCHANGED <<claimed, recorded, released>>
  BY <1>2 DEF Damage
<1>3. CASE UNCHANGED vars
  BY <1>3 DEF vars
<1>4. claimed' \subseteq Calls /\ recorded' \subseteq Calls
  BY TypesStep
<1> QED BY <1>1, <1>2, <1>3, <1>4 DEF Next

\* A claim leaves the index only by expiry, by a release its caller is entitled
\* to, or because ClaimCap newer claims were made.  (submit_claim,
\* release_claim)
THEOREM ClaimsLeaveWhenDue == Spec => []ClaimsLeaveOnlyWhenDue
<1>1. Init => ClaimsLeaveOnlyWhenDue
  BY DEF Init, ClaimsLeaveOnlyWhenDue
<1>2. ASSUME IInv, ClaimsLeaveOnlyWhenDue, [Next]_vars
      PROVE  ClaimsLeaveOnlyWhenDue'
  <2> USE <1>2 DEF IInv, Types, Times, RecordInv, callVars, claimVars,
                   findingVars, findVars
  <2> DEFINE Due(d) ==
        \/ Expired(d)
        \/ d \in released
        \/ Cardinality({e \in claimed : stamp[e] > stamp[d]}) >= ClaimCap
  <2>1. \A d \in claimed : Due(d) => Due(d)'
    <3> HIDE DEF IInv, Types, Times, RecordInv, callVars, claimVars, findingVars,
         findVars
    <3> QED BY HistoryGrows, DueStaysDue
  <2>2. \A d \in claimed \ claims : Due(d)'
    BY <2>1 DEF ClaimsLeaveOnlyWhenDue
  <2> SUFFICES ASSUME NEW d \in claimed' \ claims', d \notin claimed \ claims
               PROVE  Due(d)'
    BY <2>2 DEF ClaimsLeaveOnlyWhenDue
  <2>3. ASSUME NEW c \in Calls, Submit(c) PROVE Due(d)'
    <3> DEFINE live == Live(claims, stamp[c])
               newer == {e \in live \cup {c} : stamp[e] > stamp[d]}
    <3>1. claims' = NewestOf(live \cup {c}, ClaimCap)
          /\ claimed' = claimed \cup {c} /\ stamp' = stamp /\ req' = req
          /\ clock' = clock
      BY <2>3 DEF Submit
    <3>2. d \in claims \cup {c} /\ live \subseteq claims
      BY <3>1, LiveSubset
    <3>3. CASE d \notin live \cup {c}
      <4>1. d \in claims /\ ~(stamp[d] + req[d].ttl > stamp[c])
        BY <3>2, <3>3 DEF Live
      <4>2. req[d].ttl \in Nat
        BY <4>1, ClaimRequestType
      <4>3. stamp[c] =< clock /\ clock \in Nat /\ stamp[c] \in Nat
            /\ stamp[d] \in Nat
        BY <4>1 DEF ClockInv
      <4> QED BY <3>1, <4>1, <4>2, <4>3 DEF Expired
    <3>4. CASE d \in live \cup {c}
      <4>1. ~(Cardinality(newer) < ClaimCap)
        BY <3>1, <3>4 DEF NewestOf
      <4>2. newer \subseteq {e \in claimed : stamp[e] > stamp[d]}'
        BY <3>1, <3>2
      <4>3. IsFiniteSet({e \in claimed : stamp[e] > stamp[d]}')
        BY FiniteAssumption, FewerInSubset, <3>1
      <4> HIDE DEF newer
      <4> QED BY <4>1, <4>2, <4>3, FewerInSubset, CapAssumption
    <3> QED BY <3>3, <3>4
  <2>4. ASSUME NEW c \in Calls, Release(c) PROVE Due(d)'
    <3>1. /\ claims' = Live(claims, stamp[c])
                          \ {e \in Live(claims, stamp[c]) : Matches(c, e)}
          /\ released' = released \cup
               {e \in {g \in Live(claims, stamp[c]) : Matches(c, g)} :
                   Entitled(c, e)}
          /\ claimed' = claimed /\ clock' = clock
      BY <2>4 DEF Release
    <3>2. d \in claims /\ stamp'[d] = stamp[d] /\ req'[d] = req[d]
      BY <3>1, RecordsAreFixed
    <3>3. CASE d \notin Live(claims, stamp[c])
      <4>1. ~(stamp[d] + req[d].ttl > stamp[c])
        BY <3>2, <3>3 DEF Live
      <4>2. req[d].ttl \in Nat
        BY <3>2, ClaimRequestType
      <4>3. stamp[c] =< clock /\ clock \in Nat /\ stamp[c] \in Nat
            /\ stamp[d] \in Nat
        BY <3>2 DEF ClockInv
      <4> QED BY <3>1, <3>2, <4>1, <4>2, <4>3 DEF Expired
    <3>4. CASE d \in Live(claims, stamp[c])
      <4>1. Matches(c, d)
        BY <3>1, <3>4
      <4>2. Entitled(c, d)
        BY <4>1 DEF Matches, Entitled, SameAgent
      <4> QED BY <3>1, <3>4, <4>1, <4>2
    <3> QED BY <3>3, <3>4
  <2>5. ASSUME NEW c \in Calls, CallStep(c), ~Submit(c), ~Release(c)
        PROVE  claims' = claims /\ claimed' = claimed
    BY <2>5 DEF CallStep, Begin, LockFails, StoreBlob, WriteIndex, WriteFails,
              Collect, CollectFails, Return, Crash, ReadIndex, Verify, Refuse,
              ReadFails, Serve
  <2>6. ASSUME NEW a \in Artifacts, Damage(a)
        PROVE  claims' = claims /\ claimed' = claimed
    BY <2>6 DEF Damage
  <2>7. CASE UNCHANGED vars
    BY <2>7 DEF vars
  <2> HIDE DEF Due
  <2> QED BY <2>3, <2>4, <2>5, <2>6, <2>7 DEF Next
<1>3. IInv /\ ClaimsLeaveOnlyWhenDue /\ [Next]_vars => ClaimsLeaveOnlyWhenDue'
  BY <1>2
<1> QED BY <1>1, <1>3, InductiveInvariant, PTL DEF Spec

\* A finding leaves the index only by expiry, because FindingCap newer findings
\* were made, or because the blobs of it and the newer ones do not fit.
\* (record_finding, _evict_findings_over_cap)
THEOREM FindingsLeaveWhenDue == Spec => []FindingsLeaveOnlyWhenDue
<1>1. Init => FindingsLeaveOnlyWhenDue
  BY DEF Init, FindingsLeaveOnlyWhenDue
<1>2. ASSUME IInv, FindingsLeaveOnlyWhenDue, [Next]_vars
      PROVE  FindingsLeaveOnlyWhenDue'
  <2> USE <1>2 DEF IInv, Types, Times, RecordInv, callVars, claimVars,
                   findingVars, findVars
  <2> DEFINE Peers(d) == ArtifactsOf({e \in recorded : stamp[e] >= stamp[d]})
             Due(d) ==
               \/ Expired(d)
               \/ Cardinality({e \in recorded : stamp[e] > stamp[d]})
                      >= FindingCap
               \/ Bytes(Peers(d)) > ByteCap
  <2>1. \A d \in recorded : IsFiniteSet(Peers(d)) /\ IsFiniteSet(Peers(d)')
    <3>1. IsFiniteSet(recorded) /\ IsFiniteSet(recorded')
      BY FiniteAssumption, FewerInSubset, HistoryGrows
    <3> SUFFICES ASSUME NEW d \in recorded
                 PROVE  IsFiniteSet(Peers(d)) /\ IsFiniteSet(Peers(d)')
      OBVIOUS
    <3>2. IsFiniteSet({e \in recorded : stamp[e] >= stamp[d]})
      BY <3>1, FewerInSubset
    <3>3. IsFiniteSet({e \in recorded : stamp[e] >= stamp[d]}')
      BY <3>1, FewerInSubset
    <3>4. IsFiniteSet(Peers(d))
      BY <3>2, ArtifactsFinite DEF ArtifactsOf
    <3>5. IsFiniteSet(Peers(d)')
      BY <3>3, ArtifactsFinite DEF ArtifactsOf
    <3> QED BY <3>4, <3>5
  <2>2. \A d \in recorded : Peers(d) \subseteq Peers(d)'
    BY HistoryGrows, RecordsAreFixed DEF ArtifactsOf
  <2>3. \A d \in recorded : Due(d) => Due(d)'
    <3>1. \A d \in recorded : Bytes(Peers(d)) > ByteCap
                              => Bytes(Peers(d)') > ByteCap
      <4> HIDE DEF Peers
      <4> QED BY <2>1, <2>2, FewerBytes, CapAssumption
    <3> HIDE DEF Peers, IInv, Types, Times, RecordInv, callVars, claimVars,
                 findingVars, findVars
    <3> QED BY <3>1, HistoryGrows, DueStaysDue
  <2>4. \A d \in recorded \ findings : Due(d)'
    BY <2>3 DEF FindingsLeaveOnlyWhenDue
  <2> SUFFICES ASSUME NEW d \in recorded' \ findings',
                      d \notin recorded \ findings
               PROVE  Due(d)'
    BY <2>4 DEF FindingsLeaveOnlyWhenDue
  <2>5. ASSUME NEW c \in Calls, WriteIndex(c) PROVE Due(d)'
    <3> DEFINE live == Live(findings, stamp[c])
               newest == NewestOf(live \cup {c}, FindingCap)
               newer == {e \in live \cup {c} : stamp[e] > stamp[d]}
               peers == {e \in newest : stamp[e] >= stamp[d]}
               fits == {a \in ArtifactsOf(peers) : blob[a] # "none"}
    <3>1. findings' = Fitting(newest, blob)
          /\ recorded' = recorded \cup {c} /\ stamp' = stamp /\ req' = req
          /\ clock' = clock
      BY <2>5 DEF WriteIndex, NextFindings
    <3>2. /\ d \in findings \cup {c} /\ live \subseteq findings
          /\ newest \subseteq live \cup {c}
      BY <3>1, LiveSubset DEF NewestOf
    <3>3. CASE d \notin live \cup {c}
      <4>1. d \in findings /\ ~(stamp[d] + req[d].ttl > stamp[c])
        BY <3>2, <3>3 DEF Live
      <4>2. req[d].ttl \in Nat
        BY <4>1, RecordRequestType
      <4>3. stamp[c] =< clock /\ clock \in Nat /\ stamp[c] \in Nat
            /\ stamp[d] \in Nat
        BY <4>1 DEF ClockInv
      <4> QED BY <3>1, <4>1, <4>2, <4>3 DEF Expired
    <3>4. CASE d \in live \cup {c} /\ d \notin newest
      <4>1. ~(Cardinality(newer) < FindingCap)
        BY <3>4 DEF NewestOf
      <4>2. newer \subseteq {e \in recorded : stamp[e] > stamp[d]}'
        BY <3>1, <3>2
      <4>3. IsFiniteSet({e \in recorded : stamp[e] > stamp[d]}')
        BY FiniteAssumption, FewerInSubset, <3>1
      <4> HIDE DEF newer
      <4> QED BY <4>1, <4>2, <4>3, FewerInSubset, CapAssumption
    <3>5. CASE d \in newest
      <4>1. ~(Bytes(fits) =< ByteCap)
        BY <3>1, <3>5 DEF Fitting, BlobBytes
      <4>2. fits \subseteq Peers(d)'
        BY <3>1, <3>2 DEF ArtifactsOf
      <4>3. IsFiniteSet(Peers(d)')
        <5>1. IsFiniteSet(recorded')
          BY FiniteAssumption, FewerInSubset, HistoryGrows
        <5>2. IsFiniteSet({e \in recorded : stamp[e] >= stamp[d]}')
          BY <5>1, FewerInSubset
        <5> QED BY <5>2, ArtifactsFinite DEF ArtifactsOf
      <4> HIDE DEF fits, Peers
      <4> QED BY <4>1, <4>2, <4>3, FewerBytes, CapAssumption
    <3> QED BY <3>3, <3>4, <3>5
  <2>6. ASSUME NEW c \in Calls, CallStep(c), ~WriteIndex(c)
        PROVE  findings' = findings /\ recorded' = recorded
    BY <2>6 DEF CallStep, Begin, LockFails, Submit, Release, StoreBlob,
       WriteFails, Collect, CollectFails, Return, Crash, ReadIndex, Verify,
       Refuse, ReadFails, Serve
  <2>7. ASSUME NEW a \in Artifacts, Damage(a)
        PROVE  findings' = findings /\ recorded' = recorded
    BY <2>7 DEF Damage
  <2>8. CASE UNCHANGED vars
    BY <2>8 DEF vars
  <2> HIDE DEF Due
  <2> QED BY <2>5, <2>6, <2>7, <2>8 DEF Next
<1>3. IInv /\ FindingsLeaveOnlyWhenDue /\ [Next]_vars
          => FindingsLeaveOnlyWhenDue'
  BY <1>2
<1> QED BY <1>1, <1>3, InductiveInvariant, PTL DEF Spec
=============================================================================
