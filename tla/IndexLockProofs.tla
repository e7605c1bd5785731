-------------------------- MODULE IndexLockProofs --------------------------
(***************************************************************************)
(* What index_lock guarantees for every number of calls and every timing   *)
(* that satisfies the assumptions of IndexLock.                            *)
(*                                                                         *)
(* FileInv bounds the age of the file of a live call by how long ago its   *)
(* thread last acted; it needs heartbeats whose own I/O succeeds.          *)
(* OwnerInv ties the holders to the file on disk as long as no file has    *)
(* been left behind.  WaitInv bounds how long a waiter can have looked at  *)
(* a file nobody uses.                                                     *)
(***************************************************************************)
EXTENDS IndexLock, TLAPS

\* The heartbeat's own reads and touches succeed.
HeartbeatIOWorks == Faults \cap {"beatread", "utime"} = {}

\* A file made by a live call is no older than that call's last due step
\* allows, and a live body has a live heartbeat.
FileInv ==
    by # Nobody =>
        /\ ~Waiting(by)
        /\ pc[by] = "sign" => ~signed /\ age =< late[by]
        /\ pc[by] = "held" => signed /\ hb[by] # "off" /\ age =< quiet[by]
        /\ pc[by] = "readtoken" => age =< BeatEvery + Lag + late[by]
        /\ pc[by] = "unlink" => age =< BeatEvery + 2 * Lag + late[by]

\* Until a file has been left behind, the file on disk is the holder's.
OwnerInv ==
    ~abandoned =>
        /\ by # Nobody => Holding(by)
        /\ \A p \in Calls : Holding(p) => by = p
        /\ \A p \in Calls : pc[p] # "reclaim"

\* A waiter that has seen no use of the lock is looking at a file at least
\* as old as its wait, which was not stale when the waiter last looked.
WaitInv ==
    \A p \in Calls :
        /\ hb[p] # "off" => ~Waiting(p)
        /\ ~Waiting(p) => elapsed[p] = 0
        /\ Waiting(p) /\ ~witnessed[p] =>
               /\ by = Nobody => pc[p] \in {"try", "refused"}
               /\ by # Nobody => age >= elapsed[p] \/ age = AgeCap
               /\ pc[p] = "deadline" => age =< StaleAfter + late[p]

\* TypeOK, split by the kind of the variables.
Booleans == /\ signed \in BOOLEAN
            /\ witnessed \in [Calls -> BOOLEAN]
            /\ abandoned \in BOOLEAN

Others == /\ by \in Calls \cup {Nobody}
          /\ age \in 0..AgeCap
          /\ pc \in [Calls -> PCs]
          /\ late \in [Calls -> 0..Lag]
          /\ elapsed \in [Calls -> 0..Timeout]
          /\ hb \in [Calls -> {"off", "wait", "touch"}]
          /\ \A p \in Calls : hb[p] = "wait" => pc[p] = "held"
          /\ quiet \in [Calls -> 0..(BeatEvery + Lag)]

-----------------------------------------------------------------------------
(* Type correctness *)

USE NobodyAssumption, TimingAssumption

\* What a step has the waiters see keeps its type.
LEMMA SeenType ==
    ASSUME TypeOK, NEW p \in Calls
    PROVE  /\ SeenByOthers(p) \in [Calls -> BOOLEAN]
           /\ [SeenByOthers(p) EXCEPT ![p] = FALSE] \in [Calls -> BOOLEAN]
<1>1. \A q \in Calls : Waiting(q) \in BOOLEAN
  BY DEF Waiting
<1>2. SeenByOthers(p) \in [Calls -> BOOLEAN]
  BY <1>1 DEF SeenByOthers, TypeOK
<1> QED BY <1>2

\* A saturating counter stays within its cap.
LEMMA CappedType ==
    ASSUME NEW cap \in Nat, NEW n \in 0..cap
    PROVE  Capped(n, cap) \in 0..cap
BY DEF Capped

\* The flags keep their type.
LEMMA BooleansStep ==
    ASSUME TypeOK, [Next]_vars
    PROVE  Booleans'
<1>1. ASSUME NEW p \in Calls, Start(p) PROVE Booleans'
  BY <1>1 DEF Start, lockVars, TypeOK, Booleans
<1>2. ASSUME NEW p \in Calls, Create(p) PROVE Booleans'
  <2>1. witnessed' \in [Calls -> BOOLEAN]
    BY <1>2, SeenType DEF Create, TypeOK
  <2>2. signed' \in BOOLEAN /\ abandoned' \in BOOLEAN
    BY <1>2 DEF Create, lockVars, TypeOK
  <2> QED BY <2>1, <2>2 DEF Booleans
<1>3. ASSUME NEW p \in Calls, Exists(p) PROVE Booleans'
  BY <1>3 DEF Exists, lockVars, TypeOK, Booleans
<1>4. ASSUME NEW p \in Calls, Stat(p) PROVE Booleans'
  BY <1>4 DEF Stat, lockVars, TypeOK, Booleans
<1>5. ASSUME NEW p \in Calls, Reclaim(p) PROVE Booleans'
  <2>1. witnessed' \in [Calls -> BOOLEAN]
    BY <1>5, SeenType DEF Reclaim, TypeOK
  <2>2. signed' \in BOOLEAN /\ abandoned' \in BOOLEAN
    BY <1>5 DEF Reclaim, lockVars, UnlinkFile, TypeOK
  <2> QED BY <2>1, <2>2 DEF Booleans
<1>6. ASSUME NEW p \in Calls, ReclaimFails(p) PROVE Booleans'
  BY <1>6 DEF ReclaimFails, lockVars, TypeOK, Booleans
<1>7. ASSUME NEW p \in Calls, GiveUp(p) PROVE Booleans'
  BY <1>7 DEF AtDeadline, GiveUp, lockVars, EndWait, TypeOK, Booleans
<1>8. ASSUME NEW p \in Calls, Poll(p) PROVE Booleans'
  BY <1>8 DEF AtDeadline, Poll, lockVars, TypeOK, Booleans
<1>9. ASSUME NEW p \in Calls, Sign(p) PROVE Booleans'
  <2>1. witnessed' \in [Calls -> BOOLEAN]
    BY <1>9, SeenType DEF Sign, TypeOK
  <2>2. signed' \in BOOLEAN /\ abandoned' \in BOOLEAN
    BY <1>9 DEF Sign, lockVars, TypeOK
  <2> QED BY <2>1, <2>2 DEF Booleans
<1>10. ASSUME NEW p \in Calls, SignFails(p) PROVE Booleans'
  BY <1>10 DEF SignFails, lockVars, TypeOK, Booleans
<1>11. ASSUME NEW p \in Calls, Beat(p) PROVE Booleans'
  BY <1>11 DEF Beat, lockVars, TypeOK, Booleans
<1>12. ASSUME NEW p \in Calls, BeatReadFails(p) PROVE Booleans'
  BY <1>12 DEF BeatReadFails, lockVars, TypeOK, Booleans
<1>13. ASSUME NEW p \in Calls, Touch(p) PROVE Booleans'
  <2>1. witnessed' \in [Calls -> BOOLEAN]
    BY <1>13, SeenType DEF Touch, TypeOK
  <2>2. signed' \in BOOLEAN /\ abandoned' \in BOOLEAN
    BY <1>13 DEF Touch, lockVars, TypeOK
  <2> QED BY <2>1, <2>2 DEF Booleans
<1>14. ASSUME NEW p \in Calls, TouchFails(p) PROVE Booleans'
  BY <1>14 DEF TouchFails, lockVars, TypeOK, Booleans
<1>15. ASSUME NEW p \in Calls, Leave(p) PROVE Booleans'
  BY <1>15 DEF Leave, lockVars, TypeOK, Booleans
<1>16. ASSUME NEW p \in Calls, ReadToken(p) PROVE Booleans'
  BY <1>16 DEF ReadToken, lockVars, TypeOK, Booleans
<1>17. ASSUME NEW p \in Calls, Release(p) PROVE Booleans'
  <2>1. witnessed' \in [Calls -> BOOLEAN]
    BY <1>17, SeenType DEF Release, TypeOK
  <2>2. signed' \in BOOLEAN /\ abandoned' \in BOOLEAN
    BY <1>17 DEF Release, lockVars, UnlinkFile, TypeOK
  <2> QED BY <2>1, <2>2 DEF Booleans
<1>18. ASSUME NEW p \in Calls, ReleaseFails(p) PROVE Booleans'
  BY <1>18 DEF ReleaseFails, lockVars, TypeOK, Booleans
<1>19. ASSUME NEW p \in Calls, Crash(p) PROVE Booleans'
  BY <1>19 DEF Crash, lockVars, EndWait, TypeOK, Booleans
<1>20. ASSUME NEW p \in Calls, Restart(p) PROVE Booleans'
  BY <1>20 DEF Restart, lockVars, TypeOK, Booleans
<1>21. CASE Tick
  BY <1>21 DEF Tick, TypeOK, Booleans
<1>22. CASE UNCHANGED vars
  BY <1>22 DEF vars, TypeOK, Booleans
<1>23. ASSUME NEW p \in Calls, Denied(p) \/ StatFails(p) PROVE Booleans'
  BY <1>23 DEF Denied, StatFails, lockVars, TypeOK, Booleans
<1> QED
  BY <1>1, <1>2, <1>3, <1>4, <1>5, <1>6, <1>7, <1>8, <1>9, <1>10, <1>11,
     <1>12, <1>13, <1>14, <1>15, <1>16, <1>17, <1>18, <1>19, <1>20, <1>21,
     <1>22, <1>23
     DEF Next, CallStep, HeartbeatStep

\* Every other variable keeps its type: no step is taken later than Lag, and
\* the counters stay within their caps.
LEMMA OthersStep ==
    ASSUME TypeOK, [Next]_vars
    PROVE  Others'
<1> USE DEF TypeOK, Others, PCs, BusySteps, WaitSteps, AgeCap, lockVars
<1>1. ASSUME NEW p \in Calls, Start(p) PROVE Others'
  BY <1>1 DEF Start, Goto
<1>2. ASSUME NEW p \in Calls, Create(p) PROVE Others'
  BY <1>2 DEF Create, Goto
<1>3. ASSUME NEW p \in Calls, Exists(p) PROVE Others'
  BY <1>3 DEF Exists, Goto
<1>4. ASSUME NEW p \in Calls, Stat(p) PROVE Others'
  BY <1>4 DEF Stat, Goto
<1>5. ASSUME NEW p \in Calls, Reclaim(p) PROVE Others'
  BY <1>5 DEF Reclaim, Goto, UnlinkFile
<1>6. ASSUME NEW p \in Calls, ReclaimFails(p) PROVE Others'
  BY <1>6 DEF ReclaimFails, Goto
<1>7. ASSUME NEW p \in Calls, GiveUp(p) PROVE Others'
  BY <1>7 DEF AtDeadline, GiveUp, Goto, EndWait
<1>8. ASSUME NEW p \in Calls, Poll(p) PROVE Others'
  BY <1>8 DEF AtDeadline, Poll, Goto
<1>9. ASSUME NEW p \in Calls, Sign(p) PROVE Others'
  BY <1>9 DEF Sign, Goto
<1>10. ASSUME NEW p \in Calls, SignFails(p) PROVE Others'
  BY <1>10 DEF SignFails, Goto
<1>11. ASSUME NEW p \in Calls, Beat(p) PROVE Others'
  BY <1>11 DEF Beat, EndHeartbeat
<1>12. ASSUME NEW p \in Calls, BeatReadFails(p) PROVE Others'
  BY <1>12 DEF BeatReadFails, EndHeartbeat
<1>13. ASSUME NEW p \in Calls, Touch(p) PROVE Others'
  BY <1>13 DEF Touch, BeatDone
<1>14. ASSUME NEW p \in Calls, TouchFails(p) PROVE Others'
  BY <1>14 DEF TouchFails, BeatDone
<1>15. ASSUME NEW p \in Calls, Leave(p) PROVE Others'
  BY <1>15 DEF Leave, Goto, EndHeartbeat
<1>16. ASSUME NEW p \in Calls, ReadToken(p) PROVE Others'
  BY <1>16 DEF ReadToken, Goto
<1>17. ASSUME NEW p \in Calls, Release(p) PROVE Others'
  BY <1>17 DEF Release, Goto, UnlinkFile
<1>18. ASSUME NEW p \in Calls, ReleaseFails(p) PROVE Others'
  BY <1>18 DEF ReleaseFails, Goto
<1>19. ASSUME NEW p \in Calls, Crash(p) PROVE Others'
  BY <1>19 DEF Crash, Goto, EndWait, EndHeartbeat
<1>20. ASSUME NEW p \in Calls, Restart(p) PROVE Others'
  BY <1>20 DEF Restart, Goto
<1>21. CASE Tick
  <2>1. age' \in 0..AgeCap
    BY <1>21, CappedType DEF Tick
  <2>2. elapsed' \in [Calls -> 0..Timeout]
    BY <1>21, CappedType DEF Tick
  <2>3. late' \in [Calls -> 0..Lag]
    BY <1>21 DEF Tick
  <2>4. quiet' \in [Calls -> 0..(BeatEvery + Lag)]
    BY <1>21 DEF Tick
  <2> QED BY <1>21, <2>1, <2>2, <2>3, <2>4 DEF Tick
<1>22. CASE UNCHANGED vars
  BY <1>22 DEF vars
<1>23. ASSUME NEW p \in Calls, Denied(p) \/ StatFails(p) PROVE Others'
  BY <1>23 DEF Denied, StatFails, Goto
<1> QED
  BY <1>1, <1>2, <1>3, <1>4, <1>5, <1>6, <1>7, <1>8, <1>9, <1>10, <1>11,
     <1>12, <1>13, <1>14, <1>15, <1>16, <1>17, <1>18, <1>19, <1>20, <1>21,
     <1>22, <1>23
     DEF Next, CallStep, HeartbeatStep

\* Every variable keeps its type.
THEOREM TypeCorrect == Spec => []TypeOK
<1>1. Init => TypeOK
  <2>1. Init => Booleans
    BY Zenon DEF Init, Booleans
  <2>2. Init => Others
    BY DEF Init, Others, PCs, BusySteps, WaitSteps, AgeCap
  <2> QED BY <2>1, <2>2 DEF TypeOK, Booleans, Others
<1>2. TypeOK /\ [Next]_vars => TypeOK'
  BY BooleansStep, OthersStep DEF TypeOK, Booleans, Others
<1> QED BY <1>1, <1>2, PTL DEF Spec
-----------------------------------------------------------------------------
(* The age of a live call's file *)

\* Each step keeps the bound: only the passing of time ages the file, and it
\* does not pass once the maker's next step is Lag late.
LEMMA FileStep ==
    ASSUME TypeOK, FileInv, HeartbeatIOWorks, [Next]_vars
    PROVE  FileInv'
<1> USE DEF FileInv, Waiting, WaitSteps, lockVars, TypeOK
<1>1. ASSUME NEW p \in Calls, Start(p) PROVE FileInv'
  BY <1>1 DEF Start, Goto
<1>2. ASSUME NEW p \in Calls, Create(p) PROVE FileInv'
  BY <1>2 DEF Create, Goto
<1>3. ASSUME NEW p \in Calls, Exists(p) PROVE FileInv'
  BY <1>3 DEF Exists, Goto
<1>4. ASSUME NEW p \in Calls, Stat(p) PROVE FileInv'
  BY <1>4 DEF Stat, Goto
<1>5. ASSUME NEW p \in Calls, Reclaim(p) PROVE FileInv'
  BY <1>5 DEF Reclaim, Goto, UnlinkFile
<1>6. ASSUME NEW p \in Calls, ReclaimFails(p) PROVE FileInv'
  BY <1>6 DEF ReclaimFails, Goto
<1>7. ASSUME NEW p \in Calls, GiveUp(p) PROVE FileInv'
  BY <1>7 DEF AtDeadline, GiveUp, Goto, EndWait
<1>8. ASSUME NEW p \in Calls, Poll(p) PROVE FileInv'
  BY <1>8 DEF AtDeadline, Poll, Goto
<1>9. ASSUME NEW p \in Calls, Sign(p) PROVE FileInv'
  <2>1. /\ by = p => signed' = TRUE
        /\ by # p /\ ~signed => signed' = FALSE
        /\ signed => signed' = TRUE
    BY <1>9 DEF Sign
  <2>2. /\ by' = by /\ (by = p => age' = 0) /\ (by # p => age' = age)
        /\ hb' = [hb EXCEPT ![p] = "wait"]
        /\ quiet' = [quiet EXCEPT ![p] = 0]
        /\ pc' = [pc EXCEPT ![p] = "held"]
        /\ late' = [late EXCEPT ![p] = 0]
    BY <1>9 DEF Sign, Goto
  <2> QED BY <2>1, <2>2
<1>10. ASSUME NEW p \in Calls, SignFails(p) PROVE FileInv'
  BY <1>10 DEF SignFails, Goto
<1>11. ASSUME NEW p \in Calls, Beat(p) PROVE FileInv'
  BY <1>11 DEF Beat, EndHeartbeat, OwnToken
<1>12. ASSUME NEW p \in Calls, BeatReadFails(p) PROVE FileInv'
  BY <1>12 DEF BeatReadFails, HeartbeatIOWorks
<1>13. ASSUME NEW p \in Calls, Touch(p) PROVE FileInv'
  BY <1>13 DEF Touch, BeatDone
<1>14. ASSUME NEW p \in Calls, TouchFails(p) PROVE FileInv'
  BY <1>14 DEF TouchFails, HeartbeatIOWorks
<1>15. ASSUME NEW p \in Calls, Leave(p) PROVE FileInv'
  BY <1>15 DEF Leave, Goto, EndHeartbeat
<1>16. ASSUME NEW p \in Calls, ReadToken(p) PROVE FileInv'
  BY <1>16 DEF ReadToken, Goto, OwnToken
<1>17. ASSUME NEW p \in Calls, Release(p) PROVE FileInv'
  BY <1>17 DEF Release, Goto, UnlinkFile
<1>18. ASSUME NEW p \in Calls, ReleaseFails(p) PROVE FileInv'
  BY <1>18 DEF ReleaseFails, Goto
<1>19. ASSUME NEW p \in Calls, Crash(p) PROVE FileInv'
  BY <1>19 DEF Crash, Goto, EndWait, EndHeartbeat
<1>20. ASSUME NEW p \in Calls, Restart(p) PROVE FileInv'
  BY <1>20 DEF Restart, Goto
<1>21. CASE Tick
  BY <1>21 DEF Tick, Capped, BusySteps, AgeCap
<1>22. CASE UNCHANGED vars
  BY <1>22 DEF vars
<1>23. ASSUME NEW p \in Calls, Denied(p) \/ StatFails(p) PROVE FileInv'
  BY <1>23 DEF Denied, StatFails, Goto
<1> QED
  BY <1>1, <1>2, <1>3, <1>4, <1>5, <1>6, <1>7, <1>8, <1>9, <1>10, <1>11,
     <1>12, <1>13, <1>14, <1>15, <1>16, <1>17, <1>18, <1>19, <1>20, <1>21,
     <1>22, <1>23
     DEF Next, CallStep, HeartbeatStep

\* The bound at each step of a live call is below the staleness threshold.
LEMMA FileInvBoundsAge ==
    ASSUME TypeOK, FileInv
    PROVE  StaleVerdictIsRight
BY HeartbeatAssumption DEF TypeOK, FileInv, StaleVerdictIsRight, Stale,
   Waiting, PCs, BusySteps, WaitSteps

\* No waiter ever judges the lock file of a live call stale, crashes and
\* abandoned locks notwithstanding.  (_index_lock.py, _heartbeat_loop)
THEOREM StaleVerdictCorrect ==
    ASSUME HeartbeatIOWorks
    PROVE  Spec => []StaleVerdictIsRight
<1>1. Init => FileInv
  BY DEF Init, FileInv
<1>2. TypeOK /\ FileInv /\ [Next]_vars => FileInv'
  BY HeartbeatIOWorks, FileStep
<1>3. TypeOK /\ FileInv => StaleVerdictIsRight
  BY FileInvBoundsAge
<1> QED BY <1>1, <1>2, <1>3, TypeCorrect, PTL DEF Spec
-----------------------------------------------------------------------------
(* Mutual exclusion *)

\* Until a file is left behind the file on disk is its holder's, so nobody
\* judges it stale, nobody reclaims it, and only its holder removes it.
LEMMA OwnerStep ==
    ASSUME TypeOK, FileInv, OwnerInv, [Next]_vars
    PROVE  OwnerInv'
<1> USE DEF TypeOK, OwnerInv, Holding, lockVars
<1>1. ASSUME NEW p \in Calls, Start(p) PROVE OwnerInv'
  BY <1>1 DEF Start, Goto
<1>2. ASSUME NEW p \in Calls, Create(p) PROVE OwnerInv'
  BY <1>2 DEF Create, Goto
<1>3. ASSUME NEW p \in Calls, Exists(p) PROVE OwnerInv'
  BY <1>3 DEF Exists, Goto
<1>4. ASSUME NEW p \in Calls, Stat(p) PROVE OwnerInv'
  BY <1>4, FileInvBoundsAge
     DEF Stat, Goto, StaleVerdictIsRight
<1>5. ASSUME NEW p \in Calls, Reclaim(p) PROVE OwnerInv'
  BY <1>5 DEF Reclaim, Goto, UnlinkFile
<1>6. ASSUME NEW p \in Calls, ReclaimFails(p) PROVE OwnerInv'
  BY <1>6 DEF ReclaimFails, Goto
<1>7. ASSUME NEW p \in Calls, GiveUp(p) PROVE OwnerInv'
  BY <1>7 DEF AtDeadline, GiveUp, Goto, EndWait
<1>8. ASSUME NEW p \in Calls, Poll(p) PROVE OwnerInv'
  BY <1>8 DEF AtDeadline, Poll, Goto
<1>9. ASSUME NEW p \in Calls, Sign(p) PROVE OwnerInv'
  BY <1>9 DEF Sign, Goto
<1>10. ASSUME NEW p \in Calls, SignFails(p) PROVE OwnerInv'
  BY <1>10 DEF SignFails, Goto
<1>11. ASSUME NEW p \in Calls, Beat(p) PROVE OwnerInv'
  BY <1>11 DEF Beat, EndHeartbeat, OwnToken
<1>12. ASSUME NEW p \in Calls, BeatReadFails(p) PROVE OwnerInv'
  BY <1>12 DEF BeatReadFails, EndHeartbeat
<1>13. ASSUME NEW p \in Calls, Touch(p) PROVE OwnerInv'
  BY <1>13 DEF Touch, BeatDone
<1>14. ASSUME NEW p \in Calls, TouchFails(p) PROVE OwnerInv'
  BY <1>14 DEF TouchFails, BeatDone
<1>15. ASSUME NEW p \in Calls, Leave(p) PROVE OwnerInv'
  BY <1>15 DEF Leave, Goto, EndHeartbeat
<1>16. ASSUME NEW p \in Calls, ReadToken(p) PROVE OwnerInv'
  BY <1>16 DEF ReadToken, Goto, OwnToken
<1>17. ASSUME NEW p \in Calls, Release(p) PROVE OwnerInv'
  BY <1>17 DEF Release, Goto, UnlinkFile
<1>18. ASSUME NEW p \in Calls, ReleaseFails(p) PROVE OwnerInv'
  BY <1>18 DEF ReleaseFails, Goto
<1>19. ASSUME NEW p \in Calls, Crash(p) PROVE OwnerInv'
  BY <1>19 DEF Crash, Goto, EndWait, EndHeartbeat
<1>20. ASSUME NEW p \in Calls, Restart(p) PROVE OwnerInv'
  BY <1>20 DEF Restart, Goto
<1>21. CASE Tick
  BY <1>21 DEF Tick
<1>22. CASE UNCHANGED vars
  BY <1>22 DEF vars
<1>23. ASSUME NEW p \in Calls, Denied(p) \/ StatFails(p) PROVE OwnerInv'
  BY <1>23 DEF Denied, StatFails, Goto
<1> QED
  BY <1>1, <1>2, <1>3, <1>4, <1>5, <1>6, <1>7, <1>8, <1>9, <1>10, <1>11,
     <1>12, <1>13, <1>14, <1>15, <1>16, <1>17, <1>18, <1>19, <1>20, <1>21,
     <1>22, <1>23
     DEF Next, CallStep, HeartbeatStep

\* At most one call is inside index_lock as long as no lock file has been
\* left behind by a crash or a failed write or unlink.  (index_lock)
THEOREM MutualExclusionUntilAbandoned ==
    ASSUME HeartbeatIOWorks
    PROVE  Spec => []ExclusiveUntilAbandoned
<1>1. Init => FileInv /\ OwnerInv
  BY DEF Init, FileInv, OwnerInv, Holding
<1>2. TypeOK /\ FileInv /\ OwnerInv /\ [Next]_vars => (FileInv /\ OwnerInv)'
  BY HeartbeatIOWorks, FileStep, OwnerStep
<1>3. TypeOK /\ OwnerInv => ExclusiveUntilAbandoned
  BY DEF TypeOK, OwnerInv, ExclusiveUntilAbandoned, MutualExclusion, Holders
<1> QED BY <1>1, <1>2, <1>3, TypeCorrect, PTL DEF Spec

-----------------------------------------------------------------------------
(* Refinement *)

\* A step that moves nobody in or out of the protected section stutters.
LEMMA SameHolders ==
    ASSUME TypeOK, TypeOK', abandoned' = abandoned,
           \A p \in Calls : Holding(p)' = Holding(p)
    PROVE  UNCHANGED Abstract!vars
BY DEF Abstract!vars, Holders

\* A step of one call, from outside the section to outside or from inside to
\* inside, stutters unless it forsakes the lock.
LEMMA StaysOnItsSide ==
    ASSUME TypeOK, NEW p \in Calls, NEW s \in PCs, Goto(p, s),
           (s \in {"sign", "held", "readtoken", "unlink"}) = Holding(p)
    PROVE  \A q \in Calls : Holding(q)' = Holding(q)
BY DEF TypeOK, Goto, Holding

\* A call that gets in was alone, or the lock had been forsaken.
LEMMA CreateEnters ==
    ASSUME TypeOK, OwnerInv, NEW p \in Calls, Create(p)
    PROVE  Abstract!Enter(p)
<1>1. ~Holding(p) /\ p \notin Holders
  BY DEF Create, Holding, Holders
<1>2. Holders = {} \/ abandoned
  BY NobodyAssumption DEF Create, OwnerInv, Holders
<1>3. Holders' = Holders \cup {p}
  BY DEF Create, Goto, TypeOK, Holders, Holding
<1>4. abandoned' = abandoned
  BY DEF Create
<1> QED BY <1>1, <1>2, <1>3, <1>4 DEF Abstract!Enter

\* A call that is inside and goes to a step outside gets out.
LEMMA LeavesSection ==
    ASSUME TypeOK, NEW p \in Calls, Holding(p),
           NEW s \in {"idle", "crashed"}, Goto(p, s),
           abandoned' = abandoned \/ abandoned' = TRUE
    PROVE  Abstract!Exit(p)
<1>1. Holders' = Holders \ {p} /\ p \in Holders
  BY DEF TypeOK, Goto, Holders, Holding
<1> QED BY <1>1 DEF Abstract!Exit

\* Every step of the lock file protocol is a step of the mutex or a stutter.
LEMMA StepRefines ==
    ASSUME TypeOK, FileInv, OwnerInv, [Next]_vars
    PROVE  [Abstract!Next]_Abstract!vars
<1> USE DEF TypeOK, PCs, BusySteps, WaitSteps, lockVars
<1>0. TypeOK'
  BY BooleansStep, OthersStep DEF Booleans, Others
<1>1. ASSUME NEW p \in Calls, Create(p)
      PROVE  Abstract!Next
  BY <1>1, CreateEnters DEF Abstract!Next
<1>2. ASSUME NEW p \in Calls,
             \/ Start(p) \/ Exists(p) \/ Denied(p) \/ Stat(p) \/ StatFails(p)
             \/ Reclaim(p) \/ ReclaimFails(p)
             \/ GiveUp(p) \/ Poll(p) \/ Sign(p) \/ SignFails(p) \/ Leave(p)
             \/ Restart(p)
      PROVE  UNCHANGED Abstract!vars
  <2>1. abandoned' = abandoned
    BY <1>2 DEF Start, Exists, Denied, Stat, StatFails, Reclaim, ReclaimFails, GiveUp, AtDeadline,
       Poll, Sign,
       SignFails, Leave, Restart
  <2>2. PICK s \in PCs :
          /\ Goto(p, s)
          /\ (s \in {"sign", "held", "readtoken", "unlink"}) = Holding(p)
    BY <1>2 DEF Start, Exists, Denied, Stat, StatFails, Reclaim, ReclaimFails, GiveUp, AtDeadline,
       Poll, Sign,
       SignFails, Leave, Restart, Holding
  <2> QED BY <1>0, <2>1, <2>2, StaysOnItsSide, SameHolders
<1>3. ASSUME NEW p \in Calls, HeartbeatStep(p)
      PROVE  UNCHANGED Abstract!vars
  <2>1. UNCHANGED <<pc, abandoned>>
    BY <1>3 DEF HeartbeatStep, Beat, BeatReadFails, Touch, TouchFails
  <2> QED BY <2>1 DEF Abstract!vars, Holders, Holding
<1>4. ASSUME NEW p \in Calls, ReadToken(p)
      PROVE  Abstract!Exit(p) \/ UNCHANGED Abstract!vars
  <2>1. CASE OwnToken(p)
    <3>1. Goto(p, "unlink") /\ Holding(p)
      BY <1>4, <2>1 DEF ReadToken, Holding
    <3>2. abandoned' = abandoned
      BY <1>4, <2>1 DEF ReadToken, OwnToken
    <3> QED BY <1>0, <3>1, <3>2, StaysOnItsSide, SameHolders
  <2>2. CASE ~OwnToken(p)
    <3>1. Goto(p, "idle") /\ Holding(p)
      BY <1>4, <2>2 DEF ReadToken, Holding
    <3>2. abandoned' = abandoned \/ abandoned' = TRUE
      BY <1>4 DEF ReadToken
    <3> QED BY <3>1, <3>2, LeavesSection
  <2> QED BY <2>1, <2>2
<1>5. ASSUME NEW p \in Calls, Release(p) \/ ReleaseFails(p)
      PROVE  Abstract!Exit(p)
  BY <1>5, LeavesSection DEF Release, ReleaseFails, Holding
<1>6. ASSUME NEW p \in Calls, Crash(p)
      PROVE  Abstract!Exit(p) \/ UNCHANGED Abstract!vars
  <2>1. CASE Holding(p)
    <3>1. abandoned' = abandoned \/ abandoned' = TRUE
      BY <1>6 DEF Crash
    <3> QED BY <1>6, <2>1, <3>1, LeavesSection DEF Crash
  <2>2. CASE ~Holding(p)
    <3>1. abandoned' = abandoned
      BY <1>6, <2>2, NobodyAssumption DEF Crash, OwnerInv
    <3>2. Goto(p, "crashed")
      BY <1>6 DEF Crash
    <3>3. ("crashed" \in {"sign", "held", "readtoken", "unlink"}) = Holding(p)
      BY <2>2 DEF Holding
    <3> QED BY <1>0, <3>1, <3>2, <3>3, StaysOnItsSide, SameHolders
  <2> QED BY <2>1, <2>2
<1>7. CASE Tick
  BY <1>7 DEF Tick, Abstract!vars, Holders, Holding
<1>8. CASE UNCHANGED vars
  BY <1>8 DEF vars, Abstract!vars, Holders, Holding
<1> QED
  BY <1>1, <1>2, <1>3, <1>4, <1>5, <1>6, <1>7, <1>8
     DEF Next, CallStep, Abstract!Next

\* The lock file, its tokens and its heartbeat implement the mutex that the
\* stores rely on.  (index_lock)
THEOREM LockFileImplementsMutex ==
    ASSUME HeartbeatIOWorks
    PROVE  Spec => ImplementsMutex
<1>1. Init => FileInv /\ OwnerInv
  BY DEF Init, FileInv, OwnerInv, Holding
<1>2. TypeOK /\ FileInv /\ OwnerInv /\ [Next]_vars => (FileInv /\ OwnerInv)'
  BY HeartbeatIOWorks, FileStep, OwnerStep
<1>3. Init => Abstract!Init
  BY DEF Init, Abstract!Init, Holders, Holding
<1>4. TypeOK /\ FileInv /\ OwnerInv /\ [Next]_vars
          => [Abstract!Next]_Abstract!vars
  BY StepRefines
<1> QED BY <1>1, <1>2, <1>3, <1>4, TypeCorrect, PTL
        DEF Spec, ImplementsMutex, Abstract!Spec

-----------------------------------------------------------------------------
(* Timeouts *)

\* A waiter's clock and an unused file's age advance together.
LEMMA WaitStep ==
    ASSUME TypeOK, WaitInv, [Next]_vars
    PROVE  WaitInv'
<1> USE DEF TypeOK, WaitInv, Waiting, WaitSteps, lockVars
<1>1. ASSUME NEW p \in Calls, Start(p) PROVE WaitInv'
  BY <1>1 DEF Start, Goto
<1>2. ASSUME NEW p \in Calls, Create(p) PROVE WaitInv'
  BY <1>2 DEF Create, Goto, SeenByOthers
<1>3. ASSUME NEW p \in Calls, Exists(p) PROVE WaitInv'
  BY <1>3 DEF Exists, Goto
<1>4. ASSUME NEW p \in Calls, Stat(p) PROVE WaitInv'
  BY <1>4 DEF Stat, Goto, Stale
<1>5. ASSUME NEW p \in Calls, Reclaim(p) PROVE WaitInv'
  BY <1>5 DEF Reclaim, Goto, UnlinkFile, SeenByOthers
<1>6. ASSUME NEW p \in Calls, ReclaimFails(p) PROVE WaitInv'
  BY <1>6 DEF ReclaimFails, Goto
<1>7. ASSUME NEW p \in Calls, GiveUp(p) PROVE WaitInv'
  BY <1>7 DEF AtDeadline, GiveUp, Goto, EndWait
<1>8. ASSUME NEW p \in Calls, Poll(p) PROVE WaitInv'
  BY <1>8 DEF AtDeadline, Poll, Goto
<1>9. ASSUME NEW p \in Calls, Sign(p) PROVE WaitInv'
  BY <1>9 DEF Sign, Goto, SeenByOthers
<1>10. ASSUME NEW p \in Calls, SignFails(p) PROVE WaitInv'
  BY <1>10 DEF SignFails, Goto
<1>11. ASSUME NEW p \in Calls, Beat(p) PROVE WaitInv'
  BY <1>11 DEF Beat, EndHeartbeat, OwnToken
<1>12. ASSUME NEW p \in Calls, BeatReadFails(p) PROVE WaitInv'
  BY <1>12 DEF BeatReadFails, EndHeartbeat
<1>13. ASSUME NEW p \in Calls, Touch(p) PROVE WaitInv'
  BY <1>13 DEF Touch, BeatDone, SeenByOthers
<1>14. ASSUME NEW p \in Calls, TouchFails(p) PROVE WaitInv'
  BY <1>14 DEF TouchFails, BeatDone
<1>15. ASSUME NEW p \in Calls, Leave(p) PROVE WaitInv'
  BY <1>15 DEF Leave, Goto, EndHeartbeat
<1>16. ASSUME NEW p \in Calls, ReadToken(p) PROVE WaitInv'
  BY <1>16 DEF ReadToken, Goto, OwnToken
<1>17. ASSUME NEW p \in Calls, Release(p) PROVE WaitInv'
  BY <1>17 DEF Release, Goto, UnlinkFile, SeenByOthers
<1>18. ASSUME NEW p \in Calls, ReleaseFails(p) PROVE WaitInv'
  BY <1>18 DEF ReleaseFails, Goto
<1>19. ASSUME NEW p \in Calls, Crash(p) PROVE WaitInv'
  BY <1>19 DEF Crash, Goto, EndWait, EndHeartbeat
<1>20. ASSUME NEW p \in Calls, Restart(p) PROVE WaitInv'
  BY <1>20 DEF Restart, Goto
<1>21. CASE Tick
  BY <1>21 DEF Tick, Capped, BusySteps, AgeCap
<1>22. CASE UNCHANGED vars
  BY <1>22 DEF vars
<1>23. ASSUME NEW p \in Calls, Denied(p) \/ StatFails(p) PROVE WaitInv'
  BY <1>23 DEF Denied, StatFails, Goto
<1> QED
  BY <1>1, <1>2, <1>3, <1>4, <1>5, <1>6, <1>7, <1>8, <1>9, <1>10, <1>11,
     <1>12, <1>13, <1>14, <1>15, <1>16, <1>17, <1>18, <1>19, <1>20, <1>21,
     <1>22, <1>23
     DEF Next, CallStep, HeartbeatStep

\* IndexLockTimeoutError is raised only under live contention or when the last
\* open or stat was refused: the deadline outlasts the staleness threshold, so an
\* unused file that can be looked at is reclaimed first.
\* (the comments headed H9 and on PermissionError in _index_lock.py)
THEOREM TimeoutHonest == Spec => []TimeoutMeansContentionOrRefusal
<1>1. Init => WaitInv
  BY DEF Init, WaitInv, Waiting, WaitSteps
<1>2. TypeOK /\ WaitInv /\ [Next]_vars => WaitInv'
  BY WaitStep
<1>3. TypeOK /\ WaitInv => TimeoutMeansContentionOrRefusal
  BY PatienceAssumption
     DEF TypeOK, WaitInv, TimeoutMeansContentionOrRefusal, Waiting, WaitSteps,
         AtDeadline, Expired, AgeCap
<1> QED BY <1>1, <1>2, <1>3, TypeCorrect, PTL DEF Spec
=============================================================================
