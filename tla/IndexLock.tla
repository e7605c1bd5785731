----------------------------- MODULE IndexLock -----------------------------
(***************************************************************************)
(* The cross-process lock file that guards every read-modify-write of a    *)
(* JSON index in tensor-grep: index_lock of cli/_index_lock.py.  Its twin  *)
(* rust_core/src/index_lock.rs differs only in that it ignores a failed    *)
(* write of the token.                                                     *)
(*                                                                         *)
(* The lock is a file made with O_CREAT|O_EXCL.  Its holder signs it with  *)
(* a fresh token, a heartbeat thread touches it, a waiter that finds it    *)
(* older than StaleAfter unlinks it, and a release unlinks it only when    *)
(* the token on disk is still the holder's own.                            *)
(*                                                                         *)
(* A member of Calls is a slot for one call of index_lock.  It is reused   *)
(* when that call has ended and its token is no longer on disk, so that    *)
(* within a call the slot stands for its unique token.  Time is discrete:  *)
(* a live thread takes its next due step at most Lag ticks late.           *)
(***************************************************************************)
EXTENDS Integers

CONSTANTS
    Calls,        \* slots for concurrent calls of index_lock
    Nobody,       \* no lock file on disk
    StaleAfter,   \* _STALE_AFTER_S
    Timeout,      \* _TIMEOUT_S
    BeatEvery,    \* the heartbeat interval, stale_after_s / 3
    Lag,          \* how late a live thread may take a step
    Faults        \* the failures the environment may inject

FaultKinds == {"crash", "unlink", "write", "beatread", "utime", "denied"}

ASSUME NobodyAssumption == Nobody \notin Calls

ASSUME TimingAssumption ==
    /\ StaleAfter \in Nat /\ Timeout \in Nat
    /\ BeatEvery \in Nat /\ Lag \in Nat \ {0}
    /\ BeatEvery > 0

\* Four late steps separate a touch from the release that ends its effect.
ASSUME HeartbeatAssumption == BeatEvery + 3 * Lag =< StaleAfter

\* The comment headed H9: a waiter must outlast the staleness threshold.
ASSUME PatienceAssumption == StaleAfter + Lag < Timeout

ASSUME FaultAssumption == Faults \subseteq FaultKinds

VARIABLES
    by,         \* the call whose O_EXCL open made the file on disk, or Nobody
    signed,     \* the file on disk carries its maker's token
    age,        \* ticks since the file's mtime, up to AgeCap
    pc,         \* where each call stands
    late,       \* ticks since a busy call's next step fell due
    elapsed,    \* ticks since a waiting call set its deadline, up to Timeout
    hb,         \* each call's heartbeat thread
    quiet,      \* ticks since that thread last began to wait
    witnessed,  \* history: another live call used the lock during this wait
    abandoned   \* history: some lock file was left behind by a call that ended

lockVars == <<by, signed, age>>
vars == <<by, signed, age, pc, late, elapsed, hb, quiet, witnessed, abandoned>>

AgeCap == StaleAfter + Lag + 1

\* "deadline" and "refused" are the same deadline test, reached after a look at
\* the file or after an error of the operating system.
WaitSteps == {"try", "stat", "reclaim", "deadline", "refused"}
BusySteps == WaitSteps \cup {"sign", "readtoken", "unlink"}
PCs == BusySteps \cup {"idle", "held", "crashed"}

Waiting(p) == pc[p] \in WaitSteps
AtDeadline(p) == pc[p] \in {"deadline", "refused"}

\* The call is between a successful create and the end of its release.
Holding(p) == pc[p] \in {"sign", "held", "readtoken", "unlink"}

Holders == {p \in Calls : Holding(p)}

\* _token_for_lock(lock_path) == token, evaluated by call p.
OwnToken(p) == by = p /\ signed

\* The heartbeat thread waits for its next beat only while the body runs.
TypeOK ==
    /\ by \in Calls \cup {Nobody}
    /\ signed \in BOOLEAN
    /\ age \in 0..AgeCap
    /\ pc \in [Calls -> PCs]
    /\ late \in [Calls -> 0..Lag]
    /\ elapsed \in [Calls -> 0..Timeout]
    /\ hb \in [Calls -> {"off", "wait", "touch"}]
    /\ \A p \in Calls : hb[p] = "wait" => pc[p] = "held"
    /\ quiet \in [Calls -> 0..(BeatEvery + Lag)]
    /\ witnessed \in [Calls -> BOOLEAN]
    /\ abandoned \in BOOLEAN

Init ==
    /\ by = Nobody /\ signed = FALSE /\ age = 0
    /\ pc = [p \in Calls |-> "idle"]
    /\ late = [p \in Calls |-> 0]
    /\ elapsed = [p \in Calls |-> 0]
    /\ hb = [p \in Calls |-> "off"]
    /\ quiet = [p \in Calls |-> 0]
    /\ witnessed = [p \in Calls |-> FALSE]
    /\ abandoned = FALSE

-----------------------------------------------------------------------------
(* Helpers of the actions *)

\* Call p moves to step s; a step just reached is not late yet.
Goto(p, s) ==
    /\ pc' = [pc EXCEPT ![p] = s]
    /\ late' = [late EXCEPT ![p] = 0]

\* Every other waiting call has now seen the lock used by a live call.
SeenByOthers(p) ==
    [q \in Calls |-> IF q = p THEN witnessed[p] ELSE Waiting(q)]

\* The call stops waiting: what it timed and saw no longer matters.
EndWait(p) ==
    /\ elapsed' = [elapsed EXCEPT ![p] = 0]
    /\ witnessed' = [witnessed EXCEPT ![p] = FALSE]

\* The heartbeat thread of call p is no more.
EndHeartbeat(p) ==
    /\ hb' = [hb EXCEPT ![p] = "off"]
    /\ quiet' = [quiet EXCEPT ![p] = 0]

\* The path is removed, whichever file it names.
UnlinkFile == by' = Nobody /\ signed' = FALSE /\ age' = 0

\* Mutants: the stale test is not strict; the deadline is the threshold.
StaleAtThreshold == age >= StaleAfter
ExpiredAtThreshold(p) == elapsed[p] >= StaleAfter

\* _heartbeat_loop is due at BeatEvery; the stale test of index_lock is
\* strict; the deadline test is not.
BeatDue(p) == quiet[p] >= BeatEvery
Stale == age > StaleAfter
Expired(p) == elapsed[p] >= Timeout

-----------------------------------------------------------------------------
(* Acquiring *)

\* A new call computes its deadline.  Its token is fresh: no file carries it.
Start(p) ==
    /\ pc[p] = "idle" /\ hb[p] = "off" /\ by # p
    /\ Goto(p, "try")
    /\ UNCHANGED <<lockVars, elapsed, hb, quiet, witnessed, abandoned>>

\* Mutant: opened without O_EXCL, a file that is there already is no obstacle.
CreateShared(p) ==
    /\ pc[p] = "try"
    /\ by' = p /\ signed' = FALSE /\ age' = 0
    /\ Goto(p, "sign")
    /\ elapsed' = [elapsed EXCEPT ![p] = 0]
    /\ witnessed' = [SeenByOthers(p) EXCEPT ![p] = FALSE]
    /\ UNCHANGED <<hb, quiet, abandoned>>

\* os.open(O_CREAT|O_EXCL) succeeds.
Create(p) ==
    /\ pc[p] = "try" /\ by = Nobody
    /\ by' = p /\ signed' = FALSE /\ age' = 0
    /\ Goto(p, "sign")
    /\ elapsed' = [elapsed EXCEPT ![p] = 0]
    /\ witnessed' = [SeenByOthers(p) EXCEPT ![p] = FALSE]
    /\ UNCHANGED <<hb, quiet, abandoned>>

\* os.open raises FileExistsError.
Exists(p) ==
    /\ pc[p] = "try" /\ by # Nobody
    /\ Goto(p, "stat")
    /\ UNCHANGED <<lockVars, elapsed, hb, quiet, witnessed, abandoned>>

\* os.open raises PermissionError, with or without a lock file: a name whose
\* deletion is pending (Windows), or a directory that may not be written.  The
\* branch looks at no file and goes on to the deadline test.
Denied(p) ==
    /\ "denied" \in Faults
    /\ pc[p] = "try"
    /\ Goto(p, "refused")
    /\ UNCHANGED <<lockVars, elapsed, hb, quiet, witnessed, abandoned>>

\* Mutant: every answer of stat() goes around the loop at once.
StatOnly(p) ==
    /\ pc[p] = "stat"
    /\ Goto(p, IF by # Nobody /\ Stale THEN "reclaim" ELSE "try")
    /\ UNCHANGED <<lockVars, elapsed, hb, quiet, witnessed, abandoned>>

\* lock_path.stat(): a stale file is to be unlinked; a fresh one, or one that
\* vanished meanwhile (OSError), sends the call on to its deadline test.
Stat(p) ==
    /\ pc[p] = "stat"
    /\ Goto(p, IF by # Nobody /\ Stale THEN "reclaim" ELSE "deadline")
    /\ UNCHANGED <<lockVars, elapsed, hb, quiet, witnessed, abandoned>>

\* stat() raises OSError although the file is there: swallowed, like a file
\* that vanished.
StatFails(p) ==
    /\ "denied" \in Faults
    /\ pc[p] = "stat"
    /\ Goto(p, "refused")
    /\ UNCHANGED <<lockVars, elapsed, hb, quiet, witnessed, abandoned>>

\* The reclaimer unlinks the path and, by continue, tries again at once: no
\* deadline test and no sleep on this branch.
Reclaim(p) ==
    /\ pc[p] = "reclaim"
    /\ IF by = Nobody
       THEN UNCHANGED <<lockVars, witnessed>>
       ELSE UnlinkFile /\ witnessed' = SeenByOthers(p)
    /\ Goto(p, "try")
    /\ UNCHANGED <<elapsed, hb, quiet, abandoned>>

\* The unlink raises OSError, which is swallowed; the branch continues alike.
ReclaimFails(p) ==
    /\ "unlink" \in Faults
    /\ pc[p] = "reclaim"
    /\ Goto(p, "try")
    /\ UNCHANGED <<lockVars, elapsed, hb, quiet, witnessed, abandoned>>

\* IndexLockTimeoutError.
GiveUp(p) ==
    /\ AtDeadline(p) /\ Expired(p)
    /\ Goto(p, "idle")
    /\ EndWait(p)
    /\ UNCHANGED <<lockVars, hb, quiet, abandoned>>

\* time.sleep(poll_interval_s) and around the loop.
Poll(p) ==
    /\ AtDeadline(p) /\ ~Expired(p)
    /\ Goto(p, "try")
    /\ UNCHANGED <<lockVars, elapsed, hb, quiet, witnessed, abandoned>>

-----------------------------------------------------------------------------
(* Holding and releasing *)

\* The token goes to the file this call created, which a reclaimer may have
\* unlinked already; then the heartbeat thread starts and the body runs.
Sign(p) ==
    /\ pc[p] = "sign"
    /\ signed' = (signed \/ by = p)
    /\ age' = IF by = p THEN 0 ELSE age
    /\ hb' = [hb EXCEPT ![p] = "wait"]
    /\ quiet' = [quiet EXCEPT ![p] = 0]
    /\ Goto(p, "held")
    /\ IF by = p THEN witnessed' = SeenByOthers(p)
                 ELSE UNCHANGED witnessed
    /\ UNCHANGED <<by, elapsed, abandoned>>

\* os.write raises: no heartbeat was started, and the release runs.
SignFails(p) ==
    /\ "write" \in Faults
    /\ pc[p] = "sign"
    /\ Goto(p, "readtoken")
    /\ UNCHANGED <<lockVars, elapsed, hb, quiet, witnessed, abandoned>>

\* A beat of the heartbeat thread: it reads the token back and gives up for
\* good when the file is not its own any more.
Beat(p) ==
    /\ hb[p] = "wait" /\ BeatDue(p)
    /\ IF OwnToken(p)
       THEN hb' = [hb EXCEPT ![p] = "touch"] /\ UNCHANGED quiet
       ELSE EndHeartbeat(p)
    /\ UNCHANGED <<lockVars, pc, late, elapsed, witnessed, abandoned>>

\* read_text raises OSError: the token reads as None, as when it is not ours.
BeatReadFails(p) ==
    /\ "beatread" \in Faults
    /\ hb[p] = "wait" /\ BeatDue(p)
    /\ EndHeartbeat(p)
    /\ UNCHANGED <<lockVars, pc, late, elapsed, witnessed, abandoned>>

\* The thread goes back to waiting, or sees that it was told to stop.
BeatDone(p) ==
    /\ hb' = [hb EXCEPT ![p] = IF pc[p] = "held" THEN "wait" ELSE "off"]
    /\ quiet' = [quiet EXCEPT ![p] = 0]

\* Mutant: the heartbeat checks the token and touches nothing.
TouchNothing(p) ==
    /\ hb[p] = "touch"
    /\ BeatDone(p)
    /\ UNCHANGED <<lockVars, pc, late, elapsed, witnessed, abandoned>>

\* os.utime on the path, whichever file it names by now.
Touch(p) ==
    /\ hb[p] = "touch"
    /\ age' = 0
    /\ BeatDone(p)
    /\ IF by # Nobody THEN witnessed' = SeenByOthers(p)
                 ELSE UNCHANGED witnessed
    /\ UNCHANGED <<by, signed, pc, late, elapsed, abandoned>>

\* os.utime raises OSError, which is swallowed.
TouchFails(p) ==
    /\ "utime" \in Faults
    /\ hb[p] = "touch"
    /\ BeatDone(p)
    /\ UNCHANGED <<lockVars, pc, late, elapsed, witnessed, abandoned>>

\* Mutant: the heartbeat is not told to stop.
LeaveBeating(p) ==
    /\ pc[p] = "held"
    /\ Goto(p, "readtoken")
    /\ UNCHANGED <<lockVars, hb, quiet, elapsed, witnessed, abandoned>>

\* The body ends.  The heartbeat is stopped; a thread that is past its wait
\* may outlive the bounded join.
Leave(p) ==
    /\ pc[p] = "held"
    /\ IF hb[p] = "wait" THEN EndHeartbeat(p) ELSE UNCHANGED <<hb, quiet>>
    /\ Goto(p, "readtoken")
    /\ UNCHANGED <<lockVars, elapsed, witnessed, abandoned>>

\* _release_lock reads the token back; a lock that is not ours is left alone.
ReadToken(p) ==
    /\ pc[p] = "readtoken"
    /\ Goto(p, IF OwnToken(p) THEN "unlink" ELSE "idle")
    /\ abandoned' = (abandoned \/ (by = p /\ ~signed))
    /\ UNCHANGED <<lockVars, elapsed, hb, quiet, witnessed>>

\* ... and unlinks the path.
Release(p) ==
    /\ pc[p] = "unlink"
    /\ UnlinkFile
    /\ Goto(p, "idle")
    /\ witnessed' = SeenByOthers(p)
    /\ UNCHANGED <<elapsed, hb, quiet, abandoned>>

\* The unlink raises OSError, which is swallowed: the file stays.
ReleaseFails(p) ==
    /\ "unlink" \in Faults
    /\ pc[p] = "unlink"
    /\ Goto(p, "idle")
    /\ abandoned' = TRUE
    /\ UNCHANGED <<lockVars, elapsed, hb, quiet, witnessed>>

-----------------------------------------------------------------------------
(* Environment *)

\* The process dies, its heartbeat thread with it.
Crash(p) ==
    /\ "crash" \in Faults
    /\ pc[p] \notin {"idle", "crashed"}
    /\ Goto(p, "crashed")
    /\ EndWait(p) /\ EndHeartbeat(p)
    /\ abandoned' = (abandoned \/ by = p)
    /\ UNCHANGED lockVars

\* The slot serves another process once no file carries its old token.
Restart(p) ==
    /\ pc[p] = "crashed" /\ by # p
    /\ Goto(p, "idle")
    /\ UNCHANGED <<lockVars, elapsed, hb, quiet, witnessed, abandoned>>

\* A bound of the model: the code's ages have none, and no comparison of the
\* code tells two values apart that this one does not.
Capped(n, cap) == IF n < cap THEN n + 1 ELSE cap

\* Time passes, unless some live thread is already as late as it may be.
Tick ==
    /\ \A p \in Calls : /\ pc[p] \in BusySteps => late[p] < Lag
                        /\ hb[p] # "off" => quiet[p] < BeatEvery + Lag
    /\ age' = IF by = Nobody THEN 0 ELSE Capped(age, AgeCap)
    /\ late' = [p \in Calls |-> IF pc[p] \in BusySteps THEN late[p] + 1
                                                       ELSE late[p]]
    /\ elapsed' = [p \in Calls |-> IF Waiting(p)
                                   THEN Capped(elapsed[p], Timeout)
                                   ELSE elapsed[p]]
    /\ quiet' = [p \in Calls |-> IF hb[p] # "off" THEN quiet[p] + 1
                                                  ELSE quiet[p]]
    /\ UNCHANGED <<by, signed, pc, hb, witnessed, abandoned>>

CallStep(p) ==
    \/ Create(p) \/ Exists(p) \/ Denied(p) \/ Stat(p) \/ StatFails(p)
    \/ Reclaim(p) \/ ReclaimFails(p)
    \/ GiveUp(p) \/ Poll(p)
    \/ Sign(p) \/ SignFails(p) \/ ReadToken(p) \/ Release(p) \/ ReleaseFails(p)

HeartbeatStep(p) ==
    \/ Beat(p) \/ BeatReadFails(p) \/ Touch(p) \/ TouchFails(p)

Next ==
    \/ \E p \in Calls : \/ Start(p) \/ CallStep(p) \/ HeartbeatStep(p)
                        \/ Leave(p) \/ Crash(p) \/ Restart(p)
    \/ Tick

Spec == Init /\ [][Next]_vars

\* Live threads run and time passes.  Nothing obliges a call to begin, a
\* process to crash, or a body to end.
Fairness ==
    /\ \A p \in Calls : WF_vars(CallStep(p)) /\ WF_vars(HeartbeatStep(p))
    /\ WF_vars(Tick)

FairSpec == Spec /\ Fairness

-----------------------------------------------------------------------------
(* Properties *)

\* "A concurrent waiter's staleness check never sees a live holder as dead":
\* whenever a waiter is about to judge a file stale, its maker has ended.
\* This is what the heartbeat, its interval and the threshold are for.
StaleVerdictIsRight ==
    by # Nobody /\ Stale => pc[by] \in {"idle", "crashed"}

\* Mutual exclusion of index_lock.
MutualExclusion == \A p, q \in Holders : p = q

\* As long as no lock file has been left behind, at most one call holds.
ExclusiveUntilAbandoned == abandoned \/ MutualExclusion

\* The lock file and its heartbeat implement a mutex whose guarantee ends when
\* a holder goes away and leaves its file behind.
Abstract == INSTANCE Mutex
            WITH Users <- Calls, inside <- Holders, forsaken <- abandoned

ImplementsMutex == Abstract!Spec

\* What IndexLockTimeoutError tells its caller: it "only fires under sustained
\* LIVE contention", or, as the comment on PermissionError has it, when the
\* operating system refuses to the end.  A call that gives up has seen the lock
\* used by another during its wait, or its last attempt was refused; a dead
\* lock alone is never the reason.
TimeoutMeansContentionOrRefusal ==
    \A p \in Calls : AtDeadline(p) /\ Expired(p) =>
        witnessed[p] \/ pc[p] = "refused"

\* A wait ends: the call acquires the lock, gives up, or its process dies.
EveryWaitEnds == \A p \in Calls : Waiting(p) ~> ~Waiting(p)
=============================================================================
