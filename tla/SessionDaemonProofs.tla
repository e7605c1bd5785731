------------------------ MODULE SessionDaemonProofs ------------------------
(***************************************************************************)
(* What the start lock and daemon.json guarantee for any number of clients *)
(* and daemons, however slow they are and whichever of them die.           *)
(*                                                                         *)
(* OwnerInv ties whoever has taken the start lock to the lock file until   *)
(* one is unlinked under its owner.  LookInv says who can still act on     *)
(* what it saw before the daemon that daemon.json names now published.     *)
(***************************************************************************)
EXTENDS SessionDaemon, TLAPS, FiniteSetTheorems

\* Until then, whoever has taken the start lock owns the file.
OwnerInv == ~robbed => \A c \in holding : startLock = c

StopSteps == {"reread", "stop", "settle", "kill", "compare", "unlink"}
StartSteps == {"lock", "age", "reclaim", "relock", "reage", "rereclaim", "clear"}

\* daemon.json names a daemon that a client of this version could use.
Known(d) == d = meta /\ d \in Daemons \ Outdated /\ state[d] = "up"

\* Whoever is about to remove daemon.json has seen the daemon it names, or has
\* not looked since that one published.
LookInv ==
    /\ \A c \in Clients :
         /\ pc[c] \in StopSteps => cmd[c] = "stop"
         /\ pc[c] \in StartSteps /\ meta # Nobody /\ Known(meta) => c \in unaware
         /\ pc[c] = "ping" /\ meta # Nobody /\ Known(meta) =>
                target[c] = meta \/ c \in unaware
         /\ pc[c] = "unlink" => meta \in {target[c], Nobody} \/ c \in unaware
    /\ \A d \in Daemons :
         state[d] = "removing" => meta \in {d, Nobody} \/ d \in unaware

\* TypeOK, split by the kind of the variables.
Booleans == lockOld \in BOOLEAN /\ robbed \in BOOLEAN

Others ==
    /\ meta \in Daemons \cup {Nobody}
    /\ state \in [Daemons -> {"none", "starting", "up", "condemned", "leaving",
                              "removing", "dead"}]
    /\ startLock \in Clients \cup {Nobody}
    /\ pc \in [Clients -> {"new", "probe", "ping", "lock", "age", "reclaim",
                           "relock", "reage", "rereclaim", "clear", "spawn",
                           "release", "ask", "inflight", "wedged", "reply",
                           "reread", "stop", "settle", "kill", "compare",
                           "unlink", "done"}]
    /\ cmd \in [Clients -> CommandNames \cup {Nobody}]
    /\ target \in [Clients -> Daemons \cup {Nobody}]
    /\ waiting \subseteq Clients /\ holding \subseteq Clients
    /\ unaware \subseteq Clients \cup Daemons
    /\ meta # Nobody => state[meta] \notin {"none", "starting"}
    /\ startLock = Nobody => ~lockOld

-----------------------------------------------------------------------------
(* Types *)

LEMMA BooleansStep ==
    ASSUME Booleans, [Next]_vars
    PROVE  Booleans'
<1> USE Zenon DEF Booleans, lockVars
<1>1. ASSUME NEW c \in Clients, ClientStep(c) PROVE Booleans'
  BY <1>1 DEF ClientStep, Begin, ReadMeta, Found, NoMeta, NoAnswer, GiveUp, Lock,
     LockExists, LockTaken, LockStale, Reclaim, ReclaimFails, Lose, Clear, Spawn,
     Release, Crash, Reread, AskToStop, StopUnanswered, Settle, Kill, Compare,
     Unlink, Ask, Wedge, Handle, Finish, Reply, Reset
<1>2. ASSUME NEW d \in Daemons, DaemonStep(d) PROVE Booleans'
  BY <1>2 DEF DaemonStep, Publish, Die, Lifecycle, Condemn, Leave, CompareOwn,
     RemoveOwn
<1>3. CASE LockAges
  BY <1>3 DEF LockAges
<1>4. CASE UNCHANGED vars
  BY <1>4 DEF vars
<1> QED BY <1>1, <1>2, <1>3, <1>4 DEF Next

LEMMA OthersStep ==
    ASSUME Others, [Next]_vars
    PROVE  Others'
<1> USE NobodyAssumption DEF Others, daemonVars, lockVars, talkVars
<1>1. ASSUME NEW c \in Clients, Begin(c) PROVE Others'
  BY <1>1, CommandAssumption DEF Begin, Goto
<1>2. ASSUME NEW c \in Clients, ReadMeta(c) PROVE Others'
  BY <1>2 DEF ReadMeta, Goto
<1>3. ASSUME NEW c \in Clients, Found(c) PROVE Others'
  BY <1>3 DEF Found, End, Goto
<1>4. ASSUME NEW c \in Clients, NoMeta(c) \/ NoAnswer(c) PROVE Others'
  <2>1. /\ UNCHANGED <<meta, state, startLock, lockOld, holding, cmd, waiting>>
        /\ target' = [target EXCEPT ![c] = Nobody]
        /\ unaware' \subseteq unaware \cup {c}
    BY <1>4 DEF NoMeta, NoAnswer, Unfound
  <2>2. \E l \in {"probe", "lock", "reread", "done"} : Goto(c, l)
    BY <1>4 DEF NoMeta, NoAnswer, Unfound
  <2> QED BY <2>1, <2>2 DEF Goto
<1>5. ASSUME NEW c \in Clients, GiveUp(c) PROVE Others'
  BY <1>5 DEF GiveUp, End, Goto
<1>6. ASSUME NEW c \in Clients, Lock(c) PROVE Others'
  BY <1>6 DEF Lock, Goto
<1>7. ASSUME NEW c \in Clients, LockTaken(c) \/ ReclaimFails(c) PROVE Others'
  BY <1>7 DEF LockTaken, ReclaimFails, Lose, End, Goto
<1>8. ASSUME NEW c \in Clients, LockExists(c) \/ LockStale(c) \/ Reclaim(c)
      PROVE  Others'
  BY <1>8 DEF LockExists, LockStale, Reclaim, Lose, End, Goto
<1>9. ASSUME NEW c \in Clients, Clear(c) PROVE Others'
  BY <1>9 DEF Clear, Goto
<1>10. ASSUME NEW c \in Clients, Spawn(c) PROVE Others'
  <2>1. PICK d \in Unused : state' = [state EXCEPT ![d] = "starting"]
    BY <1>10 DEF Spawn, Become
  <2> QED BY <1>10, <2>1 DEF Spawn, Goto, Unused
<1>11. ASSUME NEW c \in Clients, Release(c) PROVE Others'
  BY <1>11 DEF Release, End, Goto
<1>12. ASSUME NEW c \in Clients, Crash(c) PROVE Others'
  BY <1>12 DEF Crash, End, Goto
<1>13. ASSUME NEW c \in Clients, Reread(c) \/ Compare(c) PROVE Others'
  BY <1>13 DEF Reread, Compare, End, Goto
<1>14. ASSUME NEW c \in Clients, AskToStop(c) \/ Kill(c) PROVE Others'
  BY <1>14 DEF AskToStop, Kill, Become, Goto
<1>15. ASSUME NEW c \in Clients, StopUnanswered(c) \/ Settle(c) PROVE Others'
  BY <1>15 DEF StopUnanswered, Settle, Goto
<1>16. ASSUME NEW c \in Clients, Unlink(c) PROVE Others'
  BY <1>16 DEF Unlink, End, Goto
<1>17. ASSUME NEW c \in Clients, Ask(c) \/ Wedge(c) \/ Handle(c) PROVE Others'
  BY <1>17 DEF Ask, Wedge, Handle, Finish, Reply, Reset, End, Goto
<1>18. ASSUME NEW d \in Daemons, Publish(d) PROVE Others'
  <2>1. Lookers \subseteq Clients \cup Daemons
    BY DEF Lookers
  <2> QED BY <1>18, <2>1 DEF Publish, Become
<1>19. ASSUME NEW d \in Daemons, Die(d) \/ Lifecycle(d) PROVE Others'
  BY <1>19 DEF Die, Lifecycle, Condemn, Leave, CompareOwn, RemoveOwn, Become
<1>20. CASE LockAges
  BY <1>20 DEF LockAges
<1>21. CASE UNCHANGED vars
  BY <1>21 DEF vars
<1> QED
  BY <1>1, <1>2, <1>3, <1>4, <1>5, <1>6, <1>7, <1>8, <1>9, <1>10, <1>11,
     <1>12, <1>13, <1>14, <1>15, <1>16, <1>17, <1>18, <1>19, <1>20, <1>21
     DEF Next, ClientStep, DaemonStep

\* Every variable keeps its type, and daemon.json names only daemons that have
\* published.
THEOREM TypeCorrect == Spec => []TypeOK
<1>1. Init => Booleans
  BY Zenon DEF Init, Booleans
<1>2. Init => Others
  BY NobodyAssumption, OutdatedAssumption DEF Init, Others
<1>3. Booleans /\ Others /\ [Next]_vars => (Booleans /\ Others)'
  BY BooleansStep, OthersStep
<1>4. Booleans /\ Others => TypeOK
  BY DEF Booleans, Others, TypeOK
<1> QED BY <1>1, <1>2, <1>3, <1>4, PTL DEF Spec
-----------------------------------------------------------------------------
(* The start lock *)

\* The lock file belongs to the one who took it, until somebody unlinks it.
LEMMA OwnerStep ==
    ASSUME Others, OwnerInv, [Next]_vars
    PROVE  OwnerInv'
<1> USE NobodyAssumption DEF Others, OwnerInv, lockVars
<1>1. ASSUME NEW c \in Clients, Lock(c) PROVE OwnerInv'
  BY <1>1 DEF Lock
<1>2. ASSUME NEW c \in Clients, Reclaim(c) PROVE OwnerInv'
  BY <1>2 DEF Reclaim
<1>3. ASSUME NEW c \in Clients, Release(c) PROVE OwnerInv'
  BY <1>3 DEF Release
<1>4. ASSUME NEW c \in Clients, Crash(c) PROVE OwnerInv'
  BY <1>4 DEF Crash
<1>5. ASSUME NEW c \in Clients, ClientStep(c), ~Lock(c), ~Reclaim(c), ~Release(c),
             ~Crash(c)
      PROVE  UNCHANGED <<startLock, holding, robbed>>
  BY <1>5 DEF ClientStep, Begin, ReadMeta, Found, NoMeta, NoAnswer, GiveUp,
     LockExists, LockTaken, LockStale, ReclaimFails, Clear, Spawn, Reread,
     AskToStop, StopUnanswered, Settle, Kill, Compare, Unlink, Ask, Wedge, Handle,
     Finish, Reply, Reset
<1>6. ASSUME NEW d \in Daemons, DaemonStep(d)
      PROVE  UNCHANGED <<startLock, holding, robbed>>
  BY <1>6 DEF DaemonStep, Publish, Die, Lifecycle, Condemn, Leave, CompareOwn,
     RemoveOwn
<1>7. CASE LockAges
  BY <1>7 DEF LockAges
<1>8. CASE UNCHANGED vars
  BY <1>8 DEF vars
<1> QED BY <1>1, <1>2, <1>3, <1>4, <1>5, <1>6, <1>7, <1>8 DEF Next

\* At most one client clears daemon.json and spawns at a time, until a lock file
\* is unlinked under a live owner.  (_try_acquire_daemon_start_lock,
\* _release_daemon_start_lock)
THEOREM OneStarterUntilRobbed == Spec => []ExclusiveUntilRobbed
<1>1. Init => OwnerInv
  BY DEF Init, OwnerInv
<1>2. Others /\ OwnerInv /\ [Next]_vars => OwnerInv'
  BY OwnerStep
<1>3. ASSUME OwnerInv PROVE ExclusiveUntilRobbed
  <2> SUFFICES ASSUME ~robbed PROVE Cardinality(holding) =< 1
    BY DEF ExclusiveUntilRobbed
  <2>1. holding \subseteq {startLock}
    BY <1>3 DEF OwnerInv
  <2>2. IsFiniteSet({startLock}) /\ Cardinality({startLock}) = 1
    BY FS_Singleton
  <2> QED BY <2>1, <2>2, FS_Subset
<1>4. TypeOK => Others
  BY DEF TypeOK, Others
<1> QED BY <1>1, <1>2, <1>3, <1>4, TypeCorrect, PTL DEF Spec
-----------------------------------------------------------------------------
(* daemon.json *)

\* A step after which daemon.json names what it named, and every daemon that
\* serves now served before, makes nobody less aware.
LEMMA NobodyIsOvertaken ==
    ASSUME Others, LookInv, NEW c \in Clients, NEW l,
           Goto(c, l), meta' = meta,
           \A d \in Daemons : state'[d] \in {"up", "removing"} => state'[d] = state[d],
           unaware \ {c} \subseteq unaware',
           \A d \in Clients \ {c} : cmd'[d] = cmd[d] /\ target'[d] = target[d],
           l \in StopSteps => cmd'[c] = "stop",
           l \in StartSteps /\ meta # Nobody /\ Known(meta) => c \in unaware',
           l = "ping" /\ meta # Nobody /\ Known(meta) =>
               target'[c] = meta \/ c \in unaware',
           l = "unlink" => meta \in {target'[c], Nobody} \/ c \in unaware'
    PROVE  LookInv'
<1> USE DistinctAssumption DEF Others, LookInv, Goto, StopSteps, StartSteps
<1>1. Known(meta)' => Known(meta)
  BY DEF Known
<1>2. ASSUME NEW d \in Clients
      PROVE  /\ pc'[d] \in StopSteps => cmd'[d] = "stop"
             /\ pc'[d] \in StartSteps /\ meta' # Nobody /\ Known(meta)' =>
                    d \in unaware'
             /\ pc'[d] = "ping" /\ meta' # Nobody /\ Known(meta)' =>
                    target'[d] = meta' \/ d \in unaware'
             /\ pc'[d] = "unlink" =>
                    meta' \in {target'[d], Nobody} \/ d \in unaware'
  <2>1. CASE d = c
    BY <1>1, <2>1
  <2>2. CASE d # c
    BY <1>1, <2>2
  <2> QED BY <2>1, <2>2
<1>3. ASSUME NEW d \in Daemons, state'[d] = "removing"
      PROVE  meta' \in {d, Nobody} \/ d \in unaware'
  BY <1>3
<1> QED BY <1>2, <1>3

\* Nobody is about to remove a daemon it never had to see, and no step changes that.
LEMMA LookStep ==
    ASSUME Others, LookInv, [Next]_vars
    PROVE  LookInv'
<1> USE NobodyAssumption, DistinctAssumption
    DEF Others, daemonVars, lockVars, talkVars
<1>1. ASSUME NEW c \in Clients, Begin(c) PROVE LookInv'
  <2>1. Goto(c, "probe")
    BY <1>1 DEF Begin
  <2> QED BY <1>1, <2>1, NobodyIsOvertaken DEF Begin, StopSteps, StartSteps
<1>2. ASSUME NEW c \in Clients, ReadMeta(c) PROVE LookInv'
  <2>1. Goto(c, "ping")
    BY <1>2 DEF ReadMeta
  <2> QED BY <1>2, <2>1, NobodyIsOvertaken DEF ReadMeta, StopSteps, StartSteps
<1>3. ASSUME NEW c \in Clients, Found(c) PROVE LookInv'
  <2>1. \E l \in {"release", "ask", "stop", "done"} :
            Goto(c, l) /\ (l = "stop" => cmd'[c] = "stop")
    BY <1>3 DEF Found, End
  <2> QED BY <1>3, <2>1, NobodyIsOvertaken DEF Found, End, StopSteps, StartSteps
<1>4. ASSUME NEW c \in Clients, NoMeta(c) PROVE LookInv'
  <2>1. \E l \in {"probe", "lock", "reread", "done"} :
            Goto(c, l) /\ (l = "reread" => cmd'[c] = "stop")
    BY <1>4 DEF NoMeta, Unfound
  <2> QED BY <1>4, <2>1, NobodyIsOvertaken DEF NoMeta, Unfound, StopSteps, StartSteps
<1>5. ASSUME NEW c \in Clients, NoAnswer(c) PROVE LookInv'
  <2>1. \E l \in {"probe", "lock", "reread", "done"} :
            Goto(c, l) /\ (l = "reread" => cmd'[c] = "stop")
    BY <1>5 DEF NoAnswer, Unfound
  <2>2. meta # Nobody /\ Known(meta) => c \in unaware'
    BY <1>5 DEF NoAnswer, LookInv, Known, Healthy, Serving
  <2>3. unaware \subseteq unaware' /\ meta' = meta /\ state' = state /\ cmd' = cmd
    BY <1>5 DEF NoAnswer, Unfound
  <2> QED BY <1>5, <2>1, <2>2, <2>3, NobodyIsOvertaken
          DEF NoAnswer, Unfound, StopSteps, StartSteps
<1>6. ASSUME NEW c \in Clients,
             GiveUp(c) \/ LockTaken(c) \/ ReclaimFails(c) \/ Release(c) \/ Crash(c)
      PROVE  LookInv'
  <2>1. \E l \in {"probe", "release", "done"} : Goto(c, l)
    BY <1>6 DEF GiveUp, LockTaken, ReclaimFails, Release, Crash, Lose, End
  <2>2. /\ meta' = meta /\ state' = state
        /\ unaware \ {c} \subseteq unaware'
        /\ \A d \in Clients \ {c} : cmd'[d] = cmd[d] /\ target'[d] = target[d]
    BY <1>6 DEF GiveUp, LockTaken, ReclaimFails, Release, Crash, Lose, End
  <2> QED BY <2>1, <2>2, NobodyIsOvertaken DEF StopSteps, StartSteps
<1>7. ASSUME NEW c \in Clients,
             Lock(c) \/ LockExists(c) \/ LockStale(c) \/ Reclaim(c)
      PROVE  LookInv'
  <2>1. \E l \in {"clear", "age", "reage", "reclaim", "rereclaim", "relock", "probe",
                  "done"} :
            Goto(c, l) /\ (l \in StartSteps => unaware' = unaware)
    BY <1>7 DEF Lock, LockExists, LockStale, Reclaim, Lose, End, StartSteps
  <2>2. /\ meta' = meta /\ state' = state
        /\ unaware \ {c} \subseteq unaware'
        /\ \A d \in Clients \ {c} : cmd'[d] = cmd[d] /\ target'[d] = target[d]
        /\ pc[c] \in StartSteps
    BY <1>7 DEF Lock, LockExists, LockStale, Reclaim, Lose, End, StartSteps
  <2>3. meta # Nobody /\ Known(meta) => c \in unaware
    BY <2>2 DEF LookInv
  <2> QED BY <2>1, <2>2, <2>3, NobodyIsOvertaken DEF StopSteps, StartSteps
<1>8. ASSUME NEW c \in Clients, Clear(c) PROVE LookInv'
  BY <1>8 DEF Clear, Goto, LookInv, StopSteps, StartSteps
<1>9. ASSUME NEW c \in Clients, Spawn(c) PROVE LookInv'
  <2>1. \E l \in {"probe", "release"} : Goto(c, l)
    BY <1>9 DEF Spawn
  <2>2. \A d \in Daemons : state'[d] \in {"up", "removing"} => state'[d] = state[d]
    BY <1>9 DEF Spawn, Become
  <2> QED BY <1>9, <2>1, <2>2, NobodyIsOvertaken DEF Spawn, StopSteps, StartSteps
<1>10. ASSUME NEW c \in Clients,
              AskToStop(c) \/ StopUnanswered(c) \/ Settle(c) \/ Kill(c)
       PROVE  LookInv'
  <2>1. \E l \in {"settle", "compare", "kill"} : Goto(c, l)
    BY <1>10 DEF AskToStop, StopUnanswered, Settle, Kill
  <2>2. UNCHANGED <<meta, cmd, target, unaware>> /\ pc[c] \in StopSteps
    BY <1>10 DEF AskToStop, StopUnanswered, Settle, Kill, StopSteps
  <2>3. \A d \in Daemons : state'[d] \in {"up", "removing"} => state'[d] = state[d]
    BY <1>10 DEF AskToStop, StopUnanswered, Settle, Kill, Become
  <2>4. cmd'[c] = "stop"
    BY <2>2 DEF LookInv
  <2> QED BY <2>1, <2>2, <2>3, <2>4, NobodyIsOvertaken DEF StartSteps
<1>11. ASSUME NEW c \in Clients, Reread(c) \/ Compare(c) PROVE LookInv'
  <2>1. pc[c] \in StopSteps
    BY <1>11 DEF Reread, Compare, StopSteps
  <2>2. cmd[c] = "stop"
    BY <2>1 DEF LookInv
  <2>3. \E l \in {"kill", "unlink", "done"} :
            /\ Goto(c, l)
            /\ l # "done" => cmd'[c] = "stop"
            /\ l = "unlink" => meta = target'[c]
    BY <1>11, <2>2 DEF Reread, Compare, End
  <2>4. /\ meta' = meta /\ state' = state
        /\ unaware \ {c} \subseteq unaware'
        /\ \A d \in Clients \ {c} : cmd'[d] = cmd[d] /\ target'[d] = target[d]
    BY <1>11 DEF Reread, Compare, End
  <2> QED BY <2>3, <2>4, NobodyIsOvertaken DEF StopSteps, StartSteps
<1>12. ASSUME NEW c \in Clients, Unlink(c) PROVE LookInv'
  BY <1>12 DEF Unlink, End, Goto, LookInv, StopSteps, StartSteps
<1>13. ASSUME NEW c \in Clients, Ask(c) \/ Wedge(c) \/ Handle(c) PROVE LookInv'
  <2>1. \E l \in {"inflight", "wedged", "reply", "done"} : Goto(c, l)
    BY <1>13 DEF Ask, Wedge, Handle, Finish, Reply, Reset, End
  <2>2. /\ meta' = meta /\ state' = state
        /\ unaware \ {c} \subseteq unaware'
        /\ \A d \in Clients \ {c} : cmd'[d] = cmd[d] /\ target'[d] = target[d]
    BY <1>13 DEF Ask, Wedge, Handle, Finish, Reply, Reset, End
  <2> QED BY <2>1, <2>2, NobodyIsOvertaken DEF StopSteps, StartSteps
<1>14. ASSUME NEW d \in Daemons, Publish(d) PROVE LookInv'
  BY <1>14 DEF Publish, Become, Lookers, LookInv, StopSteps, StartSteps
<1>15. ASSUME NEW d \in Daemons, Die(d) \/ Condemn(d) \/ Leave(d) PROVE LookInv'
  BY <1>15 DEF Die, Condemn, Leave, Become, LookInv, Known, StopSteps, StartSteps
<1>16. ASSUME NEW d \in Daemons, CompareOwn(d) PROVE LookInv'
  BY <1>16 DEF CompareOwn, Become, LookInv, Known, StopSteps, StartSteps
<1>17. ASSUME NEW d \in Daemons, RemoveOwn(d) PROVE LookInv'
  BY <1>17 DEF RemoveOwn, Become, LookInv, Known, StopSteps, StartSteps
<1>18. CASE LockAges
  BY <1>18 DEF LockAges, LookInv, Known
<1>19. CASE UNCHANGED vars
  BY <1>19 DEF vars, LookInv, Known
<1> QED
  BY <1>1, <1>2, <1>3, <1>4, <1>5, <1>6, <1>7, <1>8, <1>9, <1>10, <1>11,
     <1>12, <1>13, <1>14, <1>15, <1>16, <1>17, <1>18, <1>19
     DEF Next, ClientStep, DaemonStep, Lifecycle

\* The steps that remove daemon.json are taken by somebody who had not looked since
\* the daemon it names published, or who meant to stop that daemon.
LEMMA RemovalIsJustified ==
    ASSUME Others, LookInv, [Next]_vars, NEW d \in Daemons \ Outdated,
           meta = d, meta' = Nobody, state[d] = "up"
    PROVE  \E a \in Clients \cup Daemons :
               /\ Moves(a)
               /\ \/ a \in unaware
                  \/ a \in Clients /\ cmd[a] = "stop" /\ target[a] = d
<1> USE NobodyAssumption, DistinctAssumption
    DEF Others, daemonVars, lockVars, talkVars
<1>1. d # Nobody /\ Known(meta)
  BY DEF Known
<1>2. ASSUME NEW c \in Clients, Clear(c) PROVE c \in unaware /\ Moves(c)
  BY <1>1, <1>2 DEF Clear, Goto, Moves, LookInv, StartSteps
<1>3. ASSUME NEW c \in Clients, Unlink(c)
      PROVE  /\ Moves(c)
             /\ c \in unaware \/ (cmd[c] = "stop" /\ target[c] = d)
  BY <1>1, <1>3 DEF Unlink, End, Goto, Moves, LookInv, StopSteps
<1>4. ASSUME NEW e \in Daemons, RemoveOwn(e) PROVE e \in unaware /\ Moves(e)
  BY <1>1, <1>4 DEF RemoveOwn, Become, Moves, LookInv
<1>5. ASSUME NEW c \in Clients, ClientStep(c), ~Clear(c), ~Unlink(c)
      PROVE  meta' = meta
  BY <1>5 DEF ClientStep, Begin, ReadMeta, Found, NoMeta, NoAnswer, GiveUp, Lock,
     LockExists, LockTaken, LockStale, Reclaim, ReclaimFails, Spawn, Release,
     Crash, Reread, AskToStop, StopUnanswered, Settle, Kill, Compare, Ask, Wedge,
     Handle, Finish, Reply, Reset
<1>6. ASSUME NEW e \in Daemons, DaemonStep(e), ~RemoveOwn(e)
      PROVE  meta' # Nobody
  BY <1>1, <1>6 DEF DaemonStep, Publish, Die, Lifecycle, Condemn, Leave, CompareOwn
<1>7. CASE LockAges
  BY <1>1, <1>7 DEF LockAges
<1>8. CASE UNCHANGED vars
  BY <1>1, <1>8 DEF vars
<1> QED BY <1>1, <1>2, <1>3, <1>4, <1>5, <1>6, <1>7, <1>8 DEF Next

\* A daemon that serves and has published itself stays known until a newer one
\* publishes, or somebody removes daemon.json who meant to stop it, who looked
\* before it published, or whose ping it did not answer in time.
\* (_remove_daemon_metadata, _spawn_daemon_subprocess)
THEOREM HealthyMetadataKept == Spec => HealthyMetadataIsKept
<1> DEFINE Kept ==
        \A d \in Daemons \ Outdated :
            meta = d /\ meta' = Nobody /\ state[d] = "up" =>
                \E a \in Clients \cup Daemons :
                    /\ Moves(a)
                    /\ \/ a \in unaware
                       \/ a \in Clients /\ cmd[a] = "stop" /\ target[a] = d
<1>1. Init => LookInv
  BY DEF Init, LookInv, StopSteps, StartSteps
<1>2. Others /\ LookInv /\ [Next]_vars => LookInv'
  BY LookStep
<1>3. TypeOK => Others
  BY DEF TypeOK, Others
<1>4. Others /\ LookInv /\ [Next]_vars => Kept
  BY RemovalIsJustified
<1>5. Others /\ LookInv /\ [Next]_vars => [Kept]_vars
  BY <1>4
<1> QED BY <1>1, <1>2, <1>3, <1>5, TypeCorrect, PTL DEF Spec, HealthyMetadataIsKept
=============================================================================
