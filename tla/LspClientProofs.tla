-------------------------- MODULE LspClientProofs ---------------------------
(***************************************************************************)
(* What the language server client guarantees for any number of calling    *)
(* threads, servers and requests, whatever dies or stops reading, and      *)
(* however late the readers are.                                           *)
(*                                                                         *)
(* LockInv says which steps are taken under _start_lock, StopInv what a    *)
(* stop may assume of the process it is after, IdInv that an id belongs to *)
(* one call wherever it turns up, and WaitInv that the tables lead to      *)
(* every call that waits untold, but for two kinds of calls, and that no   *)
(* other waits untold when a start may replace the tables.                 *)
(***************************************************************************)
EXTENDS LspClient, TLAPS

StartSteps == {"spawn", "reset", "nested", "initialized", "notify", "stuck"}
StopSteps == {"shutdown", "shutting", "exit", "clean"}

LockInv == \A c \in Calls : pc[c] \in StartSteps => startLock = c

\* A start does not spawn over a process, and a stop has ended its victim when
\* it comes to forget it.
StopInv ==
    \A c \in Calls :
        /\ pc[c] \in StopSteps <=> victim[c] # Nobody
        /\ pc[c] = "clean" => server[victim[c]] = "dead"
        /\ pc[c] = "spawn" => process = Nobody
        /\ startLock = c /\ pc[c] \in StopSteps =>
               process \in {victim[c], Nobody}

\* Responses on their way to a call.
InFlight ==
    sent \cup orphans \cup ({inhand[s] : s \in Servers} \ {Nobody})
         \cup {f.what : f \in {g \in slot : g.what # Closed}}

\* Where the id n of a request of c turns up.
Named(n, c) ==
    \/ [id |-> n, call |-> c] \in pending
    \/ \E m \in InFlight : m.id = n /\ m.call = c
    \/ Waits(c) /\ id[c] = n

\* Ids are never used again: each leads to one call, as long as it leads anywhere.
IdInv ==
    /\ \A n \in Nat, c \in Calls : Named(n, c) => n =< lastId
    /\ \A n \in Nat, c, d \in Calls : Named(n, c) /\ Named(n, d) => c = d
    /\ \A f \in slot : f.what # Closed => f.what.id = f.id

\* Told, or one of the two kinds of calls that a start may drop.
Settled(c) == id[c] \in Full \/ c \in early \cup untold

\* A start may be about to replace the tables, or may come to be.
Exposed == process = Nobody \/ \E k \in Calls : pc[k] = "reset"

-----------------------------------------------------------------------------
(* Types *)

\* The helpers that register and pop keep the types of what they change.
LEMMA SendType ==
    ASSUME TypeOK, NEW c \in Calls, Send(c), Running
    PROVE  /\ lastId' \in Nat /\ id' \in [Calls -> Nat] /\ writer' = Nobody
           /\ pending' \subseteq [id : Nat, call : Calls]
           /\ orphans' \subseteq Responses /\ sent' \subseteq Responses
           /\ slot' \subseteq [id : Nat, what : Responses \cup {Closed}]
           /\ early' \subseteq Calls /\ untold' \subseteq Calls
<1> USE DEF TypeOK
<1>1. lastId' \in Nat /\ process \in Servers
  BY DEF Send, Running
<1>2. sent' \subseteq Responses
  BY <1>1 DEF Send, Responses
<1>3. slot' \subseteq [id : Nat, what : Responses \cup {Closed}]
  BY <1>1 DEF Send
<1>4. pending' \subseteq [id : Nat, call : Calls]
  BY <1>1 DEF Send
<1> QED BY <1>1, <1>2, <1>3, <1>4 DEF Send

LEMMA PopType ==
    ASSUME TypeOK, NEW c \in Calls, Pop(c)
    PROVE  /\ id' \in [Calls -> Nat]
           /\ pending' \subseteq [id : Nat, call : Calls]
           /\ slot' \subseteq [id : Nat, what : Responses \cup {Closed}]
           /\ early' \subseteq Calls /\ untold' \subseteq Calls
BY DEF TypeOK, Pop

LEMMA PutType ==
    ASSUME TypeOK, NEW ids, ids \subseteq Nat, NEW m \in Responses \cup {Closed}
    PROVE  Put(ids, m) \subseteq [id : Nat, what : Responses \cup {Closed}]
BY DEF TypeOK, Put

LEMMA RegisteredType == TypeOK => Registered \subseteq Nat
BY DEF TypeOK, Registered

LEMMA TypeStep ==
    ASSUME TypeOK, [Next]_vars
    PROVE  TypeOK'
<1> USE NobodyAssumption
    DEF TypeOK, serverVars, lockVars, requestVars, tableVars, stopVars, Starting
<1>1. ASSUME NEW c \in Calls, Begin(c) PROVE TypeOK'
  BY <1>1 DEF Begin, Goto
<1>3. ASSUME NEW c \in Calls, Start(c) PROVE TypeOK'
  BY <1>3 DEF Start, Goto, Raise
<1>4. ASSUME NEW c \in Calls, Spawn(c) PROVE TypeOK'
  <2>1. process' \in Servers
    BY <1>4 DEF Spawn, Unused
  <2> QED BY <1>4, <2>1 DEF Spawn, Goto
<1>5. ASSUME NEW c \in Calls, SpawnFails(c) PROVE TypeOK'
  BY <1>5 DEF SpawnFails, Goto, Raise
<1>6. ASSUME NEW c \in Calls, Reset(c) PROVE TypeOK'
  BY <1>6 DEF Reset, Goto, Referenced
<1>7. ASSUME NEW c \in Calls, Nested(c) PROVE TypeOK'
  BY <1>7 DEF Nested, Goto
<1>8. ASSUME NEW c \in Calls, Notify(c) \/ NotifyFails(c) PROVE TypeOK'
  BY <1>8 DEF Notify, NotifyFails, Goto, Raise
<1>10. ASSUME NEW c \in Calls, Register(c) \/ Shutdown(c) PROVE TypeOK'
  <2>1. Send(c) /\ Running
    BY <1>10 DEF Register, Shutdown
  <2> QED BY <1>10, <2>1, SendType DEF Register, Shutdown, Goto
<1>11. ASSUME NEW c \in Calls, RegisterFails(c) PROVE TypeOK'
  <2>1. lastId' \in Nat /\ pending' \subseteq [id : Nat, call : Calls]
    BY <1>11 DEF RegisterFails, SendFails
  <2>2. cooling' \in BOOLEAN
    BY <1>11, Zenon DEF RegisterFails, StartFailed
  <2> QED BY <1>11, <2>1, <2>2
          DEF RegisterFails, SendFails, StartFailed, Goto, Raise
<1>12. ASSUME NEW c \in Calls, Receive(c) PROVE TypeOK'
  <2>1. Pop(c)
    BY <1>12 DEF Receive
  <2> QED BY <1>12, <2>1, PopType DEF Receive, Goto
<1>13. ASSUME NEW c \in Calls, Fail(c) PROVE TypeOK'
  <2>1. Pop(c)
    BY <1>13 DEF Fail
  <2>2. cooling' \in BOOLEAN
    BY <1>13, Zenon DEF Fail, StartFailed
  <2> QED BY <1>13, <2>1, <2>2, PopType DEF Fail, StartFailed, Goto, Raise
<1>14. ASSUME NEW c \in Calls, Halt(c) PROVE TypeOK'
  BY <1>14 DEF Halt, Goto, Stopped, Raise
<1>15. ASSUME NEW c \in Calls, ShutdownFails(c) PROVE TypeOK'
  <2>1. lastId' \in Nat /\ pending' \subseteq [id : Nat, call : Calls]
    BY <1>15 DEF ShutdownFails, SendFails
  <2> QED BY <1>15, <2>1 DEF ShutdownFails, SendFails, Goto
<1>16. ASSUME NEW c \in Calls, ShutdownEnds(c) PROVE TypeOK'
  <2>1. Pop(c)
    BY <1>16 DEF ShutdownEnds
  <2> QED BY <1>16, <2>1, PopType DEF ShutdownEnds, Goto
<1>17. ASSUME NEW c \in Calls, Exit(c) PROVE TypeOK'
  BY <1>17 DEF Exit, Goto
<1>18. ASSUME NEW c \in Calls, Clean(c) PROVE TypeOK'
  <2>1. slot' \subseteq [id : Nat, what : Responses \cup {Closed}]
    BY <1>18, PutType, RegisteredType DEF Clean, Referenced
  <2> QED BY <1>18, <2>1 DEF Clean, Forget, Goto, Stopped, Raise
<1>19. ASSUME NEW c \in Calls, CleanRaises(c) PROVE TypeOK'
  <2>1. slot' \subseteq [id : Nat, what : Responses \cup {Closed}]
    BY <1>19, PutType, RegisteredType DEF CleanRaises
  <2>2. untold' \subseteq Calls
    BY <1>19 DEF CleanRaises
  <2> QED BY <1>19, <2>1, <2>2 DEF CleanRaises, Forget, Goto, Raise
<1>20. ASSUME NEW c \in Calls, Block(c) PROVE TypeOK'
  BY <1>20 DEF Block, Running
<1>21. ASSUME NEW s \in Servers, Read(s) PROVE TypeOK'
  BY <1>21 DEF Read
<1>22. ASSUME NEW s \in Servers, Dispatch(s) PROVE TypeOK'
  <2>1. inhand[s] \in Responses
    BY <1>22 DEF Dispatch
  <2>2. inhand[s].id \in Nat
    BY <2>1 DEF Responses
  <2>3. slot' \subseteq [id : Nat, what : Responses \cup {Closed}]
    BY <1>22, <2>1, <2>2, PutType DEF Dispatch
  <2> QED BY <1>22, <2>1, <2>3 DEF Dispatch
<1>23. ASSUME NEW s \in Servers, Eof(s) \/ Garble(s) PROVE TypeOK'
  <2>1. slot' \subseteq [id : Nat, what : Responses \cup {Closed}]
    BY <1>23, PutType, RegisteredType DEF Eof, Garble, ReaderEnds
  <2> QED BY <1>23, <2>1 DEF Eof, Garble, ReaderEnds
<1>24. ASSUME NEW s \in Servers, Die(s) PROVE TypeOK'
  BY <1>24 DEF Die
<1>25. ASSUME NEW s \in Servers, BlockReader(s) \/ Unblock(s) PROVE TypeOK'
  BY <1>25 DEF BlockReader, Unblock, Running
<1>26. CASE CoolDown
  BY <1>26 DEF CoolDown
<1>27. CASE UNCHANGED vars
  BY <1>27 DEF vars
<1> QED
  BY <1>1, <1>3, <1>4, <1>5, <1>6, <1>7, <1>8, <1>10, <1>11, <1>12, <1>13, <1>14,
     <1>15, <1>16, <1>17, <1>18, <1>19, <1>20, <1>21, <1>22, <1>23, <1>24, <1>25,
     <1>26, <1>27 DEF Next, CallStep, ReaderStep

\* Every variable keeps its type; _start_lock is held by a call that is at work.
THEOREM TypeCorrect == Spec => []TypeOK
<1>1. Init => TypeOK
  <2>1. Init => cooling \in BOOLEAN
    BY Zenon DEF Init
  <2> QED BY <2>1, NobodyAssumption DEF Init, TypeOK
<1>2. TypeOK /\ [Next]_vars => TypeOK'
  BY TypeStep
<1> QED BY <1>1, <1>2, PTL DEF Spec
-----------------------------------------------------------------------------
(* Starting and stopping *)

\* The steps of a start are taken by the holder of _start_lock.
LEMMA LockStep ==
    ASSUME TypeOK, LockInv, [Next]_vars
    PROVE  LockInv'
<1> USE NobodyAssumption
    DEF TypeOK, LockInv, StartSteps, lockVars, Goto, Raise, Starting
<1>1. ASSUME NEW c \in Calls, Begin(c) \/ Spawn(c) \/ Reset(c) \/ Nested(c)
      PROVE  LockInv'
  BY <1>1 DEF Begin, Spawn, Reset, Nested
<1>2. ASSUME NEW c \in Calls, Start(c) \/ SpawnFails(c) PROVE LockInv'
  BY <1>2 DEF Start, SpawnFails
<1>3. ASSUME NEW c \in Calls, Notify(c) \/ NotifyFails(c) PROVE LockInv'
  BY <1>3 DEF Notify, NotifyFails
<1>4. ASSUME NEW c \in Calls,
             Register(c) \/ Receive(c) \/ Shutdown(c) \/ ShutdownFails(c)
             \/ ShutdownEnds(c) \/ Exit(c)
      PROVE  LockInv'
  BY <1>4 DEF Register, Receive, Shutdown, ShutdownFails, ShutdownEnds, Exit
<1>5. ASSUME NEW c \in Calls, RegisterFails(c) \/ Fail(c) PROVE LockInv'
  BY <1>5 DEF RegisterFails, Fail, StartFailed
<1>6. ASSUME NEW c \in Calls, Halt(c) \/ Clean(c) \/ CleanRaises(c)
      PROVE  LockInv'
  BY <1>6 DEF Halt, Clean, CleanRaises, Stopped
<1>7. ASSUME NEW c \in Calls, Block(c) PROVE LockInv'
  BY <1>7 DEF Block
<1>8. ASSUME NEW s \in Servers,
             ReaderStep(s) \/ Garble(s) \/ Die(s) \/ BlockReader(s)
      PROVE  LockInv'
  BY <1>8 DEF ReaderStep, Read, Dispatch, Eof, Garble, ReaderEnds, Die,
     BlockReader, Unblock
<1>9. CASE CoolDown \/ UNCHANGED vars
  BY <1>9 DEF CoolDown, vars
<1> QED
  BY <1>1, <1>2, <1>3, <1>4, <1>5, <1>6, <1>7, <1>8, <1>9 DEF Next, CallStep

\* Only the holder of _start_lock makes a process, and only after it has seen
\* that there is none.
LEMMA StopStep ==
    ASSUME TypeOK, LockInv, StopInv, [Next]_vars
    PROVE  StopInv'
<1> USE NobodyAssumption
    DEF TypeOK, LockInv, StartSteps, StopInv, StopSteps, serverVars, lockVars,
        stopVars, Goto, Raise, Starting
<1>1. ASSUME NEW c \in Calls, Begin(c) \/ Reset(c) \/ Nested(c) PROVE StopInv'
  BY <1>1 DEF Begin, Reset, Nested
<1>2. ASSUME NEW c \in Calls, Start(c) PROVE StopInv'
  BY <1>2 DEF Start
<1>3. ASSUME NEW c \in Calls, Spawn(c) PROVE StopInv'
  <2>1. process' \in Servers /\ server[process'] = "unused"
        /\ server' = [server EXCEPT ![process'] = "up"]
    BY <1>3 DEF Spawn, Unused
  <2>2. startLock = c /\ startLock' = startLock /\ victim' = victim
        /\ pc' = [pc EXCEPT ![c] = "reset"] /\ pc[c] = "spawn"
    BY <1>3 DEF Spawn
  <2> QED BY <2>1, <2>2
<1>4. ASSUME NEW c \in Calls, SpawnFails(c) \/ Notify(c) \/ NotifyFails(c)
      PROVE  StopInv'
  BY <1>4 DEF SpawnFails, Notify, NotifyFails
<1>5. ASSUME NEW c \in Calls, Register(c) \/ Receive(c) PROVE StopInv'
  BY <1>5 DEF Register, Receive
<1>6. ASSUME NEW c \in Calls, RegisterFails(c) \/ Fail(c) PROVE StopInv'
  BY <1>6 DEF RegisterFails, Fail, StartFailed
<1>7. ASSUME NEW c \in Calls, Shutdown(c) \/ ShutdownFails(c) \/ ShutdownEnds(c)
      PROVE  StopInv'
  BY <1>7 DEF Shutdown, ShutdownFails, ShutdownEnds
<1>8. ASSUME NEW c \in Calls, Halt(c) PROVE StopInv'
  BY <1>8 DEF Halt, Stopped
<1>9. ASSUME NEW c \in Calls, Exit(c) PROVE StopInv'
  <2>1. \A s \in Servers : server[s] = "dead" => server'[s] = "dead"
    BY <1>9 DEF Exit
  <2>2. server'[victim[c]] = "dead"
    BY <1>9 DEF Exit
  <2>3. /\ pc' = [pc EXCEPT ![c] = "clean"] /\ pc[c] = "exit"
        /\ UNCHANGED <<process, startLock, victim>>
    BY <1>9 DEF Exit
  <2> QED BY <2>1, <2>2, <2>3
<1>10. ASSUME NEW c \in Calls, Clean(c) \/ CleanRaises(c) PROVE StopInv'
  BY <1>10 DEF Clean, CleanRaises, Forget, Stopped
<1>11. ASSUME NEW c \in Calls, Block(c) PROVE StopInv'
  BY <1>11 DEF Block
<1>12. ASSUME NEW s \in Servers,
              ReaderStep(s) \/ Garble(s) \/ Die(s) \/ BlockReader(s)
       PROVE  StopInv'
  BY <1>12 DEF ReaderStep, Read, Dispatch, Eof, Garble, ReaderEnds, Die,
     BlockReader, Unblock
<1>13. CASE CoolDown \/ UNCHANGED vars
  BY <1>13 DEF CoolDown, vars
<1> QED
  BY <1>1, <1>2, <1>3, <1>4, <1>5, <1>6, <1>7, <1>8, <1>9, <1>10, <1>11,
     <1>12, <1>13 DEF Next, CallStep

LEMMA StartStopInvariant == Spec => [](TypeOK /\ LockInv /\ StopInv)
<1>1. Init => LockInv /\ StopInv
  BY NobodyAssumption DEF Init, LockInv, StopInv, StartSteps, StopSteps
<1> QED BY <1>1, LockStep, StopStep, TypeCorrect, PTL DEF Spec

\* A running server is the client's own or about to be ended: two threads that
\* start at once do not both spawn.  (start, _start_lock)
THEOREM NoOrphans == Spec => []NoServerIsOrphaned
<1>1. Init => NoServerIsOrphaned
  BY DEF Init, NoServerIsOrphaned
<1>2. ASSUME TypeOK, LockInv, StopInv, NoServerIsOrphaned, [Next]_vars
      PROVE  NoServerIsOrphaned'
  <2> USE <1>2, NobodyAssumption
      DEF TypeOK, LockInv, StartSteps, StopInv, StopSteps, NoServerIsOrphaned,
          serverVars, stopVars
  <2>1. ASSUME NEW c \in Calls, Spawn(c) PROVE NoServerIsOrphaned'
    <3>1. process = Nobody /\ process' \in Servers /\ victim' = victim
          /\ server' = [server EXCEPT ![process'] = "up"]
      BY <2>1 DEF Spawn, Unused
    <3> QED BY <3>1
  <2>2. ASSUME NEW c \in Calls, Halt(c) PROVE NoServerIsOrphaned'
    BY <2>2 DEF Halt
  <2>3. ASSUME NEW c \in Calls, Exit(c) PROVE NoServerIsOrphaned'
    <3>1. \A s \in Servers : server'[s] = "up" => server[s] = "up"
      BY <2>3 DEF Exit
    <3> QED BY <2>3, <3>1 DEF Exit
  <2>4. ASSUME NEW c \in Calls, Clean(c) \/ CleanRaises(c)
        PROVE  NoServerIsOrphaned'
    BY <2>4 DEF Clean, CleanRaises, Forget
  <2>5. ASSUME NEW c \in Calls, Begin(c) \/ CallStep(c) \/ Block(c),
               ~Spawn(c), ~Halt(c), ~Exit(c), ~Clean(c), ~CleanRaises(c)
        PROVE  UNCHANGED <<server, process, victim>>
    BY <2>5 DEF Begin, CallStep, Block, Start, SpawnFails, Reset, Nested,
       Notify, NotifyFails, Register, RegisterFails, Receive, Fail, Shutdown,
       ShutdownFails, ShutdownEnds
  <2>6. ASSUME NEW s \in Servers, ReaderStep(s) \/ Garble(s) \/ BlockReader(s)
        PROVE  UNCHANGED <<server, process, victim>>
    BY <2>6 DEF ReaderStep, Read, Dispatch, Eof, Garble, ReaderEnds, BlockReader,
       Unblock
  <2>7. ASSUME NEW s \in Servers, Die(s) PROVE NoServerIsOrphaned'
    BY <2>7 DEF Die
  <2>8. CASE CoolDown \/ UNCHANGED vars
    BY <2>8 DEF CoolDown, vars
  <2>9. ASSUME UNCHANGED <<server, process, victim>>
        PROVE  NoServerIsOrphaned'
    BY <2>9
  <2> HIDE DEF NoServerIsOrphaned
  <2> QED BY <2>1, <2>2, <2>3, <2>4, <2>5, <2>6, <2>7, <2>8, <2>9 DEF Next
<1>3. TypeOK /\ LockInv /\ StopInv /\ NoServerIsOrphaned /\ [Next]_vars
          => NoServerIsOrphaned'
  BY <1>2
<1> QED BY <1>1, <1>3, StartStopInvariant, PTL DEF Spec
-----------------------------------------------------------------------------
(* Requests and answers *)

\* What put_nowait leaves in the slots.
LEMMA PutElements ==
    ASSUME NEW ids, NEW m, NEW f \in Put(ids, m)
    PROVE  \/ f \in slot
           \/ f.what = m /\ f.id \in ids
<1>1. CASE f \in slot
  BY <1>1
<1>2. CASE f \in {[id |-> n, what |-> m] : n \in ids \ Full}
  <2>1. PICK n \in ids \ Full : f = [id |-> n, what |-> m]
    BY <1>2
  <2> QED BY <2>1
<1> QED BY <1>1, <1>2 DEF Put

\* The steps that have nothing to do with requests.
Quiet(c) ==
    \/ Begin(c) \/ Start(c) \/ Spawn(c) \/ SpawnFails(c) \/ Nested(c)
    \/ Notify(c) \/ NotifyFails(c) \/ Halt(c) \/ Exit(c) \/ Block(c)

LEMMA QuietSteps ==
    ASSUME TypeOK, NEW c \in Calls, Quiet(c)
    PROVE  /\ UNCHANGED <<requestVars, tableVars, inhand>>
           /\ \A d \in Calls : Waits(d)' <=> Waits(d)
<1>1. UNCHANGED <<requestVars, tableVars, inhand>>
  BY DEF Quiet, Begin, Start, Spawn, SpawnFails, Nested, Notify, NotifyFails, Halt,
     Exit, Block, serverVars
<1>2. /\ pc[c] \notin {"waiting", "shutting"} /\ pc'[c] \notin {"waiting", "shutting"}
      /\ \A d \in Calls \ {c} : pc'[d] = pc[d]
  BY DEF TypeOK, Quiet, Begin, Start, Spawn, SpawnFails, Nested, Notify, NotifyFails,
     Halt, Exit, Block, Goto, Raise, Stopped
<1> QED BY <1>1, <1>2 DEF Waits

\* A step keeps IdInv when an id turns up for a call only where it did before, or
\* is new and the id of one call.
LEMMA IdsKept ==
    ASSUME TypeOK, TypeOK', IdInv, NEW k \in Calls, lastId =< lastId',
           \A n \in Nat, c \in Calls :
               Named(n, c)' => \/ Named(n, c)
                               \/ lastId < n /\ n =< lastId' /\ c = k,
           \A f \in slot' :
               f \in slot \/ f.what = Closed \/ f.what.id = f.id
    PROVE  IdInv'
<1>1. lastId \in Nat /\ lastId' \in Nat
  BY DEF TypeOK
<1>2. \A n \in Nat, c \in Calls : Named(n, c) => n =< lastId
  BY DEF IdInv
<1>3. \A n \in Nat, c \in Calls : Named(n, c)' => n =< lastId'
  BY <1>1, <1>2
<1>4. ASSUME NEW n \in Nat, NEW c \in Calls, NEW d \in Calls,
             Named(n, c)', Named(n, d)'
      PROVE  c = d
  <2>1. CASE n =< lastId
    <3>1. Named(n, c) /\ Named(n, d)
      BY <1>1, <1>4, <2>1
    <3> QED BY <3>1 DEF IdInv
  <2>2. CASE ~(n =< lastId)
    BY <1>2, <1>4, <2>2
  <2> QED BY <2>1, <2>2
<1>5. \A f \in slot' : f.what # Closed => f.what.id = f.id
  BY DEF IdInv
<1> QED BY <1>3, <1>4, <1>5 DEF IdInv

\* So it does when nothing new turns up.
LEMMA NothingNew ==
    ASSUME TypeOK, TypeOK', IdInv, lastId' = lastId,
           InFlight' \subseteq InFlight, pending' \subseteq pending,
           \A c \in Calls : Waits(c)' => Waits(c) /\ id'[c] = id[c],
           \A f \in slot' :
               f \in slot \/ f.what = Closed \/ f.what.id = f.id
    PROVE  IdInv'
<1>1. CASE Calls = {}
  <2>1. \A f \in slot' : f.what # Closed => f.what.id = f.id
    BY DEF IdInv
  <2> QED BY <1>1, <2>1 DEF IdInv
<1>2. ASSUME NEW k \in Calls PROVE IdInv'
  <2>1. \A n \in Nat, c \in Calls : Named(n, c)' => Named(n, c)
    BY DEF Named
  <2>2. lastId =< lastId'
    BY DEF TypeOK
  <2> QED BY <2>1, <2>2, <1>2, IdsKept
<1> QED BY <1>1, <1>2

\* A request gets an id that nothing bears yet.
LEMMA SendKeepsIds ==
    ASSUME TypeOK, TypeOK', IdInv, NEW c \in Calls, Send(c),
           inhand' = inhand, \A d \in Calls \ {c} : pc'[d] = pc[d]
    PROVE  IdInv'
<1> DEFINE n0 == lastId + 1
           m0 == [id |-> n0, call |-> c, server |-> process]
<1>1. lastId \in Nat /\ lastId' = n0 /\ id' = [id EXCEPT ![c] = n0]
      /\ pending' = pending \cup {[id |-> n0, call |-> c]}
      /\ sent' \subseteq sent \cup {m0} /\ orphans' \subseteq orphans
  BY DEF Send, TypeOK
<1>2. \A f \in slot' : \/ f \in slot
                       \/ f.what \in orphans /\ f.what.id = f.id
  BY DEF Send
<1>3. m0.id = n0 /\ m0.call = c
  OBVIOUS
<1> HIDE DEF m0
<1>4. InFlight' \subseteq InFlight \cup {m0}
  BY <1>1, <1>2 DEF InFlight
<1>5. ASSUME NEW n \in Nat, NEW d \in Calls, Named(n, d)'
      PROVE  \/ Named(n, d)
             \/ lastId < n /\ n =< lastId' /\ d = c
  <2>1. CASE [id |-> n, call |-> d] \in pending'
    BY <1>1, <2>1 DEF Named
  <2>2. CASE \E m \in InFlight' : m.id = n /\ m.call = d
    BY <1>1, <1>3, <1>4, <2>2 DEF Named
  <2>3. CASE Waits(d)' /\ id'[d] = n
    <3>1. CASE d = c
      BY <1>1, <2>3, <3>1 DEF TypeOK
    <3>2. CASE d # c
      BY <1>1, <2>3, <3>2 DEF TypeOK, Named, Waits
    <3> QED BY <3>1, <3>2
  <2> QED BY <1>5, <2>1, <2>2, <2>3 DEF Named
<1>6. lastId =< lastId'
  BY <1>1
<1> QED BY <1>2, <1>5, <1>6, IdsKept

\* Each step keeps ids and calls together.
LEMMA IdStep ==
    ASSUME TypeOK, IdInv, [Next]_vars
    PROVE  IdInv'
<1>0. TypeOK'
  BY TypeStep
<1> USE <1>0 DEF serverVars, requestVars, tableVars
<1>1. ASSUME NEW c \in Calls, Quiet(c) PROVE IdInv'
  <2>1. /\ UNCHANGED <<lastId, id, sent, pending, orphans, slot, inhand>>
        /\ \A d \in Calls : Waits(d)' <=> Waits(d)
    BY <1>1, QuietSteps
  <2>2. InFlight' = InFlight
    BY <2>1 DEF InFlight
  <2> QED BY <2>1, <2>2, NothingNew
<1>2. ASSUME NEW c \in Calls, Reset(c) PROVE IdInv'
  <2>1. /\ UNCHANGED <<lastId, id, sent, inhand>> /\ pending' = {} /\ orphans' = {}
        /\ slot' \subseteq slot
    BY <1>2 DEF Reset, Referenced
  <2>2. \A d \in Calls : Waits(d)' => Waits(d)
    BY <1>2 DEF TypeOK, Reset, Goto, Waits
  <2>3. InFlight' \subseteq InFlight
    BY <2>1 DEF InFlight
  <2> QED BY <2>1, <2>2, <2>3, NothingNew
<1>3. ASSUME NEW c \in Calls, Register(c) \/ Shutdown(c) PROVE IdInv'
  <2>1. Send(c) /\ inhand' = inhand /\ \A d \in Calls \ {c} : pc'[d] = pc[d]
    BY <1>3 DEF TypeOK, Register, Shutdown, Goto
  <2> QED BY <2>1, SendKeepsIds
<1>4. ASSUME NEW c \in Calls, RegisterFails(c) \/ ShutdownFails(c) PROVE IdInv'
  <2>1. SendFails(c) /\ UNCHANGED <<id, sent, orphans, slot, inhand>>
    BY <1>4 DEF RegisterFails, ShutdownFails
  <2>2. \A d \in Calls : Waits(d)' => Waits(d)
    BY <1>4 DEF TypeOK, RegisterFails, ShutdownFails, StartFailed, Goto, Raise,
       Waits
  <2>3. InFlight' = InFlight
    BY <2>1 DEF InFlight
  <2>4. CASE UNCHANGED <<lastId, pending>>
    BY <2>1, <2>2, <2>3, <2>4, NothingNew
  <2>5. CASE /\ lastId' = lastId + 1
             /\ pending' = pending \cup {[id |-> lastId', call |-> c]}
    <3>1. \A n \in Nat, d \in Calls :
              Named(n, d)' => \/ Named(n, d)
                              \/ lastId < n /\ n =< lastId' /\ d = c
      BY <2>1, <2>2, <2>3, <2>5 DEF Named, TypeOK
    <3>2. lastId =< lastId'
      BY <2>5 DEF TypeOK
    <3> QED BY <2>1, <3>1, <3>2, IdsKept
  <2> QED BY <2>1, <2>4, <2>5 DEF SendFails
<1>5. ASSUME NEW c \in Calls, Receive(c) \/ Fail(c) \/ ShutdownEnds(c)
      PROVE  IdInv'
  <2>1. Pop(c) /\ UNCHANGED <<lastId, sent, orphans, inhand>>
    BY <1>5 DEF Receive, Fail, ShutdownEnds
  <2>2. /\ pc'[c] \notin {"waiting", "shutting"}
        /\ \A d \in Calls \ {c} : pc'[d] = pc[d]
    BY <1>5 DEF TypeOK, Receive, Fail, ShutdownEnds, StartFailed, Goto, Raise
  <2>3. \A d \in Calls : Waits(d)' => Waits(d) /\ id'[d] = id[d]
    BY <2>1, <2>2 DEF TypeOK, Pop, Waits
  <2>4. slot' \subseteq slot /\ pending' \subseteq pending
    BY <2>1 DEF Pop
  <2>5. InFlight' \subseteq InFlight
    BY <2>1, <2>4 DEF InFlight
  <2> QED BY <2>1, <2>3, <2>4, <2>5, NothingNew
<1>6. ASSUME NEW c \in Calls, Clean(c) \/ CleanRaises(c) PROVE IdInv'
  <2>1. /\ UNCHANGED <<lastId, id, sent, inhand>>
        /\ pending' \subseteq pending /\ orphans' \subseteq orphans
        /\ \A f \in slot' : f \in slot \/ f.what = Closed
    BY <1>6 DEF Clean, CleanRaises, Put, Referenced
  <2>2. \A d \in Calls : Waits(d)' => Waits(d)
    BY <1>6 DEF TypeOK, Clean, CleanRaises, Stopped, Goto, Raise, Waits
  <2>3. InFlight' \subseteq InFlight
    BY <2>1 DEF InFlight
  <2> QED BY <2>1, <2>2, <2>3, NothingNew
<1>7. ASSUME NEW s \in Servers, Read(s) PROVE IdInv'
  <2>1. UNCHANGED <<lastId, pending, orphans, slot, pc, id>>
    BY <1>7 DEF Read
  <2>2. PICK m \in sent : /\ inhand' = [inhand EXCEPT ![s] = m]
                          /\ sent' = sent \ {m}
    BY <1>7 DEF Read
  <2>3. InFlight' \subseteq InFlight
    BY <2>1, <2>2 DEF InFlight, TypeOK
  <2> QED BY <2>1, <2>3, NothingNew DEF Waits
<1>8. ASSUME NEW s \in Servers, Dispatch(s) PROVE IdInv'
  <2> DEFINE m == inhand[s]
  <2>1. UNCHANGED <<lastId, pending, sent, pc, id>> /\ m # Nobody
        /\ inhand' = [inhand EXCEPT ![s] = Nobody]
        /\ orphans' \subseteq orphans \cup {m}
    BY <1>8 DEF Dispatch
  <2>2. slot' = slot \/ slot' = Put({m.id}, m)
    BY <1>8 DEF Dispatch
  <2>3. m \in InFlight
    BY <1>8, <2>1 DEF InFlight
  <2> HIDE DEF m
  <2>4. ASSUME NEW f \in slot'
        PROVE  \/ f \in slot
               \/ f.what = m /\ f.id = m.id
    <3>1. f \in slot \/ f \in Put({m.id}, m)
      BY <2>2, <2>4
    <3> QED BY <3>1, PutElements
  <2>5. InFlight' \subseteq InFlight
    BY <2>1, <2>3, <2>4 DEF InFlight, TypeOK
  <2> QED BY <2>1, <2>4, <2>5, NothingNew DEF Waits
<1>9. ASSUME NEW s \in Servers, Eof(s) \/ Garble(s) PROVE IdInv'
  <2>1. UNCHANGED <<lastId, pending, orphans, inhand, pc, id>> /\ sent' \subseteq sent
    BY <1>9 DEF Eof, Garble, ReaderEnds
  <2>2. \A f \in slot' : f \in slot \/ f.what = Closed
    BY <1>9 DEF Eof, Garble, ReaderEnds, Put
  <2>3. InFlight' \subseteq InFlight
    BY <2>1, <2>2 DEF InFlight
  <2> QED BY <2>1, <2>2, <2>3, NothingNew DEF Waits
<1>10. ASSUME \/ CoolDown \/ UNCHANGED vars
              \/ \E s \in Servers : Die(s) \/ BlockReader(s) \/ Unblock(s)
       PROVE  IdInv'
  <2>1. UNCHANGED <<lastId, pending, orphans, inhand, sent, slot, pc, id>>
    BY <1>10 DEF CoolDown, vars, Die, BlockReader, Unblock
  <2>2. InFlight' = InFlight
    BY <2>1 DEF InFlight
  <2> QED BY <2>1, <2>2, NothingNew DEF Waits
<1> QED
  BY <1>1, <1>2, <1>3, <1>4, <1>5, <1>6, <1>7, <1>8, <1>9, <1>10
     DEF Next, CallStep, ReaderStep, Quiet

LEMMA IdInvariant == Spec => [](TypeOK /\ IdInv)
<1>1. Init => IdInv
  BY DEF Init, IdInv, InFlight, Named, Waits
<1> QED BY <1>1, IdStep, TypeCorrect, PTL DEF Spec

\* A waiting call finds a response in its slot only if that answers its request,
\* whatever old readers still read and however often the server was replaced.
\* (_dispatch_response, request)
THEOREM AnswersAreMatched == Spec => []AnswersMatch
<1>1. ASSUME TypeOK, IdInv PROVE AnswersMatch
  <2> SUFFICES ASSUME NEW c \in Calls, NEW f \in slot, Waits(c), f.id = id[c],
                      f.what # Closed
               PROVE  f.what.call = c
    BY DEF AnswersMatch
  <2>1. f.what \in InFlight /\ f.what.id = f.id
    BY <1>1 DEF InFlight, IdInv
  <2>2. f.what.id \in Nat /\ f.what.call \in Calls
    BY <1>1 DEF TypeOK, Responses
  <2>3. Named(f.id, f.what.call) /\ Named(f.id, c)
    BY <2>1 DEF Named
  <2> QED BY <1>1, <2>1, <2>2, <2>3 DEF IdInv
<1> QED BY <1>1, IdInvariant, PTL
-----------------------------------------------------------------------------
(* Waiting calls *)

\* Settled, or in the tables.
Reachable(c) == Settled(c) \/ [id |-> id[c], call |-> c] \in pending

WaitInv ==
    /\ \A c \in Calls : Waits(c) => Reachable(c)
    /\ Exposed => \A c \in Calls : Waits(c) => Settled(c)

\* Both survive a step that keeps settled calls settled and the registrations of
\* waiting calls, and does not make the tables ones that may be dropped.
LEMMA WaitKept ==
    ASSUME WaitInv, Exposed' => Exposed,
           \A d \in Calls : Waits(d)' =>
               /\ Waits(d)
               /\ Settled(d) => Settled(d)'
               /\ [id |-> id[d], call |-> d] \in pending => Reachable(d)'
    PROVE  WaitInv'
BY DEF WaitInv, Reachable

\* No id is lost with put_nowait, and all that it is given are full.
LEMMA PutFull ==
    ASSUME NEW ids, NEW m, slot' = Put(ids, m)
    PROVE  Full \subseteq Full' /\ ids \subseteq Full'
<1>1. slot \subseteq slot'
  BY DEF Put
<1>2. ASSUME NEW n \in ids, n \notin Full PROVE n \in Full'
  <2>1. [id |-> n, what |-> m] \in slot'
    BY <1>2 DEF Put
  <2> QED BY <2>1 DEF Full
<1>3. Full \subseteq Full'
  BY <1>1 DEF Full
<1> QED BY <1>2, <1>3

\* A slot that a call waits for outlives its table.
LEMMA ReferencedFull ==
    ASSUME NEW t, NEW d \in Calls, Waits(d), slot' = Referenced(t),
           \E f \in t : f.id = id[d]
    PROVE  id[d] \in Full'
BY DEF Referenced, Full

\* Each step leaves every waiting call told, registered, or of the two kinds.
LEMMA WaitStep ==
    ASSUME TypeOK, LockInv, StopInv, IdInv, WaitInv, [Next]_vars
    PROVE  WaitInv'
<1> USE NobodyAssumption DEF serverVars, lockVars, requestVars, tableVars, stopVars
<1>1. ASSUME NEW c \in Calls, Spawn(c) PROVE WaitInv'
  <2>1. Exposed
    BY <1>1 DEF Spawn, StopInv, Exposed
  <2>2. /\ UNCHANGED <<id, slot, early, untold>>
        /\ \A d \in Calls : Waits(d)' <=> Waits(d)
    BY <1>1, QuietSteps DEF Quiet
  <2>3. \A d \in Calls : Settled(d)' <=> Settled(d)
    BY <2>2 DEF Settled, Full
  <2> QED BY <2>1, <2>2, <2>3 DEF WaitInv, Reachable
<1>2. ASSUME NEW c \in Calls, Quiet(c), ~Spawn(c) PROVE WaitInv'
  <2>1. /\ UNCHANGED <<id, slot, pending, early, untold>>
        /\ \A d \in Calls : Waits(d)' <=> Waits(d)
    BY <1>2, QuietSteps
  <2>2. process' = process
    BY <1>2 DEF Quiet, Begin, Start, SpawnFails, Nested, Notify, NotifyFails, Halt,
       Exit, Block
  <2>3. \A k \in Calls : pc'[k] = "reset" => pc[k] = "reset"
    BY <1>2 DEF TypeOK, Quiet, Begin, Start, SpawnFails, Nested, Notify, NotifyFails,
       Halt, Exit, Block, Goto, Raise, Stopped
  <2>4. Exposed' => Exposed
    BY <2>2, <2>3 DEF Exposed
  <2> QED BY <2>1, <2>4, WaitKept DEF Reachable, Settled, Full
<1>3. ASSUME NEW c \in Calls, Reset(c) PROVE WaitInv'
  <2>1. /\ UNCHANGED <<id, early, untold>> /\ slot' = Referenced(slot)
    BY <1>3 DEF Reset
  <2>2. \A d \in Calls : Waits(d)' => Waits(d)
    BY <1>3 DEF TypeOK, Reset, Goto, Waits
  <2>3. Exposed
    BY <1>3 DEF Reset, Exposed
  <2>4. ASSUME NEW d \in Calls, Waits(d)' PROVE Settled(d)'
    <3>1. Waits(d) /\ Settled(d)
      BY <2>2, <2>3, <2>4 DEF WaitInv
    <3>2. id[d] \in Full => id[d] \in Full'
      BY <2>1, <3>1, ReferencedFull DEF Full
    <3> QED BY <2>1, <3>1, <3>2 DEF Settled
  <2> QED BY <2>4 DEF WaitInv, Reachable
<1>4. ASSUME NEW c \in Calls, Register(c) \/ Shutdown(c) PROVE WaitInv'
  <2>1. /\ Send(c) /\ process' = process /\ process # Nobody
        /\ pc'[c] # "reset" /\ \A d \in Calls \ {c} : pc'[d] = pc[d]
    BY <1>4 DEF TypeOK, Register, Shutdown, Goto, Running
  <2>2. /\ pending \subseteq pending' /\ slot \subseteq slot'
        /\ [id |-> id'[c], call |-> c] \in pending'
        /\ \A d \in Calls \ {c} :
               /\ id'[d] = id[d]
               /\ d \in early => d \in early'
               /\ d \in untold => d \in untold'
    BY <2>1 DEF Send, TypeOK
  <2>3. Full \subseteq Full'
    BY <2>2 DEF Full
  <2>4. Exposed' => Exposed /\ c \in early'
    BY <2>1 DEF Exposed, Send
  <2>5. ASSUME NEW d \in Calls \ {c}
        PROVE  /\ Waits(d)' => Waits(d)
               /\ Settled(d) => Settled(d)'
               /\ Reachable(d) => Reachable(d)'
    <3>1. Waits(d)' => Waits(d)
      BY <2>1, <2>5 DEF Waits
    <3>2. Settled(d) => Settled(d)'
      BY <2>2, <2>3, <2>5 DEF Settled
    <3> QED BY <2>2, <2>5, <3>1, <3>2 DEF Reachable
  <2>6. Reachable(c)' /\ (Exposed' => Settled(c)')
    BY <2>2, <2>4 DEF Reachable, Settled
  <2> QED BY <2>4, <2>5, <2>6 DEF WaitInv
<1>5. ASSUME NEW c \in Calls, RegisterFails(c) \/ ShutdownFails(c) PROVE WaitInv'
  <2>1. /\ UNCHANGED <<id, slot, early, untold, process>> /\ pending \subseteq pending'
    BY <1>5 DEF RegisterFails, ShutdownFails, SendFails
  <2>2. \A d \in Calls : /\ Waits(d)' => Waits(d)
                         /\ pc'[d] = "reset" => pc[d] = "reset"
    BY <1>5 DEF TypeOK, RegisterFails, ShutdownFails, StartFailed, Goto, Raise,
       Waits
  <2>3. Exposed' => Exposed
    BY <2>1, <2>2 DEF Exposed
  <2> QED BY <2>1, <2>2, <2>3, WaitKept DEF Reachable, Settled, Full
<1>6. ASSUME NEW c \in Calls, Receive(c) \/ Fail(c) \/ ShutdownEnds(c)
      PROVE  WaitInv'
  <2>1. Pop(c) /\ process' = process /\ Waits(c)
    BY <1>6 DEF Receive, Fail, ShutdownEnds, Waits
  <2>2. /\ ~Waits(c)' /\ pc'[c] # "reset"
        /\ \A d \in Calls \ {c} : pc'[d] = pc[d]
    BY <1>6 DEF TypeOK, Receive, Fail, ShutdownEnds, StartFailed, Goto, Raise, Waits
  <2>3. Exposed' => Exposed
    BY <2>1, <2>2 DEF Exposed
  <2>4. ASSUME NEW d \in Calls, Waits(d)'
        PROVE  /\ Waits(d) /\ (Settled(d) => Settled(d)')
               /\ [id |-> id[d], call |-> d] \in pending => Reachable(d)'
    <3>1. d # c /\ Waits(d) /\ id'[d] = id[d]
      BY <2>1, <2>2, <2>4 DEF Waits, Pop, TypeOK
    <3>2. id[d] # id[c]
      BY <2>1, <3>1 DEF IdInv, Named, TypeOK
    <3>3. id[d] \in Full => id[d] \in Full'
      BY <2>1, <3>2 DEF Full, Pop
    <3>4. [id |-> id[d], call |-> d] \in pending
              => [id |-> id[d], call |-> d] \in pending'
      BY <2>1, <3>2 DEF Pop
    <3>5. d \in early \cup untold => d \in early' \cup untold'
      BY <2>1, <3>1 DEF Pop
    <3> QED BY <3>1, <3>3, <3>4, <3>5 DEF Settled, Reachable
  <2> QED BY <2>3, <2>4, WaitKept
<1>7. ASSUME NEW c \in Calls, Clean(c) \/ CleanRaises(c) PROVE WaitInv'
  <2>1. id' = id /\ early' = early /\ \A d \in Calls : Waits(d)' => Waits(d)
    BY <1>7 DEF TypeOK, Clean, CleanRaises, Stopped, Goto, Raise, Waits
  <2>2. ASSUME NEW d \in Calls, Waits(d)' PROVE Settled(d)'
    <3>1. Waits(d) /\ Reachable(d)
      BY <2>1, <2>2 DEF WaitInv
    <3>2. id[d] \in Full \/ id[d] \in Registered \/ d \in early \cup untold
      BY <3>1 DEF Reachable, Settled, Registered
    <3>3. CASE Clean(c)
      <4>1. untold' = untold /\ slot' = Referenced(Put(Registered, Closed))
        BY <3>3 DEF Clean
      <4>2. ASSUME id[d] \in Full \cup Registered
            PROVE  \E f \in Put(Registered, Closed) : f.id = id[d]
        <5>1. CASE id[d] \in Full
          BY <5>1 DEF Full, Put
        <5>2. CASE id[d] \notin Full
          <6>1. [id |-> id[d], what |-> Closed] \in Put(Registered, Closed)
            BY <4>2, <5>2 DEF Put
          <6> QED BY <6>1
        <5> QED BY <5>1, <5>2
      <4>3. id[d] \in Full \cup Registered => id[d] \in Full'
        BY <3>1, <4>1, <4>2, ReferencedFull
      <4> QED BY <2>1, <3>2, <4>1, <4>3 DEF Settled
    <3>4. CASE CleanRaises(c)
      <4> DEFINE told == {n \in Registered : \A k \in Registered \cap Full : n < k}
      <4>1. /\ slot' = Put(told, Closed)
            /\ untold' = untold \cup
                   {e \in Calls : Waits(e) /\ id[e] \in Registered
                                           /\ id[e] \notin told \cup Full}
        BY <3>4 DEF CleanRaises
      <4> HIDE DEF told
      <4>2. told \subseteq Full' /\ Full \subseteq Full'
        BY <4>1, PutFull
      <4> QED BY <2>1, <3>1, <3>2, <4>1, <4>2 DEF Settled
    <3> QED BY <1>7, <3>3, <3>4
  <2> QED BY <2>2 DEF WaitInv, Reachable
<1>8. ASSUME NEW s \in Servers, Dispatch(s) \/ Eof(s) \/ Garble(s) PROVE WaitInv'
  <2>1. UNCHANGED <<process, pc, id, pending, early, untold>>
    BY <1>8 DEF Dispatch, Eof, Garble, ReaderEnds
  <2>2. slot' = slot \/ \E ids, m : slot' = Put(ids, m)
    BY <1>8 DEF Dispatch, Eof, Garble, ReaderEnds
  <2>3. Full \subseteq Full'
    BY <2>2, PutFull DEF Full
  <2> QED BY <2>1, <2>3, WaitKept DEF Exposed, Waits, Settled, Reachable
<1>9. ASSUME \/ CoolDown \/ UNCHANGED vars
             \/ \E s \in Servers : Read(s) \/ Die(s) \/ BlockReader(s) \/ Unblock(s)
      PROVE  WaitInv'
  <2>1. UNCHANGED <<process, pc, id, pending, slot, early, untold>>
    BY <1>9 DEF CoolDown, vars, Read, Die, BlockReader, Unblock
  <2> QED BY <2>1, WaitKept DEF Exposed, Waits, Settled, Reachable, Full
<1> QED
  BY <1>1, <1>2, <1>3, <1>4, <1>5, <1>6, <1>7, <1>8, <1>9
     DEF Next, CallStep, ReaderStep, Quiet

\* No waiting call is forgotten by a stop, by another call's end or by a reader.  It
\* can be left untold in two ways only: it registered while a start had still to
\* replace the tables, or a stop raised at a full slot before it came to it.
\* (stop, start, request)
THEOREM WaitersStayReachable == Spec => []WaitersAreReachable
<1>1. Init => WaitInv
  BY DEF Init, WaitInv, Waits
<1>2. WaitInv => WaitersAreReachable
  BY DEF WaitInv, Reachable, Settled, WaitersAreReachable
<1> QED BY <1>1, <1>2, WaitStep, IdInvariant, StartStopInvariant, PTL DEF Spec
=============================================================================
