----------------------------- MODULE LspClient ------------------------------
(***************************************************************************)
(* A client of an external language server, ExternalLSPClient in           *)
(* cli/lsp_external_provider.py, shared by threads that ask it, start it   *)
(* when it does not run, and stop it.                                      *)
(*                                                                         *)
(* Each request registers a slot, a queue for one message, under a fresh   *)
(* id and waits for what the reader thread of the server's stdout puts     *)
(* there, or for its timeout.  _start_lock serializes starts, which send   *)
(* the request "initialize" while they hold it; nothing serializes a stop  *)
(* with them.  What _lock guards is one action, unless its write to the    *)
(* server's stdin blocks: that has no timeout, and the lock stays taken.   *)
(* Documents and the readiness gate are not modelled.                      *)
(***************************************************************************)
EXTENDS Integers

CONSTANTS
    Calls,        \* threads, each with one call of the client at a time
    Servers,      \* slots for server processes
    Stoppers,     \* threads whose calls may be stops, and not only requests
    MaxId,        \* bound: no call begins when so many requests were made
    Faults,       \* the failures the environment may inject
    Nobody,       \* no call, no process
    Closed        \* _CLOSED_SENTINEL

FaultKinds == {"die", "slow", "stall", "garble"}

ASSUME BoundAssumption == MaxId \in Nat
ASSUME StoppersAssumption == Stoppers \subseteq Calls
ASSUME FaultAssumption == Faults \subseteq FaultKinds
ASSUME NobodyAssumption == Nobody \notin Calls \cup Servers

VARIABLES
    process,      \* self.process, or Nobody
    server,       \* each server: unused, up, or dead
    startLock,    \* the call that holds _start_lock, or Nobody
    writer,       \* who holds _lock in a write that has not ended, or Nobody
    cooling,      \* disabled_until_monotonic lies ahead
    lastId,       \* self._request_id
    pending,      \* _pending_requests: ids and the calls that registered them
    orphans,      \* _orphan_responses
    slot,         \* the messages in slots, by the id the slot was made for
    sent,         \* requests whose answer a reader may still read
    reader,       \* the reader thread of each server: off, on, or over
    inhand,       \* the response each reader has read and not dispatched
    pc,           \* where each call stands
    id,           \* the id each call waits for, or 0
    victim,       \* the process each stop is after
    failed,       \* starts whose initialize failed
    early,        \* history: calls that registered when a start had its server
                  \* and had still to replace the tables
    untold        \* history: calls a stop did not come to, for it raised

serverVars == <<server, reader, inhand>>
lockVars == <<startLock, writer>>
requestVars == <<lastId, id, sent>>
tableVars == <<pending, orphans, slot, early, untold>>
stopVars == <<victim, failed>>
vars == <<process, serverVars, lockVars, cooling, requestVars, tableVars, pc,
          stopVars>>

Responses == [id : Nat, call : Calls, server : Servers]

Running == process # Nobody /\ server[process] = "up"

TypeOK ==
    /\ process \in Servers \cup {Nobody}
    /\ server \in [Servers -> {"unused", "up", "dead"}]
    /\ startLock \in Calls \cup {Nobody} /\ cooling \in BOOLEAN
    /\ writer \in Calls \cup Servers \cup {Nobody}
    /\ lastId \in Nat
    /\ pending \subseteq [id : Nat, call : Calls]
    /\ orphans \subseteq Responses /\ sent \subseteq Responses
    /\ slot \subseteq [id : Nat, what : Responses \cup {Closed}]
    /\ reader \in [Servers -> {"off", "on", "over"}]
    /\ inhand \in [Servers -> Responses \cup {Nobody}]
    /\ pc \in [Calls -> {"idle", "await", "spawn", "reset", "nested",
                         "initialized", "notify", "register", "waiting", "halt",
                         "shutdown", "shutting", "exit", "clean", "stuck"}]
    /\ id \in [Calls -> Nat]
    /\ victim \in [Calls -> Servers \cup {Nobody}]
    /\ failed \subseteq Calls /\ early \subseteq Calls /\ untold \subseteq Calls
    /\ process # Nobody => server[process] # "unused"
    /\ startLock # Nobody => pc[startLock] \notin {"idle", "await"}
    /\ writer # Nobody => process # Nobody

Init ==
    /\ process = Nobody /\ startLock = Nobody /\ writer = Nobody
    /\ cooling = FALSE /\ lastId = 0
    /\ server = [s \in Servers |-> "unused"] /\ reader = [s \in Servers |-> "off"]
    /\ inhand = [s \in Servers |-> Nobody]
    /\ pending = {} /\ orphans = {} /\ slot = {} /\ sent = {}
    /\ failed = {} /\ early = {} /\ untold = {}
    /\ pc = [c \in Calls |-> "idle"] /\ id = [c \in Calls |-> 0]
    /\ victim = [c \in Calls |-> Nobody]

-----------------------------------------------------------------------------
(* Helpers of the actions *)

Goto(c, l) == pc' = [pc EXCEPT ![c] = l]

\* Slots of servers are used in a fixed order.
Unused == {s \in Servers : server[s] = "unused"}

\* _lock is free for one who has to write, and goes on when the write ends.
Free(k) == writer \in {Nobody, k}

Waits(c) == pc[c] \in {"waiting", "shutting"}

Registered == {x.id : x \in pending}

Full == {f.id : f \in slot}

\* put_nowait: a full slot takes nothing.
Put(ids, m) == slot \cup {[id |-> n, what |-> m] : n \in ids \ Full}

\* A slot that is in no table lives as long as a call waits for it.
Referenced(s) == {f \in s : \E c \in Calls : Waits(c) /\ id[c] = f.id}

\* Starting calls send initialize; their own request follows.
Starting(c) == startLock = c

\* Mutant: the lock is not released when a start fails.
RaiseHolding(c) ==
    /\ Goto(c, "idle")
    /\ UNCHANGED startLock

\* The call is over: _start_lock, if it holds it, is released.
Raise(c) ==
    /\ Goto(c, "idle")
    /\ startLock' = IF Starting(c) THEN Nobody ELSE startLock

\* A slot is registered and the request written, to the process of the moment.  When
\* its reader is over, nobody will read an answer.
Send(c) ==
    /\ lastId' = lastId + 1
    /\ id' = [id EXCEPT ![c] = lastId']
    /\ pending' = pending \cup {[id |-> lastId', call |-> c]}
    /\ sent' = IF reader[process] = "over" THEN sent
               ELSE sent \cup {[id |-> lastId', call |-> c, server |-> process]}
    /\ LET claimed == {m \in orphans : m.id = lastId'} IN
         /\ orphans' = orphans \ claimed
         /\ slot' = slot \cup {[id |-> lastId', what |-> m] : m \in claimed}
    /\ early' = IF \E d \in Calls : pc[d] = "reset" THEN early \cup {c}
                                                    ELSE early \ {c}
    /\ untold' = untold \ {c}
    /\ writer' = Nobody

\* The process is gone, or the write raises: that leaves the slot registered.
SendFails(c) ==
    /\ \/ /\ lastId' = lastId + 1
          /\ pending' = pending \cup {[id |-> lastId', call |-> c]}
       \/ process = Nobody /\ UNCHANGED <<lastId, pending>>
    /\ writer' = Nobody

\* The wait is over and the id is popped.
Pop(c) ==
    /\ pending' = {x \in pending : x.id # id[c]}
    /\ slot' = {f \in slot : f.id # id[c]}
    /\ id' = [id EXCEPT ![c] = 0]
    /\ early' = early \ {c} /\ untold' = untold \ {c}

-----------------------------------------------------------------------------
(* start *)

\* A request first looks for a running server, the fast path, without a lock.
Begin(c) ==
    /\ pc[c] = "idle" /\ lastId < MaxId
    /\ \/ Goto(c, IF Running THEN "register" ELSE "await")
       \/ c \in Stoppers /\ Goto(c, "halt")
    /\ UNCHANGED <<process, serverVars, lockVars, cooling, requestVars, tableVars,
                   stopVars>>

\* Mutant: check and spawn are not serialized.
StartUnlocked(c) ==
    /\ pc[c] = "await"
    /\ IF Running
       THEN Goto(c, "register") /\ UNCHANGED startLock
       ELSE /\ startLock' = c
            /\ Goto(c, IF process = Nobody THEN "spawn" ELSE "halt")
    /\ UNCHANGED <<process, serverVars, writer, cooling, requestVars, tableVars,
                   stopVars>>

\* Under _start_lock the check is repeated; a dead process is stopped first.
Start(c) ==
    /\ pc[c] = "await" /\ startLock = Nobody
    /\ IF Running
       THEN Goto(c, "register") /\ UNCHANGED startLock
       ELSE IF cooling
       THEN Raise(c)
       ELSE /\ startLock' = c
            /\ Goto(c, IF process = Nobody THEN "spawn" ELSE "halt")
    /\ UNCHANGED <<process, serverVars, writer, cooling, requestVars, tableVars,
                   stopVars>>

\* Popen ...
Spawn(c) ==
    /\ pc[c] = "spawn"
    /\ Unused # {}
    /\ process' = CHOOSE s \in Unused : TRUE
    /\ server' = [server EXCEPT ![process'] = "up"]
    /\ Goto(c, "reset")
    /\ UNCHANGED <<reader, inhand, lockVars, cooling, requestVars, tableVars,
                   stopVars>>

\* ... or no server can be started.
SpawnFails(c) ==
    /\ pc[c] = "spawn"
    /\ Raise(c)
    /\ UNCHANGED <<process, serverVars, writer, cooling, requestVars, tableVars,
                   stopVars>>

\* Mutant: the ids of the new server's requests begin again.
ResetIds(c) ==
    /\ pc[c] = "reset"
    /\ lastId' = 0
    /\ pending' = {} /\ orphans' = {} /\ slot' = Referenced(slot)
    /\ reader' = [s \in Servers |-> IF s = process THEN "on" ELSE reader[s]]
    /\ Goto(c, "nested")
    /\ UNCHANGED <<process, server, inhand, lockVars, cooling, sent, id, early,
                   untold, stopVars>>

\* The tables are replaced, without _lock, and the reader thread starts.
Reset(c) ==
    /\ pc[c] = "reset"
    /\ pending' = {} /\ orphans' = {} /\ slot' = Referenced(slot)
    /\ reader' = [s \in Servers |-> IF s = process THEN "on" ELSE reader[s]]
    /\ Goto(c, "nested")
    /\ UNCHANGED <<process, server, inhand, lockVars, cooling, requestVars, early,
                   untold, stopVars>>

\* request("initialize") and notify("initialized") call start() themselves.  When
\* the server is not running any more, they wait for the lock they hold.
Nested(c) ==
    /\ pc[c] \in {"nested", "initialized"}
    /\ Goto(c, IF ~Running THEN "stuck"
               ELSE IF pc[c] = "nested" THEN "register" ELSE "notify")
    /\ UNCHANGED <<process, serverVars, lockVars, cooling, requestVars, tableVars,
                   stopVars>>

\* The start is over once its notifications are written.
Notify(c) ==
    /\ pc[c] = "notify" /\ Running /\ Free(c)
    /\ startLock' = Nobody /\ writer' = Nobody
    /\ Goto(c, "register")
    /\ UNCHANGED <<process, serverVars, cooling, requestVars, tableVars, stopVars>>

\* The server ends before the first is written, or before start() is called for
\* the second, or before that one is written, which is ignored.
NotifyFails(c) ==
    /\ pc[c] = "notify" /\ ~Running /\ Free(c)
    /\ \/ Raise(c)
       \/ Goto(c, "stuck") /\ UNCHANGED startLock
       \/ Goto(c, "register") /\ startLock' = Nobody
    /\ writer' = Nobody
    /\ UNCHANGED <<process, serverVars, cooling, requestVars, tableVars, stopVars>>

\* The cooldown after a failed initialize ends.
CoolDown ==
    /\ cooling
    /\ cooling' = FALSE
    /\ UNCHANGED <<process, serverVars, lockVars, requestVars, tableVars, pc,
                   stopVars>>

-----------------------------------------------------------------------------
(* request *)

Register(c) ==
    /\ pc[c] = "register" /\ Running /\ Free(c)
    /\ Send(c)
    /\ Goto(c, "waiting")
    /\ UNCHANGED <<process, serverVars, startLock, cooling, stopVars>>

\* A failed start stops what it has started and begins the cooldown.
StartFailed(c) ==
    /\ cooling' = TRUE /\ failed' = failed \cup {c}
    /\ Goto(c, "halt")
    /\ UNCHANGED startLock

\* An initialize that finds no process fails the start; a write that raises is
\* another exception, which nobody on the way catches.
RegisterFails(c) ==
    /\ pc[c] = "register" /\ ~Running /\ Free(c)
    /\ SendFails(c)
    /\ IF Starting(c) /\ process = Nobody
       THEN StartFailed(c)
       ELSE Raise(c) /\ UNCHANGED <<cooling, failed>>
    /\ UNCHANGED <<process, serverVars, sent, id, orphans, slot, early, untold,
                   victim>>

\* slot.get returns a response.  A start goes on to "initialized".
Receive(c) ==
    /\ pc[c] = "waiting" /\ writer = Nobody
    /\ \E f \in slot : f.id = id[c] /\ f.what # Closed
    /\ Pop(c)
    /\ Goto(c, IF Starting(c) THEN "initialized" ELSE "idle")
    /\ UNCHANGED <<process, serverVars, lockVars, cooling, lastId, sent, orphans,
                   stopVars>>

\* The timeout, an error, or the end of the process.
Fail(c) ==
    /\ pc[c] = "waiting" /\ writer = Nobody
    /\ Pop(c)
    /\ IF Starting(c)
       THEN StartFailed(c)
       ELSE Raise(c) /\ UNCHANGED <<cooling, failed>>
    /\ UNCHANGED <<process, serverVars, writer, lastId, sent, orphans, victim>>

-----------------------------------------------------------------------------
(* stop *)

\* What follows a stop: the spawn, the error of the failed start, or nothing.
Stopped(c) ==
    /\ IF Starting(c) /\ c \notin failed
       THEN Goto(c, "spawn") /\ UNCHANGED startLock
       ELSE Raise(c)
    /\ failed' = failed \ {c}

Halt(c) ==
    /\ pc[c] = "halt"
    /\ victim' = [victim EXCEPT ![c] = process]
    /\ IF process = Nobody THEN Stopped(c)
                           ELSE Goto(c, "shutdown") /\ UNCHANGED <<startLock, failed>>
    /\ UNCHANGED <<process, serverVars, writer, cooling, requestVars, tableVars>>

\* _request_shutdown_for_stop has an id and a slot like any request.
Shutdown(c) ==
    /\ pc[c] = "shutdown" /\ Running /\ Free(c)
    /\ Send(c)
    /\ Goto(c, "shutting")
    /\ UNCHANGED <<process, serverVars, startLock, cooling, stopVars>>

ShutdownFails(c) ==
    /\ pc[c] = "shutdown" /\ ~Running /\ Free(c)
    /\ SendFails(c)
    /\ Goto(c, "exit")
    /\ UNCHANGED <<process, serverVars, startLock, cooling, sent, id, orphans, slot,
                   early, untold, stopVars>>

\* Any message will do, or the timeout.
ShutdownEnds(c) ==
    /\ pc[c] = "shutting" /\ writer = Nobody
    /\ Pop(c)
    /\ Goto(c, "exit")
    /\ UNCHANGED <<process, serverVars, lockVars, cooling, lastId, sent, orphans,
                   stopVars>>

\* exit goes to the process of the moment, as shutdown did, the signals to the
\* victim.
Exit(c) ==
    /\ pc[c] = "exit" /\ Free(c)
    /\ \E told \in SUBSET ({process} \cap Servers) :
           server' = [s \in Servers |-> IF s = victim[c] \/ s \in told THEN "dead"
                                        ELSE server[s]]
    /\ writer' = Nobody
    /\ Goto(c, "clean")
    /\ UNCHANGED <<process, reader, inhand, startLock, cooling, requestVars,
                   tableVars, stopVars>>

\* The reader is given a second to end.  What a stop forgets in any case.
Forget(c) ==
    /\ reader[victim[c]] = "on" => "slow" \in Faults
    /\ process' = IF process = victim[c] THEN Nobody ELSE process
    /\ victim' = [victim EXCEPT ![c] = Nobody]

\* Mutant: the tables are cleared and nobody is told.
CleanSilently(c) ==
    /\ pc[c] = "clean" /\ writer = Nobody /\ Registered \cap Full = {}
    /\ Forget(c)
    /\ slot' = Referenced(slot)
    /\ pending' = {} /\ orphans' = {}
    /\ Stopped(c)
    /\ UNCHANGED <<serverVars, writer, cooling, requestVars, early, untold>>

\* Every waiting call is told, and the tables are cleared.
Clean(c) ==
    /\ pc[c] = "clean" /\ writer = Nobody /\ Registered \cap Full = {}
    /\ Forget(c)
    /\ slot' = Referenced(Put(Registered, Closed))
    /\ pending' = {} /\ orphans' = {}
    /\ Stopped(c)
    /\ UNCHANGED <<serverVars, writer, cooling, requestVars, early, untold>>

\* A slot that is full already makes put_nowait raise: whoever registered later is
\* not told, the tables stay, and a start ends with this exception.
CleanRaises(c) ==
    /\ pc[c] = "clean" /\ writer = Nobody /\ Registered \cap Full # {}
    /\ Forget(c)
    /\ LET told == {n \in Registered : \A k \in Registered \cap Full : n < k} IN
         /\ slot' = Put(told, Closed)
         /\ untold' = untold \cup {d \in Calls : Waits(d) /\ id[d] \in Registered
                                                          /\ id[d] \notin told \cup Full}
    /\ Raise(c)
    /\ failed' = failed \ {c}
    /\ UNCHANGED <<serverVars, writer, cooling, requestVars, pending, orphans, early>>

-----------------------------------------------------------------------------
(* The servers and the reader threads *)

\* A response is read from stdout, also one written before the server ended.
Read(s) ==
    /\ reader[s] = "on" /\ inhand[s] = Nobody
    /\ \E m \in sent :
           /\ m.server = s
           /\ inhand' = [inhand EXCEPT ![s] = m]
           /\ sent' = sent \ {m}
    /\ UNCHANGED <<process, server, reader, lockVars, cooling, lastId, id, tableVars,
                   pc, stopVars>>

\* _dispatch_response: to the slot of its id, or to the orphans.
Dispatch(s) ==
    /\ inhand[s] # Nobody /\ writer = Nobody
    /\ LET m == inhand[s]
       IN IF m.id \in Registered
          THEN slot' = Put({m.id}, m) /\ UNCHANGED orphans
          ELSE orphans' = orphans \cup {m} /\ UNCHANGED slot
    /\ inhand' = [inhand EXCEPT ![s] = Nobody]
    /\ UNCHANGED <<process, server, reader, lockVars, cooling, requestVars, pending,
                   early, untold, pc, stopVars>>

\* _broadcast_closed: whoever waits is told, for whichever server, and the reader
\* ends.
ReaderEnds(s) ==
    /\ reader[s] = "on" /\ inhand[s] = Nobody /\ writer = Nobody
    /\ slot' = Put(Registered, Closed)
    /\ reader' = [reader EXCEPT ![s] = "over"]
    /\ sent' = {m \in sent : m.server # s}
    /\ UNCHANGED <<process, server, inhand, lockVars, cooling, lastId, id, pending,
                   orphans, early, untold, pc, stopVars>>

Eof(s) == server[s] = "dead" /\ ReaderEnds(s)

\* A message that cannot be parsed ends the reader of a server that is up.
Garble(s) == "garble" \in Faults /\ server[s] = "up" /\ ReaderEnds(s)

Die(s) ==
    /\ "die" \in Faults
    /\ server[s] = "up"
    /\ server' = [server EXCEPT ![s] = "dead"]
    /\ UNCHANGED <<process, reader, inhand, lockVars, cooling, requestVars, tableVars,
                   pc, stopVars>>

\* The server stops reading, and a write under _lock has no timeout: of a call ...
Block(c) ==
    /\ "stall" \in Faults
    /\ writer = Nobody /\ Running
    /\ pc[c] \in {"register", "notify", "shutdown", "exit"}
    /\ writer' = c
    /\ UNCHANGED <<process, serverVars, startLock, cooling, requestVars, tableVars,
                   pc, stopVars>>

\* ... or of a reader that answers a request of its server.
BlockReader(s) ==
    /\ "stall" \in Faults
    /\ writer = Nobody /\ Running
    /\ reader[s] = "on" /\ inhand[s] = Nobody
    /\ writer' = s
    /\ UNCHANGED <<process, serverVars, startLock, cooling, requestVars, tableVars,
                   pc, stopVars>>

\* The write of a reader ends, or raises.
Unblock(s) ==
    /\ writer = s
    /\ writer' = Nobody
    /\ UNCHANGED <<process, serverVars, startLock, cooling, requestVars, tableVars,
                   pc, stopVars>>

-----------------------------------------------------------------------------

CallStep(c) ==
    \/ Start(c) \/ Spawn(c) \/ SpawnFails(c) \/ Reset(c) \/ Nested(c)
    \/ Notify(c) \/ NotifyFails(c)
    \/ Register(c) \/ RegisterFails(c) \/ Receive(c) \/ Fail(c)
    \/ Halt(c) \/ Shutdown(c) \/ ShutdownFails(c) \/ ShutdownEnds(c) \/ Exit(c)
    \/ Clean(c) \/ CleanRaises(c)

ReaderStep(s) == Read(s) \/ Dispatch(s) \/ Eof(s) \/ Unblock(s)

Next ==
    \/ \E c \in Calls : Begin(c) \/ CallStep(c) \/ Block(c)
    \/ \E s \in Servers : ReaderStep(s) \/ Garble(s) \/ Die(s) \/ BlockReader(s)
    \/ CoolDown

Spec == Init /\ [][Next]_vars

\* A write ends when its server reads, which nothing ensures, or ends.
Moves == writer = Nobody \/ ~Running

\* The threads of the process run and timeouts pass.  Who waits for a lock may be
\* overtaken: threading.Lock knows no turns.
FairSpec ==
    /\ Spec
    /\ \A c \in Calls : WF_vars(Moves /\ CallStep(c))
    /\ \A s \in Servers : WF_vars(Moves /\ ReaderStep(s))

-----------------------------------------------------------------------------
(* Properties *)

\* No server is left running that the client does not know, but for those a stop
\* is about to end: two starts do not both spawn.  (round-6 r9, _start_lock)
NoServerIsOrphaned ==
    \A s \in Servers : server[s] = "up" =>
        s = process \/ \E c \in Calls : victim[c] = s

\* A slot holds a response to the request of the call that waits for it, whatever
\* old readers and earlier servers still deliver.  (audit B12)
AnswersMatch ==
    \A c \in Calls, f \in slot :
        Waits(c) /\ f.id = id[c] /\ f.what # Closed => f.what.call = c

\* No table loses a waiting call that has not been told, but for two: one that
\* registered after a start had made its server and before it replaced the tables,
\* and one that a stop did not come to, for it raised at a full slot.  (stop: "unblock
\* any callers still waiting in request()")
WaitersAreReachable ==
    \A c \in Calls : Waits(c) =>
        \/ [id |-> id[c], call |-> c] \in pending
        \/ id[c] \in Full
        \/ c \in early \cup untold

\* A thread never waits for the lock it holds itself.  (the comment on _start_lock:
\* it is "SEPARATE from _lock" lest it "re-entrant-deadlock")
NeverWaitsForItself == \A c \in Calls : pc[c] # "stuck"

\* A call that waits for _start_lock while others take it again and again.
Overtaken(c) == <>[](pc[c] = "await") /\ []<>(startLock = Nobody)

\* When writes do not block _lock for ever, every call ends, unless it is overtaken
\* or a start waits for itself.  (request, stop: every other wait has a timeout)
EveryCallEnds ==
    <>[](writer = Nobody) =>
        \A c \in Calls :
            \/ Overtaken(c)
            \/ pc[c] # "idle" ~> pc[c] = "idle" \/ \E k \in Calls : pc[k] = "stuck"
=============================================================================
