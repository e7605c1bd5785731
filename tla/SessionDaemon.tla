--------------------------- MODULE SessionDaemon ----------------------------
(***************************************************************************)
(* The life of the session daemons of one root, cli/session_daemon.py: how *)
(* clients find one through daemon.json, start one under the start lock,   *)
(* stop it, and how a daemon ends by itself.  What a daemon answers is in  *)
(* SessionStore.                                                           *)
(*                                                                         *)
(* daemon.json is the daemon it names: pid and port identify a process.  A *)
(* client reads it, then pings; whoever removes it reads, compares and     *)
(* then unlinks.  These are steps of their own, and so are the judgement   *)
(* that the start lock is stale and its unlink.                            *)
(***************************************************************************)
EXTENDS Integers, FiniteSets

CONSTANTS
    Clients,      \* slots for calls of clients, used once each
    Daemons,      \* slots for daemon processes
    Outdated,     \* daemons of another package version than the clients
    IdleLimit,    \* daemons that end when idle: the limit is positive
    UptimeLimit,  \* daemons that end after their longest uptime, likewise
    Commands,     \* the commands clients run
    Faults,       \* the failures the environment may inject
    Nobody        \* no daemon, no client

CommandNames == {"start", "autostart", "stop", "request"}
FaultKinds == {"slow", "crash", "die", "wedge"}

ASSUME NobodyAssumption == Nobody \notin Clients \cup Daemons
ASSUME DistinctAssumption == Clients \cap Daemons = {}
ASSUME OutdatedAssumption == Outdated \subseteq Daemons /\ Daemons # Outdated
ASSUME LimitAssumption == IdleLimit \cup UptimeLimit \subseteq Daemons
ASSUME CommandAssumption == Commands \subseteq CommandNames
ASSUME FaultAssumption == Faults \subseteq FaultKinds

VARIABLES
    meta,         \* the daemon daemon.json names, or Nobody
    state,        \* where each daemon stands
    startLock,    \* the client that made the start lock file, or Nobody
    lockOld,      \* the lock file is older than the stale threshold
    pc,           \* where each client stands
    cmd,          \* what it was asked to do
    target,       \* the daemon it read last in daemon.json
    waiting,      \* clients in a loop that probes until its deadline
    holding,      \* clients that have taken the start lock and not released it
    unaware,      \* history: who has not seen the daemon of daemon.json well: it
                  \* was published, or too slow to answer, since they looked
    robbed        \* history: a lock file was unlinked under a live owner

daemonVars == <<meta, state>>
lockVars == <<startLock, lockOld, holding, robbed>>
talkVars == <<cmd, target, waiting>>
vars == <<meta, state, startLock, lockOld, pc, cmd, target, waiting, holding,
          unaware, robbed>>

\* A daemon that still accepts and answers: serve_forever runs.
Serving == {"up", "condemned"}

TypeOK ==
    /\ meta \in Daemons \cup {Nobody}
    /\ state \in [Daemons -> {"none", "starting", "up", "condemned", "leaving",
                              "removing", "dead"}]
    /\ startLock \in Clients \cup {Nobody} /\ lockOld \in BOOLEAN
    /\ pc \in [Clients -> {"new", "probe", "ping", "lock", "age", "reclaim",
                           "relock", "reage", "rereclaim", "clear", "spawn",
                           "release", "ask", "inflight", "wedged", "reply",
                           "reread", "stop", "settle", "kill", "compare",
                           "unlink", "done"}]
    /\ cmd \in [Clients -> CommandNames \cup {Nobody}]
    /\ target \in [Clients -> Daemons \cup {Nobody}]
    /\ waiting \subseteq Clients /\ holding \subseteq Clients
    /\ unaware \subseteq Clients \cup Daemons
    /\ robbed \in BOOLEAN
    /\ meta # Nobody => state[meta] \notin {"none", "starting"}
    /\ startLock = Nobody => ~lockOld

\* A daemon may be running from before, of the clients' version or another.
Init ==
    /\ \/ meta \in Outdated \cup {Nobody}
       \/ meta = CHOOSE d \in Daemons \ Outdated : TRUE
    /\ state = [d \in Daemons |-> IF d = meta THEN "up" ELSE "none"]
    /\ startLock = Nobody /\ lockOld = FALSE /\ robbed = FALSE
    /\ pc = [c \in Clients |-> "new"] /\ cmd = [c \in Clients |-> Nobody]
    /\ target = [c \in Clients |-> Nobody] /\ waiting = {} /\ holding = {}
    /\ unaware = {}

-----------------------------------------------------------------------------
(* Helpers of the actions *)

Goto(c, l) == pc' = [pc EXCEPT ![c] = l]

Become(d, s) == state' = [state EXCEPT ![d] = s]

\* What is past does not matter any more.
End(c) ==
    /\ Goto(c, "done")
    /\ cmd' = [cmd EXCEPT ![c] = Nobody] /\ target' = [target EXCEPT ![c] = Nobody]
    /\ waiting' = waiting \ {c} /\ unaware' = unaware \ {c}

Inflight(d) == {c \in Clients : pc[c] \in {"inflight", "wedged"} /\ target[c] = d}

Wedged(d) == \E c \in Inflight(d) : pc[c] = "wedged"

\* A process that has not ended.
Alive(d) == state[d] \notin {"none", "dead"}

\* The daemons a ping finds, if they answer in time.
Healthy == {d \in Daemons \ Outdated : state[d] \in Serving}

\* Slots for the daemons to come, which run the clients' version; they are used in
\* a fixed order.
Unused == {d \in Daemons \ Outdated : state[d] = "none"}

\* Those who have looked and will act on what they saw.
Lookers == {c \in Clients : pc[c] \in {"ping", "lock", "age", "reclaim", "relock",
                                      "reage", "rereclaim", "clear", "unlink"}}
               \cup {d \in Daemons : state[d] = "removing"}

-----------------------------------------------------------------------------
(* A client looks for a daemon: _probe_daemon *)

Begin(c) ==
    /\ pc[c] = "new"
    /\ \E k \in Commands : cmd' = [cmd EXCEPT ![c] = k]
    /\ Goto(c, "probe")
    /\ UNCHANGED <<daemonVars, lockVars, target, waiting, unaware>>

\* daemon.json is read.
ReadMeta(c) ==
    /\ pc[c] = "probe" /\ meta # Nobody
    /\ target' = [target EXCEPT ![c] = meta]
    /\ unaware' = unaware \ {c}
    /\ Goto(c, "ping")
    /\ UNCHANGED <<daemonVars, lockVars, cmd, waiting>>

\* The daemon answers and is of the client's version.
Found(c) ==
    /\ pc[c] = "ping" /\ target[c] \in Healthy
    /\ CASE c \in holding -> Goto(c, "release") /\ UNCHANGED <<talkVars, unaware>>
         [] cmd[c] = "request" -> Goto(c, "ask") /\ UNCHANGED <<talkVars, unaware>>
         [] cmd[c] = "stop" -> Goto(c, "stop") /\ UNCHANGED <<talkVars, unaware>>
         [] OTHER -> End(c)
    /\ UNCHANGED <<daemonVars, lockVars>>

\* What a client does without a daemon: wait on, start one, see what is left to
\* stop, or answer the request itself.
Unfound(c) ==
    /\ target' = [target EXCEPT ![c] = Nobody]
    /\ Goto(c, CASE c \in waiting -> "probe"
                 [] c \notin waiting /\ cmd[c] \in {"start", "autostart"} -> "lock"
                 [] cmd[c] = "stop" -> "reread"
                 [] OTHER -> "done")
    /\ UNCHANGED <<cmd, waiting>>

NoMeta(c) ==
    /\ pc[c] = "probe" /\ meta = Nobody
    /\ Unfound(c)
    /\ unaware' = unaware \ {c}
    /\ UNCHANGED <<daemonVars, lockVars>>

\* No answer in time, or one of another version.
NoAnswer(c) ==
    /\ pc[c] = "ping"
    /\ target[c] \in Healthy => "slow" \in Faults
    /\ unaware' = IF target[c] = meta /\ meta \in Healthy THEN unaware \cup {c}
                                                    ELSE unaware
    /\ Unfound(c)
    /\ UNCHANGED <<daemonVars, lockVars>>

\* The deadline of a waiting start passes: RuntimeError.
GiveUp(c) ==
    /\ pc[c] = "probe" /\ c \in waiting
    /\ IF c \in holding THEN Goto(c, "release") /\ UNCHANGED <<talkVars, unaware>>
                        ELSE End(c)
    /\ UNCHANGED <<daemonVars, lockVars>>

-----------------------------------------------------------------------------
(* The start lock, and start_session_daemon and its nonblocking twin *)

\* Mutant: the lock file is opened without O_EXCL.
LockAnyway(c) ==
    /\ pc[c] \in {"lock", "relock"}
    /\ startLock' = c /\ lockOld' = FALSE
    /\ holding' = holding \cup {c}
    /\ Goto(c, "clear")
    /\ UNCHANGED <<daemonVars, talkVars, unaware, robbed>>

Lock(c) ==
    /\ pc[c] \in {"lock", "relock"} /\ startLock = Nobody
    /\ startLock' = c /\ lockOld' = FALSE
    /\ holding' = holding \cup {c}
    /\ Goto(c, "clear")
    /\ UNCHANGED <<daemonVars, talkVars, unaware, robbed>>

\* The lock is lost: a start waits for the daemon of the winner.
Lose(c) ==
    IF cmd[c] = "start"
    THEN /\ Goto(c, "probe")
         /\ waiting' = waiting \cup {c}
         /\ UNCHANGED <<cmd, target, unaware>>
    ELSE End(c)

LockExists(c) ==
    /\ pc[c] \in {"lock", "relock"} /\ startLock # Nobody
    /\ Goto(c, IF pc[c] = "lock" THEN "age" ELSE "reage")
    /\ UNCHANGED <<daemonVars, lockVars, talkVars, unaware>>

\* The file is recent, or gone when its age is asked for.
LockTaken(c) ==
    /\ pc[c] \in {"age", "reage"} /\ ~lockOld
    /\ Lose(c)
    /\ UNCHANGED <<daemonVars, lockVars>>

\* The file is older than the threshold ...
LockStale(c) ==
    /\ pc[c] \in {"age", "reage"} /\ lockOld
    /\ Goto(c, IF pc[c] = "age" THEN "reclaim" ELSE "rereclaim")
    /\ UNCHANGED <<daemonVars, lockVars, talkVars, unaware>>

\* ... and unlinked by path, whichever file is there by now.  The second attempt
\* does the same, with none to follow.
Reclaim(c) ==
    /\ pc[c] \in {"reclaim", "rereclaim"} /\ startLock # Nobody
    /\ robbed' = (robbed \/ startLock \in holding)
    /\ startLock' = Nobody /\ lockOld' = FALSE
    /\ IF pc[c] = "reclaim"
       THEN Goto(c, "relock") /\ UNCHANGED <<talkVars, unaware>>
       ELSE Lose(c)
    /\ UNCHANGED <<daemonVars, holding>>

\* The unlink fails: somebody else was first.
ReclaimFails(c) ==
    /\ pc[c] \in {"reclaim", "rereclaim"} /\ startLock = Nobody
    /\ Lose(c)
    /\ UNCHANGED <<daemonVars, lockVars>>

\* A lock file passes the threshold when its owner is gone, or too slow.
LockAges ==
    /\ startLock # Nobody /\ ~lockOld
    /\ startLock \in holding => "slow" \in Faults
    /\ lockOld' = TRUE
    /\ UNCHANGED <<daemonVars, startLock, holding, robbed, pc, talkVars, unaware>>

\* _spawn_daemon_subprocess first removes daemon.json, whatever it names ...
Clear(c) ==
    /\ pc[c] = "clear"
    /\ meta' = Nobody
    /\ Goto(c, "spawn")
    /\ UNCHANGED <<state, lockVars, talkVars, unaware>>

\* ... then creates the process.  Only a blocking start waits for it.
Spawn(c) ==
    /\ pc[c] = "spawn"
    /\ Unused # {} /\ Become(CHOOSE d \in Unused : TRUE, "starting")
    /\ IF cmd[c] = "start" THEN Goto(c, "probe") /\ waiting' = waiting \cup {c}
                           ELSE Goto(c, "release") /\ UNCHANGED waiting
    /\ UNCHANGED <<meta, lockVars, cmd, target, unaware>>

\* The lock file is unlinked by path.
Release(c) ==
    /\ pc[c] = "release"
    /\ robbed' = (robbed \/ startLock \in holding \ {c})
    /\ startLock' = Nobody /\ lockOld' = FALSE
    /\ holding' = holding \ {c}
    /\ End(c)
    /\ UNCHANGED daemonVars

\* The starting process dies.
Crash(c) ==
    /\ "crash" \in Faults
    /\ c \in holding
    /\ holding' = holding \ {c}
    /\ End(c)
    /\ UNCHANGED <<daemonVars, startLock, lockOld, robbed>>

-----------------------------------------------------------------------------
(* stop_session_daemon *)

\* The probe failed: daemon.json is read once more, to find a pid.
Reread(c) ==
    /\ pc[c] = "reread"
    /\ IF meta = Nobody
       THEN End(c)
       ELSE /\ target' = [target EXCEPT ![c] = meta]
            /\ Goto(c, "kill")
            /\ UNCHANGED <<cmd, waiting, unaware>>
    /\ UNCHANGED <<daemonVars, lockVars>>

\* The daemon that answered is told to stop, if it still listens.
AskToStop(c) ==
    /\ pc[c] = "stop"
    /\ IF state[target[c]] = "up" THEN Become(target[c], "condemned")
                                  ELSE UNCHANGED state
    /\ Goto(c, "settle")
    /\ UNCHANGED <<meta, lockVars, talkVars, unaware>>

\* The request to stop gets no answer.
StopUnanswered(c) ==
    /\ "slow" \in Faults
    /\ pc[c] = "stop"
    /\ Goto(c, "settle")
    /\ UNCHANGED <<daemonVars, lockVars, talkVars, unaware>>

\* A probe finds nothing, or the deadline passes and the pid is killed.
Settle(c) ==
    /\ pc[c] = "settle"
    /\ \/ /\ meta \in Healthy => "slow" \in Faults
          /\ Goto(c, "compare")
       \/ meta \in Healthy /\ Goto(c, "kill")
    /\ UNCHANGED <<daemonVars, lockVars, talkVars, unaware>>

\* SIGTERM, if the pid can be shown to be a daemon.
Kill(c) ==
    /\ pc[c] = "kill"
    /\ \/ Alive(target[c]) /\ Become(target[c], "dead")
       \/ UNCHANGED state
    /\ Goto(c, "compare")
    /\ UNCHANGED <<meta, lockVars, talkVars, unaware>>

\* _remove_daemon_metadata: daemon.json still names the target ...
Compare(c) ==
    /\ pc[c] = "compare"
    /\ IF meta = target[c]
       THEN /\ Goto(c, "unlink")
            /\ unaware' = unaware \ {c}
            /\ UNCHANGED talkVars
       ELSE End(c)
    /\ UNCHANGED <<daemonVars, lockVars>>

\* ... when it was read.
Unlink(c) ==
    /\ pc[c] = "unlink"
    /\ meta' = Nobody
    /\ End(c)
    /\ UNCHANGED <<state, lockVars>>

-----------------------------------------------------------------------------
(* A request *)

\* The daemon accepts the connection and counts it in inflight_requests, or the
\* connection is refused.
Ask(c) ==
    /\ pc[c] = "ask"
    /\ IF state[target[c]] \in Serving
       THEN Goto(c, "inflight") /\ UNCHANGED <<talkVars, unaware>>
       ELSE End(c)
    /\ UNCHANGED <<daemonVars, lockVars>>

\* The request never ends.
Wedge(c) ==
    /\ "wedge" \in Faults
    /\ pc[c] = "inflight" /\ Alive(target[c])
    /\ Goto(c, "wedged")
    /\ UNCHANGED <<daemonVars, lockVars, talkVars, unaware>>

\* The count goes back before the answer is written.
Finish(c) ==
    /\ pc[c] = "inflight" /\ Alive(target[c])
    /\ Goto(c, "reply")
    /\ UNCHANGED <<daemonVars, lockVars, talkVars, unaware>>

Reply(c) ==
    /\ pc[c] = "reply" /\ Alive(target[c])
    /\ End(c)
    /\ UNCHANGED <<daemonVars, lockVars>>

\* The process ended under the request: its handler threads are daemon threads.
Reset(c) ==
    /\ pc[c] \in {"inflight", "wedged", "reply"} /\ ~Alive(target[c])
    /\ End(c)
    /\ UNCHANGED <<daemonVars, lockVars>>

-----------------------------------------------------------------------------
(* run_session_daemon_server *)

\* Mutant: daemon.json is written before the socket listens.
PublishFirst(d) ==
    /\ state[d] = "starting"
    /\ meta' = d
    /\ unaware' = Lookers
    /\ UNCHANGED <<state, lockVars, pc, talkVars>>

\* daemon.json is replaced by the new daemon's, and it serves.
Publish(d) ==
    /\ state[d] = "starting"
    /\ meta' = d
    /\ Become(d, "up")
    /\ unaware' = Lookers
    /\ UNCHANGED <<lockVars, pc, talkVars>>

\* The process dies, before it serves or later.
Die(d) ==
    /\ "die" \in Faults
    /\ state[d] \in {"starting", "up"}
    /\ Become(d, "dead")
    /\ UNCHANGED <<meta, lockVars, pc, talkVars, unaware>>

\* Mutant: the monitor spares a daemon that daemon.json does not name.
CondemnKnown(d) ==
    /\ state[d] = "up" /\ meta = d
    /\ \/ d \in IdleLimit /\ Inflight(d) = {}
       \/ d \in UptimeLimit
    /\ Become(d, "condemned")
    /\ UNCHANGED <<meta, lockVars, pc, talkVars, unaware>>

\* The lifecycle monitor: idle with nothing in flight, or past its uptime, with or
\* without: the drain grace bounds the wait.  With neither limit it returns at once.
Condemn(d) ==
    /\ state[d] = "up"
    /\ \/ d \in IdleLimit /\ Inflight(d) = {}
       \/ d \in UptimeLimit
    /\ Become(d, "condemned")
    /\ UNCHANGED <<meta, lockVars, pc, talkVars, unaware>>

\* server.shutdown: the loop ends and nobody is accepted any more.
Leave(d) ==
    /\ state[d] = "condemned"
    /\ Become(d, "leaving")
    /\ UNCHANGED <<meta, lockVars, pc, talkVars, unaware>>

\* Mutant: daemon.json is removed without a look at whom it names.
CompareNothing(d) ==
    /\ state[d] = "leaving"
    /\ Become(d, "removing")
    /\ unaware' = unaware \ {d}
    /\ UNCHANGED <<meta, lockVars, pc, talkVars>>

\* daemon.json names this daemon, or there is nothing to remove.
CompareOwn(d) ==
    /\ state[d] = "leaving"
    /\ Become(d, IF meta = d THEN "removing" ELSE "dead")
    /\ unaware' = unaware \ {d}
    /\ UNCHANGED <<meta, lockVars, pc, talkVars>>

RemoveOwn(d) ==
    /\ state[d] = "removing"
    /\ meta' = Nobody
    /\ Become(d, "dead")
    /\ unaware' = unaware \ {d}
    /\ UNCHANGED <<lockVars, pc, talkVars>>

-----------------------------------------------------------------------------

\* The handler threads of a request, and what its client does then.
Handle(c) == Finish(c) \/ Reply(c) \/ Reset(c)

ClientStep(c) ==
    \/ Begin(c) \/ ReadMeta(c) \/ Found(c) \/ NoMeta(c) \/ NoAnswer(c) \/ GiveUp(c)
    \/ Lock(c) \/ LockExists(c) \/ LockTaken(c) \/ LockStale(c)
    \/ Reclaim(c) \/ ReclaimFails(c) \/ Clear(c) \/ Spawn(c) \/ Release(c) \/ Crash(c)
    \/ Reread(c) \/ AskToStop(c) \/ StopUnanswered(c) \/ Settle(c) \/ Kill(c)
    \/ Compare(c) \/ Unlink(c) \/ Ask(c) \/ Wedge(c) \/ Handle(c)

\* What a daemon does once it serves.
Lifecycle(d) == Condemn(d) \/ Leave(d) \/ CompareOwn(d) \/ RemoveOwn(d)

DaemonStep(d) == Publish(d) \/ Die(d) \/ Lifecycle(d)

Next ==
    \/ \E c \in Clients : ClientStep(c)
    \/ \E d \in Daemons : DaemonStep(d)
    \/ LockAges

Spec == Init /\ [][Next]_vars

\* The threads of a daemon run: its monitor polls, its handlers go on unless wedged.
FairSpec ==
    /\ Spec
    /\ \A d \in Daemons : WF_vars(Lifecycle(d))
    /\ \A c \in Clients : WF_vars(Handle(c))

-----------------------------------------------------------------------------
(* Properties *)

\* At most one client clears and spawns at a time, until a lock file is unlinked
\* under a live owner: reclaimed from a slow one, or by the second of two that
\* found a dead one stale, or released by one who had lost it.
\* (_try_acquire_daemon_start_lock, _release_daemon_start_lock)
ExclusiveUntilRobbed == robbed \/ Cardinality(holding) =< 1

Moves(a) == IF a \in Clients THEN pc'[a] # pc[a] ELSE state'[a] # state[a]

\* A daemon that serves and has published itself stays known until a newer one
\* publishes, or somebody removes daemon.json who meant to stop it, or who looked
\* before it published, or whose ping it did not answer in time: a guarded
\* removal never orphans a replacement that was there to be seen (#143a).
HealthyMetadataIsKept ==
    [][\A d \in Daemons \ Outdated :
           meta = d /\ meta' = Nobody /\ state[d] = "up" =>
               \E a \in Clients \cup Daemons :
                   /\ Moves(a)
                   /\ \/ a \in unaware
                      \/ a \in Clients /\ cmd[a] = "stop" /\ target[a] = d]_vars

\* A daemon nobody can find any more ends by itself, though no client helps it to:
\* unless it was started without limits, or without the one on its uptime and a
\* request to it never ends.  (the docstring of
\* maybe_autostart_session_daemon_nonblocking: "self-reaps")
EveryOrphanEnds ==
    \A d \in Daemons :
        state[d] = "up" /\ meta # d ~>
            \/ state[d] = "dead"
            \/ d \notin IdleLimit \cup UptimeLimit
            \/ d \notin UptimeLimit /\ Wedged(d)
=============================================================================
