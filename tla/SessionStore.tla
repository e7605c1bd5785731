---------------------------- MODULE SessionStore ----------------------------
(***************************************************************************)
(* Sessions of one project root: cli/session_store.py and the part of      *)
(* cli/session_daemon.py that serves requests from them.  A session is a   *)
(* repository map with a snapshot of the files it was made from, kept in a *)
(* file of its own and listed in an index.  A request is answered from the *)
(* map when the snapshot still agrees with the files.                      *)
(*                                                                         *)
(* A call is one open, one refresh, one removal of an implicit session or  *)
(* one request to the daemon; a session is named by the call that opened   *)
(* it.  Parsing and the snapshot of the parsed files are separate steps,   *)
(* and so are the write of a payload, the change of the daemon's cache,    *)
(* the unlinks of a prune and the write of the index.                      *)
(***************************************************************************)
EXTENDS Integers, FiniteSets

CONSTANTS
    Calls,        \* slots for calls, used once each
    Files,        \* files of the root a map may contain
    SessionMax,   \* _configured_session_max()
    MaxEdits,     \* bound: how often files change
    Commands,     \* the commands that are run
    Faults,       \* the failures the environment may inject
    None          \* no payload, no call

CommandNames == {"open", "refresh", "evict", "serve"}
FaultKinds == {"lock", "crash", "unlink", "deadline"}

ASSUME SessionMaxAssumption == SessionMax \in Nat \ {0}
ASSUME MaxEditsAssumption == MaxEdits \in Nat \ {0}
ASSUME FiniteAssumption == IsFiniteSet(Calls)
ASSUME NoneAssumption == None \notin Calls
ASSUME CommandAssumption == Commands \subseteq CommandNames
ASSUME FaultAssumption == Faults \subseteq FaultKinds

VARIABLES
    tree,         \* the revision of each file, 0 when there is no such file
    edits,        \* the number of changes to the tree: revisions are new
    payload,      \* the payload file of each session, or None
    index,        \* the sessions listed in index.json
    cache,        \* the daemon's cached payload of each session, or None
    lock,         \* the call in the locked section, or None
    pc,           \* where each call stands
    req,          \* what each call asks for
    retried,      \* the requests that have refreshed their session
    have,         \* the payload a call has in memory
    changed,      \* the changeset of a refresh
    todo,         \* payload files a call has yet to unlink
    stamp,        \* created_at of the session a call has opened
    moved,        \* history: files changed since the call looked at them
    listed,       \* history: sessions that have been in the index
    evicted,      \* history: implicit sessions whose payload the daemon removed
    stranded      \* history: payload files a failure left without a record

treeVars == <<tree, edits>>
indexVars == <<index, lock, todo, listed, evicted, stranded>>
workVars == <<have, changed, moved>>
vars == <<tree, edits, payload, index, cache, lock, pc, req, retried, have,
          changed, todo, stamp, moved, listed, evicted, stranded>>

Open == [cmd |-> "open"]
Refreshes == [cmd : {"refresh"}, session : Calls]
Evictions == [cmd : {"evict"}, session : Calls]
Serves == [cmd : {"serve"}, session : Calls, onStale : BOOLEAN]
Requests == {Open} \cup Refreshes \cup Evictions \cup Serves

Revisions == 0..MaxEdits + 1

\* paths is related_paths, map the revision of each file that was parsed.
\* torn is history: the files the map may be wrong about, for the deadline left
\* them out, or they changed after they were looked at and before the snapshot.
Payloads == [paths : SUBSET Files, map : [Files -> Revisions],
             snap : [Files -> Revisions], torn : SUBSET Files]

ASSUME PayloadAssumption == None \notin Payloads

Nothing == [f \in Files |-> 0]

NoMap == [paths |-> {}, map |-> Nothing, snap |-> Nothing, torn |-> {}]

TypeOK ==
    /\ tree \in [Files -> Revisions] /\ edits \in 0..MaxEdits
    /\ \A c \in Calls : {payload[c], cache[c], have[c]} \subseteq Payloads \cup {None}
    /\ index \subseteq Calls /\ lock \in Calls \cup {None}
    /\ pc \in [Calls -> {"new", "load", "read", "fill", "check", "refresh",
                         "parse", "write", "put", "lock", "prune", "served",
                         "done"}]
    /\ \A c \in Calls : req[c] \in Requests \cup {None}
    /\ retried \subseteq Calls
    /\ todo \in [Calls -> SUBSET Calls]
    /\ \A c \in Calls : lock = c <=> pc[c] = "prune"
    /\ stamp \in [Calls -> 0..Cardinality(Calls)]
    /\ changed \in [Calls -> SUBSET Files] /\ moved \in [Calls -> SUBSET Files]
    /\ listed \subseteq Calls /\ evicted \subseteq Calls
    /\ stranded \subseteq Calls

Init ==
    /\ tree \in [Files -> {0, 1}] /\ edits = 0
    /\ payload = [s \in Calls |-> None] /\ cache = [s \in Calls |-> None]
    /\ index = {} /\ lock = None
    /\ pc = [c \in Calls |-> "new"] /\ req = [c \in Calls |-> None]
    /\ retried = {}
    /\ have = [c \in Calls |-> None] /\ todo = [c \in Calls |-> {}]
    /\ stamp = [c \in Calls |-> 0] /\ moved = [c \in Calls |-> {}]
    /\ changed = [c \in Calls |-> {}]
    /\ listed = {} /\ evicted = {} /\ stranded = {}

-----------------------------------------------------------------------------
(* Helpers of the actions *)

Goto(c, l) == pc' = [pc EXCEPT ![c] = l]

\* What a call that is over knew does not matter any more.
End(c, l) ==
    /\ Goto(c, l)
    /\ have' = [have EXCEPT ![c] = None]
    /\ changed' = [changed EXCEPT ![c] = {}]
    /\ moved' = [moved EXCEPT ![c] = {}]
    /\ req' = [req EXCEPT ![c] = None]
    /\ retried' = retried \ {c}

\* The session a call is about.
Session(c) == IF req[c].cmd = "open" THEN c ELSE req[c].session

Serving(c) == req[c].cmd = "serve"

Present == {f \in Files : tree[f] # 0}

Tracked(p) == {f \in Files : p.snap[f] # 0}

\* _stale_changeset: tracked files modified or removed, and on request those
\* that were added.
Changes(p, added) ==
    {f \in Tracked(p) : tree[f] # p.snap[f]}
        \cup (IF added THEN Present \ Tracked(p) ELSE {})

\* _ensure_session_not_stale: an empty snapshot has no changeset.
IsStale(p, added) == Tracked(p) # {} /\ Changes(p, added) # {}

\* The files the incremental builder parses again: those of the changeset and
\* those the previous map did not list.
Due(p, changes) == (changes \cup (Present \ p.paths)) \cap Present

\* build_repo_map_incremental: files that are not due, or that the deadline
\* left out, keep what the previous map says.  build_repo_map is the case of
\* an empty previous map.
Built(p, due, left) ==
    LET parsed == due \ left IN
    [paths |-> Present,
     map |-> [f \in Files |-> IF f \in parsed THEN tree[f]
                              ELSE IF f \in Present THEN p.map[f] ELSE 0],
     snap |-> Nothing,
     torn |-> ((p.torn \cap Present) \ parsed) \cup left]

\* Mutant: the tree is walked again for the snapshot.
SnapshotOfTree(p, since) ==
    [p EXCEPT !.snap = tree, !.torn = @ \cup (since \cap p.paths)]

\* _capture_snapshot: the files of the map that can be found now.
Snapshotted(p, since) ==
    [p EXCEPT !.snap = [f \in Files |-> IF f \in p.paths THEN tree[f] ELSE 0],
              !.torn = @ \cup (since \cap p.paths)]

NewestOf(sessions) ==
    {s \in sessions : Cardinality({e \in sessions : stamp[e] > stamp[s]})
                          < SessionMax}

\* Mutant: retention by position in an index whose head is the new session.
RetainedByPosition(c) ==
    IF req[c].cmd = "open"
    THEN {c} \cup (index \ {s \in index : Cardinality(index) >= SessionMax
                                /\ \A e \in index : stamp[e] =< stamp[s]})
    ELSE index \ {Session(c)}

\* The index the locked section of an open or a removal ends with.
Retained(c) ==
    IF req[c].cmd = "open" THEN NewestOf(index \cup {c}) ELSE index \ {Session(c)}

\* Mutant: a prune trims the index and leaves the payloads of what it drops.
DoomedAlone(c) == {Session(c)} \ Retained(c)

\* Mutant: a prune also removes the payload of the oldest session it retains.
DoomedAndOldest(c) ==
    LET gone == (index \cup {c}) \ Retained(c) IN
    IF gone = {} \/ req[c].cmd # "open" THEN {Session(c)} \ Retained(c)
    ELSE gone \cup {s \in Retained(c) :
                        \A e \in Retained(c) : stamp[e] >= stamp[s]}

\* The payload files that go before the index is written.
Doomed(c) == (index \cup {Session(c)}) \ Retained(c)

-----------------------------------------------------------------------------
(* The files *)

\* Somebody creates, edits or removes a file.
Change(f) ==
    /\ edits < MaxEdits
    /\ edits' = edits + 1
    /\ \E rev \in {0, edits + 2} :
         /\ rev # tree[f]
         /\ tree' = [tree EXCEPT ![f] = rev]
    /\ moved' = [c \in Calls |-> IF pc[c] \in {"parse", "write"}
                                 THEN moved[c] \cup {f} ELSE moved[c]]
    /\ UNCHANGED <<payload, indexVars, cache, pc, req, retried, have, changed,
                   stamp>>

-----------------------------------------------------------------------------
(* open_session *)

\* The map is built.
OpenBuild(c) ==
    /\ pc[c] = "new" /\ "open" \in Commands
    /\ req' = [req EXCEPT ![c] = Open]
    /\ have' = [have EXCEPT ![c] = Built(NoMap, Present, {})]
    /\ Goto(c, "write")
    /\ UNCHANGED <<treeVars, payload, indexVars, cache, retried, changed, stamp,
                   moved>>

\* created_at is taken, then the snapshot, and the payload is written.
OpenWrite(c) ==
    /\ pc[c] = "write" /\ req[c].cmd = "open"
    /\ stamp' = [stamp EXCEPT ![c] =
                     Cardinality({d \in Calls : stamp[d] > 0}) + 1]
    /\ payload' = [payload EXCEPT ![c] = Snapshotted(have[c], moved[c])]
    /\ have' = [have EXCEPT ![c] = None]
    /\ moved' = [moved EXCEPT ![c] = {}]
    /\ Goto(c, "lock")
    /\ UNCHANGED <<treeVars, indexVars, cache, req, retried, changed>>

\* Mutant: without index_lock.
EnterUnlocked(c) ==
    /\ pc[c] = "lock" /\ req[c].cmd \in {"open", "evict"}
    /\ lock' = c
    /\ todo' = [todo EXCEPT ![c] = Doomed(c)]
    /\ Goto(c, "prune")
    /\ UNCHANGED <<treeVars, payload, index, listed, evicted, stranded, cache,
                   req, retried, workVars, stamp>>

\* The lock is taken by an open, or to remove an implicit session the daemon
\* has no room for, and it is settled which payloads go.
Enter(c) ==
    /\ pc[c] = "lock" /\ req[c].cmd \in {"open", "evict"} /\ lock = None
    /\ lock' = c
    /\ todo' = [todo EXCEPT ![c] = Doomed(c)]
    /\ Goto(c, "prune")
    /\ UNCHANGED <<treeVars, payload, index, listed, evicted, stranded, cache,
                   req, retried, workVars, stamp>>

\* A payload is unlinked ...
Unlink(c) ==
    /\ pc[c] = "prune"
    /\ \E s \in todo[c] :
         /\ payload' = [payload EXCEPT ![s] = None]
         /\ todo' = [todo EXCEPT ![c] = @ \ {s}]
         /\ evicted' = IF req[c].cmd = "evict" THEN evicted \cup {s} ELSE evicted
         /\ stranded' = stranded \ {s}
    /\ UNCHANGED <<treeVars, index, lock, listed, cache, pc, req, retried,
                   workVars, stamp>>

\* ... or stays: a prune swallows the OSError of an unlink and goes on ...
UnlinkFails(c) ==
    /\ "unlink" \in Faults
    /\ pc[c] = "prune" /\ req[c].cmd = "open"
    /\ \E s \in todo[c] :
         /\ todo' = [todo EXCEPT ![c] = @ \ {s}]
         /\ stranded' = stranded \cup {s}
    /\ UNCHANGED <<treeVars, payload, index, lock, listed, evicted, cache, pc,
                   req, retried, workVars, stamp>>

\* ... and the removal of an implicit session ends there, its record listed.
RemovalFails(c) ==
    /\ "unlink" \in Faults
    /\ pc[c] = "prune" /\ req[c].cmd = "evict" /\ todo[c] # {}
    /\ todo' = [todo EXCEPT ![c] = {}]
    /\ lock' = None
    /\ End(c, "done")
    /\ UNCHANGED <<treeVars, payload, index, listed, evicted, stranded, cache,
                   stamp>>

\* The index is written and the lock released.
WriteIndex(c) ==
    /\ pc[c] = "prune" /\ todo[c] = {}
    /\ index' = Retained(c)
    /\ listed' = IF req[c].cmd = "open" THEN listed \cup {c} ELSE listed
    /\ lock' = None
    /\ End(c, "done")
    /\ UNCHANGED <<treeVars, payload, todo, evicted, stranded, cache, stamp>>

\* The payload an open or a refresh that gives up has written stays behind.
Left(c) == IF req[c].cmd = "evict" THEN {} ELSE {Session(c)}

\* IndexLockTimeoutError; a removal is given up in silence.
LockFails(c) ==
    /\ "lock" \in Faults
    /\ pc[c] = "lock"
    /\ stranded' = stranded \cup Left(c)
    /\ End(c, "done")
    /\ UNCHANGED <<treeVars, payload, index, lock, todo, listed, evicted, cache,
                   stamp>>

\* A call ends half way: its process dies and its lock goes stale and is
\* reclaimed, or a write of its own raises.  Of the daemon's calls only the
\* removals can: its requests and its cache would be over together.
Crash(c) ==
    /\ "crash" \in Faults
    /\ pc[c] \in {"parse", "write", "lock", "prune"} /\ ~Serving(c)
    /\ lock' = IF lock = c THEN None ELSE lock
    /\ todo' = [todo EXCEPT ![c] = {}]
    /\ stranded' = IF pc[c] \in {"lock", "prune"} THEN stranded \cup Left(c)
                   ELSE stranded
    /\ End(c, "done")
    /\ UNCHANGED <<treeVars, payload, index, listed, evicted, cache, stamp>>

-----------------------------------------------------------------------------
(* refresh_session *)

\* A call that names a session somebody has seen listed.
Begin(c) ==
    /\ pc[c] = "new"
    /\ \E r \in Refreshes \cup Evictions \cup Serves :
         /\ r.cmd \in Commands /\ r.session \in listed
         /\ req' = [req EXCEPT ![c] = r]
         /\ Goto(c, CASE r.cmd = "refresh" -> "refresh"
                      [] r.cmd = "evict" -> "lock"
                      [] OTHER -> "load")
    /\ UNCHANGED <<treeVars, payload, indexVars, cache, retried, workVars, stamp>>

\* get_session and _stale_changeset, with the added files.
RefreshRead(c) ==
    /\ pc[c] = "refresh"
    /\ payload[Session(c)] # None
    /\ have' = [have EXCEPT ![c] = payload[Session(c)]]
    /\ changed' = [changed EXCEPT ![c] = Changes(payload[Session(c)], TRUE)]
    /\ Goto(c, "parse")
    /\ UNCHANGED <<treeVars, payload, indexVars, cache, req, retried, stamp, moved>>

\* FileNotFoundError: the session is gone.
RefreshMissing(c) ==
    /\ pc[c] = "refresh"
    /\ payload[Session(c)] = None
    /\ End(c, "done")
    /\ UNCHANGED <<treeVars, payload, indexVars, cache, stamp>>

\* The map is brought up to date; only the daemon sets a deadline.
Parse(c) ==
    /\ pc[c] = "parse"
    /\ LET due == Due(have[c], changed[c]) IN
         \E left \in SUBSET due :
           /\ left = {} \/ ("deadline" \in Faults /\ Serving(c))
           /\ have' = [have EXCEPT ![c] = Built(have[c], due, left)]
           /\ moved' = [moved EXCEPT ![c] = @ \ due]
    /\ changed' = [changed EXCEPT ![c] = {}]
    /\ Goto(c, "write")
    /\ UNCHANGED <<treeVars, payload, indexVars, cache, req, retried, stamp>>

\* The snapshot is taken and the payload replaced.
RefreshWrite(c) ==
    /\ pc[c] = "write" /\ req[c].cmd # "open"
    /\ LET p == Snapshotted(have[c], moved[c]) IN
         /\ payload' = [payload EXCEPT ![Session(c)] = p]
         /\ have' = [have EXCEPT ![c] = IF Serving(c) THEN p ELSE None]
    /\ moved' = [moved EXCEPT ![c] = {}]
    /\ Goto(c, IF Serving(c) THEN "put" ELSE "lock")
    /\ UNCHANGED <<treeVars, indexVars, cache, req, retried, changed, stamp>>

\* In the daemon, payload_cache gets it as well.
RefreshPut(c) ==
    /\ pc[c] = "put"
    /\ cache' = [cache EXCEPT ![Session(c)] = have[c]]
    /\ have' = [have EXCEPT ![c] = None]
    /\ Goto(c, "lock")
    /\ UNCHANGED <<treeVars, payload, indexVars, req, retried, changed, stamp,
                   moved>>

\* The record is replaced, or inserted without a prune when it is not there.
RefreshList(c) ==
    /\ pc[c] = "lock" /\ req[c].cmd \in {"refresh", "serve"} /\ lock = None
    /\ LET s == Session(c) IN
         /\ index' = index \cup {s}
         /\ stranded' = stranded \ {s}
    /\ IF Serving(c)
       THEN Goto(c, "load") /\ UNCHANGED <<req, retried, workVars>>
       ELSE End(c, "done")
    /\ UNCHANGED <<treeVars, payload, lock, todo, listed, evicted, cache, stamp>>

-----------------------------------------------------------------------------
(* The daemon serves a request *)

\* _SessionServeCache.load_with_status: a hit ...
LoadHit(c) ==
    /\ pc[c] = "load" /\ cache[Session(c)] # None
    /\ have' = [have EXCEPT ![c] = cache[Session(c)]]
    /\ Goto(c, "check")
    /\ UNCHANGED <<treeVars, payload, indexVars, cache, req, retried, changed, stamp,
                   moved>>

\* ... or a miss, after which the payload file is read without the cache's lock ...
LoadMiss(c) ==
    /\ pc[c] = "load" /\ cache[Session(c)] = None
    /\ Goto(c, "read")
    /\ UNCHANGED <<treeVars, payload, indexVars, cache, req, retried, workVars,
                   stamp>>

Read(c) ==
    /\ pc[c] = "read" /\ payload[Session(c)] # None
    /\ have' = [have EXCEPT ![c] = payload[Session(c)]]
    /\ Goto(c, "fill")
    /\ UNCHANGED <<treeVars, payload, indexVars, cache, req, retried, changed, stamp,
                   moved>>

\* ... and put over whatever is in the cache by then.
Fill(c) ==
    /\ pc[c] = "fill"
    /\ cache' = [cache EXCEPT ![Session(c)] = have[c]]
    /\ Goto(c, "check")
    /\ UNCHANGED <<treeVars, payload, indexVars, req, retried, workVars, stamp>>

\* An entry of another root takes the last place of the cache.
Displace(s) ==
    /\ cache[s] # None
    /\ cache' = [cache EXCEPT ![s] = None]
    /\ UNCHANGED <<treeVars, payload, indexVars, pc, req, retried, workVars, stamp>>

\* A request that fails refreshes the session once, if it asked for it.
Retry(c) ==
    IF req[c].onStale /\ c \notin retried
    THEN /\ Goto(c, "refresh")
         /\ retried' = retried \cup {c}
         /\ have' = [have EXCEPT ![c] = None]
         /\ UNCHANGED <<req, changed, moved>>
    ELSE End(c, "done")

\* The lookup is given up.
Missing(c) ==
    /\ pc[c] = "read" /\ payload[Session(c)] = None
    /\ Retry(c)
    /\ UNCHANGED <<treeVars, payload, indexVars, cache, stamp>>

\* SessionStaleError.
Stale(c) ==
    /\ pc[c] = "check" /\ IsStale(have[c], req[c].onStale)
    /\ Retry(c)
    /\ UNCHANGED <<treeVars, payload, indexVars, cache, stamp>>

\* The request is answered from the map.
Answer(c) ==
    /\ pc[c] = "check" /\ ~IsStale(have[c], req[c].onStale)
    /\ End(c, "served")
    /\ UNCHANGED <<treeVars, payload, indexVars, cache, stamp>>

-----------------------------------------------------------------------------

CallStep(c) ==
    \/ OpenBuild(c) \/ OpenWrite(c) \/ Begin(c) \/ LockFails(c) \/ Crash(c)
    \/ Enter(c) \/ Unlink(c) \/ UnlinkFails(c) \/ RemovalFails(c)
    \/ WriteIndex(c)
    \/ RefreshRead(c) \/ RefreshMissing(c) \/ Parse(c) \/ RefreshWrite(c)
    \/ RefreshPut(c) \/ RefreshList(c)
    \/ LoadHit(c) \/ LoadMiss(c) \/ Read(c) \/ Fill(c)
    \/ Missing(c) \/ Stale(c) \/ Answer(c)

Next ==
    \/ \E c \in Calls : CallStep(c)
    \/ \E f \in Files : Change(f)
    \/ \E s \in Calls : Displace(s)

Spec == Init /\ [][Next]_vars

-----------------------------------------------------------------------------
(* Properties *)

Newer(s) == {e \in Calls : stamp[e] > stamp[s]}

\* A payload file is removed only with an implicit session, or when there are
\* SessionMax newer sessions: a session in use is not lost to a race.
\* (_prune_session_records, _remove_implicit_session_payload)
PayloadsLeaveOnlyWhenDue ==
    \A s \in listed :
        payload[s] = None => s \in evicted \/ Cardinality(Newer(s)) >= SessionMax

\* The index loses no session to a concurrent writer: one that was listed
\* leaves as an implicit session or for SessionMax newer ones.
SessionsLeaveOnlyWhenDue ==
    \A s \in listed \ index : s \in evicted \/ Cardinality(Newer(s)) >= SessionMax

\* An open or a refresh that has written its payload and not yet the index.
Listing(c) == pc[c] \in {"put", "lock", "prune"} /\ req[c].cmd # "evict"

\* Disk use is bounded by the index: every payload file on disk is listed, is
\* about to be, or was left by a call that failed.  A refresh that writes its
\* payload back while a prune drops the session lists it again.
\* (_prune_session_records, refresh_session)
PayloadsAreAccounted ==
    \A s \in Calls :
        payload[s] # None =>
            \/ s \in index \/ s \in stranded
            \/ \E c \in Calls : Listing(c) /\ Session(c) = s

\* An answer given as fresh agrees with every tracked file, and with every file
\* when the request asked for it, unless the file changed while the map was
\* being made or was left out by a deadline, or the snapshot is empty.
AnswersAreCurrent ==
    [][\A c \in Calls : pc[c] = "check" /\ pc'[c] = "served" =>
           \A f \in Files :
               \/ have[c].map[f] = tree[f]
               \/ f \in have[c].torn
               \/ have[c].snap[f] = 0 /\ ~req[c].onStale
               \/ have[c].snap = Nothing]_vars
=============================================================================
