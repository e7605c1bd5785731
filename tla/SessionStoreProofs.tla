------------------------- MODULE SessionStoreProofs -------------------------
(***************************************************************************)
(* What the sessions of a project root guarantee for any number of calls   *)
(* and files, any retention limit, and every combination of the faults.    *)
(*                                                                         *)
(* SectionInv says what the call in the locked section may still unlink,   *)
(* and that this is nothing it is going to list; GoneInv says what became  *)
(* of the payloads that are off its list.  FaithfulInv says that a map     *)
(* agrees with the snapshot beside it, wherever the two are kept, and      *)
(* MakingInv says what makes them agree while a call makes one.            *)
(***************************************************************************)
EXTENDS SessionStore, TLAPS, FiniteSetTheorems

\* A session that may be dropped: it is implicit and the daemon has removed it,
\* or SessionMax newer ones were opened.
MayGo(s) == s \in evicted \/ Cardinality(Newer(s)) >= SessionMax

\* The files of a map are those of the snapshot, except for the torn ones.
Faithful(p) == \A f \in Files : p.map[f] = p.snap[f] \/ f \in p.torn

Idle == {"new", "served", "done"}

Types ==
    /\ tree \in [Files -> Revisions] /\ edits \in 0..MaxEdits
    /\ payload \in [Calls -> Payloads \cup {None}]
    /\ cache \in [Calls -> Payloads \cup {None}]
    /\ have \in [Calls -> Payloads \cup {None}]
    /\ index \subseteq Calls /\ lock \in Calls \cup {None}
    /\ pc \in [Calls -> {"new", "load", "read", "fill", "check", "refresh",
                         "parse", "write", "put", "lock", "prune", "served",
                         "done"}]
    /\ req \in [Calls -> Requests \cup {None}]
    /\ retried \subseteq Calls
    /\ todo \in [Calls -> SUBSET Calls]
    /\ stamp \in [Calls -> Nat]
    /\ changed \in [Calls -> SUBSET Files] /\ moved \in [Calls -> SUBSET Files]
    /\ listed \subseteq Calls /\ evicted \subseteq Calls
    /\ stranded \subseteq Calls

\* The call in the locked section is the one that holds the lock.
LockInv == \A c \in Calls : lock = c <=> pc[c] = "prune"

\* A call under way has a request, which names a session that was listed; an
\* open and a removal go no other way than their own.  A call that has a payload
\* in memory stands where the code has read or built one.
HasRequest(c) ==
    /\ pc[c] \notin Idle =>
           /\ req[c] \in Requests
           /\ req[c].cmd # "open" => req[c].session \in listed
           /\ req[c].cmd = "open" => pc[c] \in {"write", "lock", "prune"}
           /\ req[c].cmd = "evict" => pc[c] \in {"lock", "prune"}
    /\ pc[c] \in {"parse", "write", "put", "fill", "check"} =>
           have[c] \in Payloads

ReqInv == \A c \in Calls : HasRequest(c)

\* A session is dated before it is listed, once, by an open that then ends.
StampInv ==
    /\ index \subseteq listed
    /\ \A s \in listed : stamp[s] > 0 /\ pc[s] = "done"
    /\ \A c \in Calls : stamp[c] =< Cardinality(Calls)
    /\ \A c \in Calls :
         /\ pc[c] = "new" => stamp[c] = 0
         /\ pc[c] = "write" /\ req[c].cmd = "open" => stamp[c] = 0
         /\ pc[c] \in {"lock", "prune"} /\ req[c].cmd = "open" => stamp[c] > 0

\* What the call in the section may unlink is due, and it will not list it; an
\* open has its payload on disk until the section gives it up.
SectionOf(c) ==
    /\ pc[c] = "lock" /\ req[c].cmd = "open" => payload[c] # None
    /\ pc[c] = "prune" =>
         /\ req[c].cmd \in {"open", "evict"}
         /\ req[c].cmd = "open" => payload[c] # None \/ c \notin Retained(c)
         /\ req[c].cmd = "evict" => \/ req[c].session \in evicted
                                   \/ req[c].session \in todo[c]
         /\ \A s \in todo[c] : /\ stamp[s] > 0
                               /\ req[c].cmd = "open" => MayGo(s)
                               /\ s \notin Retained(c)
                               /\ s \in listed \cup {c}

SectionInv == \A c \in Calls : SectionOf(c)

\* The two retention properties, for all sessions that have a date.
DueInv ==
    /\ \A s \in Calls : stamp[s] > 0 /\ payload[s] = None => MayGo(s)
    /\ SessionsLeaveOnlyWhenDue

\* A refresh has written the payload of s and has yet to list it.
Returning(s) ==
    \E c \in Calls : /\ pc[c] \in {"put", "lock"}
                     /\ req[c].cmd \in {"refresh", "serve"}
                     /\ req[c].session = s

\* What the section drops is on its list until its payload is unlinked; after
\* that only a refresh puts the payload back.
GoneOf(c) ==
    pc[c] = "prune" =>
        \A s \in Doomed(c) \ todo[c] :
            payload[s] # None => s \in stranded \/ Returning(s)

GoneInv == \A c \in Calls : GoneOf(c)

\* The inductive invariant for the retention properties.
IInv == /\ Types /\ LockInv /\ ReqInv /\ StampInv
        /\ SectionInv /\ DueInv /\ GoneInv /\ PayloadsAreAccounted

\* Every map that is kept or held agrees with the snapshot beside it.
FaithfulInv ==
    /\ \A s \in Calls : payload[s] # None => Faithful(payload[s])
    /\ \A s \in Calls : cache[s] # None => Faithful(cache[s])
    /\ \A c \in Calls :
         pc[c] \in {"parse", "put", "fill", "check"} => Faithful(have[c])

\* A file the refresh has not found changed is as its snapshot has it, or has
\* been changed since the call looked at it.
ParseOf(c) ==
    pc[c] = "parse" =>
        \A f \in Files :
            f \in changed[c] \/ f \in moved[c] \/ tree[f] = have[c].snap[f]

\* What a map says of a file is so now, or the call knows that it may not be.
UpToDate(p, since, f) ==
    IF f \in p.paths THEN p.map[f] = tree[f] \/ f \in p.torn \/ f \in since
    ELSE p.map[f] = 0

\* The map about to be written has the files as they are, or knows better.
WriteOf(c) ==
    pc[c] = "write" => \A f \in Files : UpToDate(have[c], moved[c], f)

MakingInv == \A c \in Calls : ParseOf(c) /\ WriteOf(c)

MapInv == FaithfulInv /\ MakingInv

-----------------------------------------------------------------------------
(* Requests, payloads and maps *)

\* A request names a session, unless it opens one.
LEMMA RequestType ==
    ASSUME NEW r \in Requests
    PROVE  /\ r.cmd \in CommandNames
           /\ r.cmd # "open" => r.session \in Calls
           /\ r.cmd = "serve" => r.onStale \in BOOLEAN
BY DEF Requests, Open, Refreshes, Evictions, Serves, CommandNames

\* Begin makes a request; it names the session Begin looked for.
LEMMA BeginRequest ==
    ASSUME NEW r \in Refreshes \cup Evictions \cup Serves
    PROVE  /\ r \in Requests /\ r.session \in Calls
           /\ r.cmd \in {"refresh", "evict", "serve"}
BY DEF Requests, Refreshes, Evictions, Serves

LEMMA NoMapType == NoMap \in Payloads
BY MaxEditsAssumption DEF NoMap, Payloads, Nothing, Revisions

\* What the builder makes of a previous map is a map.
LEMMA BuiltType ==
    ASSUME tree \in [Files -> Revisions], NEW p \in Payloads,
           NEW due \in SUBSET Files, NEW left \in SUBSET due
    PROVE  Built(p, due, left) \in Payloads
BY MaxEditsAssumption DEF Built, Payloads, Nothing, Present, Revisions

LEMMA SnapshottedType ==
    ASSUME tree \in [Files -> Revisions], NEW p \in Payloads,
           NEW since \in SUBSET Files
    PROVE  /\ Snapshotted(p, since) =
                [paths |-> p.paths, map |-> p.map,
                 snap |-> [f \in Files |-> IF f \in p.paths THEN tree[f] ELSE 0],
                 torn |-> p.torn \cup (since \cap p.paths)]
           /\ Snapshotted(p, since) \in Payloads
<1>1. [f \in Files |-> IF f \in p.paths THEN tree[f] ELSE 0]
          \in [Files -> Revisions]
  BY MaxEditsAssumption DEF Revisions
<1>2. p.torn \cup (since \cap p.paths) \in SUBSET Files
  BY DEF Payloads
<1>3. p = [paths |-> p.paths, map |-> p.map, snap |-> p.snap, torn |-> p.torn]
  BY DEF Payloads
<1>4. Snapshotted(p, since) =
        [paths |-> p.paths, map |-> p.map,
         snap |-> [f \in Files |-> IF f \in p.paths THEN tree[f] ELSE 0],
         torn |-> p.torn \cup (since \cap p.paths)]
  <2>1. Snapshotted(p, since) =
          [[p EXCEPT !.snap = [f \in Files |-> IF f \in p.paths THEN tree[f]
                                               ELSE 0]]
             EXCEPT !.torn = p.torn \cup (since \cap p.paths)]
    BY <1>3 DEF Snapshotted
  <2>2. QED
    BY <1>3, <2>1
<1>5. QED
  BY <1>1, <1>2, <1>4 DEF Payloads

LEMMA DueType ==
    ASSUME NEW p, NEW changes
    PROVE  Due(p, changes) \subseteq Files
BY DEF Due, Present

LEMMA ChangesType ==
    ASSUME NEW p, NEW added
    PROVE  Changes(p, added) \subseteq Files
BY DEF Changes, Present, Tracked

\* A call under way is about a session.
LEMMA SessionType ==
    ASSUME ReqInv, NEW c \in Calls, pc[c] \notin Idle
    PROVE  Session(c) \in Calls
BY RequestType DEF ReqInv, HasRequest, Session

-----------------------------------------------------------------------------
(* Type correctness *)

LEMMA TypesInit ==
    ASSUME Init
    PROVE  Types
BY MaxEditsAssumption DEF Init, Types, Revisions

\* A call that ends leaves well-typed variables.
LEMMA EndTypes ==
    ASSUME Types, NEW c \in Calls, NEW l \in {"served", "done"}, End(c, l)
    PROVE  /\ pc' \in [Calls -> {"new", "load", "read", "fill", "check",
                                 "refresh", "parse", "write", "put", "lock",
                                 "prune", "served", "done"}]
           /\ have' \in [Calls -> Payloads \cup {None}]
           /\ changed' \in [Calls -> SUBSET Files]
           /\ moved' \in [Calls -> SUBSET Files]
           /\ req' \in [Calls -> Requests \cup {None}]
           /\ retried' \subseteq Calls
BY DEF Types, End, Goto

LEMMA TypesStep ==
    ASSUME Types, ReqInv, [Next]_vars
    PROVE  Types'
<1> USE DEF Types, treeVars, indexVars, workVars
<1>1. ASSUME NEW c \in Calls, OpenBuild(c) PROVE Types'
  <2>1. Built(NoMap, Present, {}) \in Payloads
    BY NoMapType, BuiltType DEF Present
  <2>2. Open \in Requests
    BY DEF Requests
  <2>3. QED
    BY <1>1, <2>1, <2>2 DEF OpenBuild, Goto
<1>2. ASSUME NEW c \in Calls, OpenWrite(c) PROVE Types'
  <2>1. Snapshotted(have[c], moved[c]) \in Payloads
    BY <1>2, SnapshottedType DEF OpenWrite, ReqInv, HasRequest
  <2>2. Cardinality({d \in Calls : stamp[d] > 0}) + 1 \in Nat
    BY FiniteAssumption, FS_Subset, FS_CardinalityType
  <2>3. QED
    BY <1>2, <2>1, <2>2 DEF OpenWrite, Goto
<1>3. ASSUME NEW c \in Calls, Enter(c) PROVE Types'
  <2>1. Session(c) \in Calls
    BY <1>3, SessionType DEF Enter, Idle
  <2>2. QED
    BY <1>3, <2>1 DEF Enter, Goto, Doomed
<1>4. ASSUME NEW c \in Calls, Unlink(c) PROVE Types'
  BY <1>4 DEF Unlink
<1>5. ASSUME NEW c \in Calls, UnlinkFails(c) PROVE Types'
  BY <1>5 DEF UnlinkFails
<1>6. ASSUME NEW c \in Calls, WriteIndex(c) PROVE Types'
  <2>1. Retained(c) \subseteq Calls
    BY DEF Retained, NewestOf
  <2>2. QED
    BY <1>6, <2>1, EndTypes DEF WriteIndex
<1>7. ASSUME NEW c \in Calls, LockFails(c) PROVE Types'
  <2>1. Left(c) \subseteq Calls
    BY <1>7, SessionType DEF LockFails, Left, Idle
  <2>2. QED
    BY <1>7, <2>1, EndTypes DEF LockFails
<1>8. ASSUME NEW c \in Calls, Crash(c) \/ RemovalFails(c) PROVE Types'
  <2>1. Crash(c) => Left(c) \subseteq Calls
    BY SessionType DEF Crash, Left, Idle
  <2>2. QED
    BY <1>8, <2>1, EndTypes DEF Crash, RemovalFails
<1>9. ASSUME NEW c \in Calls, Begin(c) PROVE Types'
  <2>1. PICK r \in Refreshes \cup Evictions \cup Serves :
            /\ req' = [req EXCEPT ![c] = r]
            /\ Goto(c, CASE r.cmd = "refresh" -> "refresh"
                         [] r.cmd = "evict" -> "lock"
                         [] OTHER -> "load")
    BY <1>9 DEF Begin
  <2>2. req' \in [Calls -> Requests \cup {None}]
    BY <2>1, BeginRequest
  <2>3. (CASE r.cmd = "refresh" -> "refresh" [] r.cmd = "evict" -> "lock"
           [] OTHER -> "load") \in {"refresh", "lock", "load"}
    BY BeginRequest
  <2>4. pc' \in [Calls -> {"new", "load", "read", "fill", "check", "refresh",
                           "parse", "write", "put", "lock", "prune", "served",
                           "done"}]
    BY <2>1, <2>3 DEF Goto
  <2>5. QED
    BY <1>9, <2>2, <2>4 DEF Begin
<1>10. ASSUME NEW c \in Calls, RefreshRead(c) PROVE Types'
  <2>1. Session(c) \in Calls
    BY <1>10, SessionType DEF RefreshRead, Idle
  <2>2. QED
    BY <1>10, <2>1, ChangesType DEF RefreshRead, Goto
<1>11. ASSUME NEW c \in Calls, RefreshMissing(c) PROVE Types'
  BY <1>11, EndTypes DEF RefreshMissing
<1>12. ASSUME NEW c \in Calls, Parse(c) PROVE Types'
  <2>1. PICK left \in SUBSET Due(have[c], changed[c]) :
            /\ have' = [have EXCEPT ![c] =
                            Built(have[c], Due(have[c], changed[c]), left)]
            /\ moved' = [moved EXCEPT ![c] = @ \ Due(have[c], changed[c])]
    BY <1>12 DEF Parse
  <2>2. Built(have[c], Due(have[c], changed[c]), left) \in Payloads
    BY <1>12, DueType, BuiltType DEF Parse, ReqInv, HasRequest
  <2>3. QED
    BY <1>12, <2>1, <2>2 DEF Parse, Goto
<1>13. ASSUME NEW c \in Calls, RefreshWrite(c) PROVE Types'
  <2>1. Session(c) \in Calls
    BY <1>13, SessionType DEF RefreshWrite, Idle
  <2>2. Snapshotted(have[c], moved[c]) \in Payloads
    BY <1>13, SnapshottedType DEF RefreshWrite, ReqInv, HasRequest
  <2>3. QED
    BY <1>13, <2>1, <2>2 DEF RefreshWrite, Goto
<1>14. ASSUME NEW c \in Calls, RefreshPut(c) PROVE Types'
  BY <1>14 DEF RefreshPut, Goto
<1>15. ASSUME NEW c \in Calls, RefreshList(c) PROVE Types'
  <2>1. Session(c) \in Calls
    BY <1>15, SessionType DEF RefreshList, Idle
  <2>2. QED
    BY <1>15, <2>1, EndTypes DEF RefreshList, Goto
<1>16. ASSUME NEW c \in Calls, LoadHit(c) PROVE Types'
  <2>1. Session(c) \in Calls
    BY <1>16, SessionType DEF LoadHit, Idle
  <2>2. QED
    BY <1>16, <2>1 DEF LoadHit, Goto
<1>17. ASSUME NEW c \in Calls, LoadMiss(c) PROVE Types'
  BY <1>17 DEF LoadMiss, Goto
<1>18. ASSUME NEW c \in Calls, Read(c) PROVE Types'
  <2>1. Session(c) \in Calls
    BY <1>18, SessionType DEF Read, Idle
  <2>2. QED
    BY <1>18, <2>1 DEF Read, Goto
<1>19. ASSUME NEW c \in Calls, Fill(c) PROVE Types'
  BY <1>19 DEF Fill, Goto
<1>20. ASSUME NEW c \in Calls, Missing(c) \/ Stale(c) PROVE Types'
  BY <1>20, EndTypes DEF Missing, Stale, Retry, Goto
<1>21. ASSUME NEW c \in Calls, Answer(c) PROVE Types'
  BY <1>21, EndTypes DEF Answer
<1>22. ASSUME NEW f \in Files, Change(f) PROVE Types'
  <2>1. tree' \in [Files -> Revisions] /\ edits' \in 0..MaxEdits
    BY <1>22, MaxEditsAssumption DEF Change, Revisions
  <2>2. QED
    BY <1>22, <2>1 DEF Change
<1>23. ASSUME NEW s \in Calls, Displace(s) PROVE Types'
  BY <1>23 DEF Displace
<1>24. CASE UNCHANGED vars
  BY <1>24 DEF vars
<1>25. QED
  BY <1>1, <1>2, <1>3, <1>4, <1>5, <1>6, <1>7, <1>8, <1>9, <1>10, <1>11,
     <1>12, <1>13, <1>14, <1>15, <1>16, <1>17, <1>18, <1>19, <1>20, <1>21,
     <1>22, <1>23, <1>24 DEF Next, CallStep

-----------------------------------------------------------------------------
(* What a step leaves alone *)

\* A call changes its own position, request and work only.
LEMMA OthersStay ==
    ASSUME Types, NEW c \in Calls, CallStep(c), NEW d \in Calls, d # c
    PROVE  /\ pc'[d] = pc[d] /\ req'[d] = req[d] /\ have'[d] = have[d]
           /\ changed'[d] = changed[d] /\ moved'[d] = moved[d]
           /\ todo'[d] = todo[d] /\ stamp'[d] = stamp[d]
<1> USE DEF Types, treeVars, indexVars, workVars
<1>1. CASE OpenBuild(c) \/ OpenWrite(c) \/ Enter(c) \/ Unlink(c)
           \/ UnlinkFails(c)
  BY <1>1 DEF OpenBuild, OpenWrite, Enter, Unlink, UnlinkFails, Goto
<1>2. CASE WriteIndex(c) \/ LockFails(c) \/ RefreshMissing(c) \/ Answer(c)
  BY <1>2 DEF WriteIndex, LockFails, RefreshMissing, Answer, End, Goto
<1>3. CASE Crash(c) \/ RemovalFails(c)
  BY <1>3 DEF Crash, RemovalFails, End, Goto
<1>4. CASE Begin(c)
  BY <1>4 DEF Begin, Goto
<1>5. CASE RefreshRead(c) \/ Parse(c) \/ RefreshWrite(c) \/ RefreshPut(c)
  BY <1>5 DEF RefreshRead, Parse, RefreshWrite, RefreshPut, Goto
<1>6. CASE RefreshList(c)
  BY <1>6 DEF RefreshList, End, Goto
<1>7. CASE LoadHit(c) \/ LoadMiss(c) \/ Read(c) \/ Fill(c)
  BY <1>7 DEF LoadHit, LoadMiss, Read, Fill, Goto
<1>8. CASE Missing(c) \/ Stale(c)
  BY <1>8 DEF Missing, Stale, Retry, End, Goto
<1>9. QED
  BY <1>1, <1>2, <1>3, <1>4, <1>5, <1>6, <1>7, <1>8 DEF CallStep

\* Nothing that was listed or evicted ceases to have been.
LEMMA HistoryGrows ==
    ASSUME [Next]_vars
    PROVE  listed \subseteq listed' /\ evicted \subseteq evicted'
<1> USE DEF indexVars
<1>1. ASSUME NEW c \in Calls, CallStep(c)
      PROVE  listed \subseteq listed' /\ evicted \subseteq evicted'
  BY <1>1 DEF CallStep, OpenBuild, OpenWrite, Begin, LockFails, Crash, Enter,
            Unlink, UnlinkFails, RemovalFails, WriteIndex, RefreshRead,
            RefreshMissing, Parse, RefreshWrite, RefreshPut, RefreshList,
            LoadHit, LoadMiss, Read, Fill, Missing, Stale, Answer
<1>2. ASSUME NEW f \in Files, Change(f)
      PROVE  listed \subseteq listed' /\ evicted \subseteq evicted'
  BY <1>2 DEF Change
<1>3. QED
  BY <1>1, <1>2 DEF Next, Displace, vars

\* Only an open dates a session, its own; and a call that goes on keeps its
\* request.
LEMMA OwnRequest ==
    ASSUME Types, NEW c \in Calls, CallStep(c)
    PROVE  /\ stamp'[c] = stamp[c] \/ OpenWrite(c)
           /\ \/ req'[c] = req[c]
              \/ pc[c] = "new"
              \/ pc'[c] \in {"served", "done"}
<1> USE DEF Types, treeVars, indexVars, workVars
<1>1. stamp'[c] = stamp[c] \/ OpenWrite(c)
  BY DEF CallStep, OpenBuild, OpenWrite, Begin, LockFails, Crash, Enter,
     Unlink, UnlinkFails, RemovalFails, WriteIndex, RefreshRead,
     RefreshMissing, Parse, RefreshWrite, RefreshPut, RefreshList, LoadHit, LoadMiss, Read, Fill,
     Missing, Stale, Answer
<1>2. CASE OpenBuild(c) \/ OpenWrite(c) \/ Enter(c) \/ Unlink(c)
           \/ UnlinkFails(c) \/ Begin(c)
  BY <1>2, <1>1 DEF OpenBuild, OpenWrite, Enter, Unlink, UnlinkFails, Begin
<1>3. CASE WriteIndex(c) \/ LockFails(c) \/ RefreshMissing(c) \/ Answer(c)
           \/ Crash(c) \/ RemovalFails(c)
  BY <1>3, <1>1 DEF WriteIndex, LockFails, RefreshMissing, Answer, Crash,
     RemovalFails, End, Goto
<1>4. CASE RefreshRead(c) \/ Parse(c) \/ RefreshWrite(c) \/ RefreshPut(c)
  BY <1>4, <1>1 DEF RefreshRead, Parse, RefreshWrite, RefreshPut
<1>5. CASE RefreshList(c)
  BY <1>5, <1>1 DEF RefreshList, End, Goto
<1>6. CASE LoadHit(c) \/ LoadMiss(c) \/ Read(c) \/ Fill(c)
  BY <1>6, <1>1 DEF LoadHit, LoadMiss, Read, Fill
<1>7. CASE Missing(c) \/ Stale(c)
  BY <1>7, <1>1 DEF Missing, Stale, Retry, End, Goto
<1>8. QED
  BY <1>2, <1>3, <1>4, <1>5, <1>6, <1>7 DEF CallStep

\* The files and the cache are nobody's position.
LEMMA OutsideStays ==
    ASSUME \/ \E f \in Files : Change(f)
           \/ \E s \in Calls : Displace(s)
           \/ UNCHANGED vars
    PROVE  /\ UNCHANGED <<payload, index, lock, todo, listed, evicted,
                          stranded>>
           /\ UNCHANGED <<pc, req, retried, have, changed, stamp>>
BY DEF Change, Displace, vars, indexVars, workVars

-----------------------------------------------------------------------------
(* The lock, the requests and the dates *)

LEMMA LockStep ==
    ASSUME Types, LockInv, [Next]_vars
    PROVE  LockInv'
<1> USE NoneAssumption DEF Types, LockInv, treeVars, indexVars, workVars
<1>1. ASSUME NEW c \in Calls, CallStep(c),
             UNCHANGED lock, pc[c] # "prune", pc'[c] # "prune"
      PROVE  LockInv'
  BY <1>1, OthersStay
<1>2. ASSUME NEW c \in Calls,
             \/ OpenBuild(c) \/ OpenWrite(c) \/ LockFails(c)
             \/ RefreshRead(c) \/ RefreshMissing(c) \/ Parse(c)
             \/ RefreshWrite(c) \/ RefreshPut(c)
      PROVE  LockInv'
  BY <1>1, <1>2 DEF CallStep, OpenBuild, OpenWrite, LockFails, RefreshRead,
     RefreshMissing, Parse, RefreshWrite, RefreshPut, End, Goto
<1>3. ASSUME NEW c \in Calls,
             \/ RefreshList(c) \/ LoadHit(c) \/ LoadMiss(c) \/ Read(c)
             \/ Fill(c) \/ Missing(c) \/ Stale(c) \/ Answer(c)
      PROVE  LockInv'
  BY <1>1, <1>3 DEF CallStep, RefreshList, LoadHit, LoadMiss, Read, Fill,
     Missing, Stale, Answer, Retry, End, Goto
<1>4. ASSUME NEW c \in Calls, Begin(c) PROVE LockInv'
  BY <1>1, <1>4 DEF CallStep, Begin, Goto
<1>5. ASSUME NEW c \in Calls, Enter(c) PROVE LockInv'
  BY <1>5 DEF Enter, Goto
<1>6. ASSUME NEW c \in Calls, Unlink(c) \/ UnlinkFails(c) PROVE LockInv'
  BY <1>6 DEF Unlink, UnlinkFails
<1>7. ASSUME NEW c \in Calls, WriteIndex(c) PROVE LockInv'
  BY <1>7 DEF WriteIndex, End, Goto
<1>8. ASSUME NEW c \in Calls, Crash(c) \/ RemovalFails(c) PROVE LockInv'
  BY <1>8 DEF Crash, RemovalFails, End, Goto
<1>9. CASE \/ \E f \in Files : Change(f)
           \/ \E s \in Calls : Displace(s)
           \/ UNCHANGED vars
  BY <1>9, OutsideStays
<1>10. QED
  BY <1>2, <1>3, <1>4, <1>5, <1>6, <1>7, <1>8, <1>9 DEF Next, CallStep

LEMMA ReqStep ==
    ASSUME Types, LockInv, ReqInv, [Next]_vars
    PROVE  ReqInv'
<1> USE DEF Types, Idle, HasRequest, treeVars, indexVars, workVars
<1>1. ASSUME NEW c \in Calls, CallStep(c), HasRequest(c)' PROVE ReqInv'
  <2>1. ASSUME NEW d \in Calls, d # c PROVE HasRequest(d)'
    BY <1>1, <2>1, OthersStay, HistoryGrows DEF ReqInv
  <2>2. QED
    BY <1>1, <2>1 DEF ReqInv
<1>2. ASSUME NEW c \in Calls, CallStep(c), pc'[c] \in Idle PROVE ReqInv'
  BY <1>1, <1>2
<1>3. ASSUME NEW c \in Calls, CallStep(c), req'[c] = req[c], pc[c] \notin Idle,
             req[c].cmd = "open" => pc'[c] \in {"write", "lock", "prune"},
             req[c].cmd = "evict" => pc'[c] \in {"lock", "prune"},
             pc'[c] \in {"parse", "write", "put", "fill", "check"} =>
                 have'[c] \in Payloads
      PROVE  ReqInv'
  BY <1>1, <1>3, HistoryGrows DEF ReqInv
<1>4. ASSUME NEW c \in Calls, OpenBuild(c) PROVE ReqInv'
  <2>1. Built(NoMap, Present, {}) \in Payloads
    BY NoMapType, BuiltType DEF Present
  <2>2. Open \in Requests /\ Open.cmd = "open"
    BY DEF Requests, Open
  <2>3. QED
    BY <1>1, <1>4, <2>1, <2>2 DEF CallStep, OpenBuild, Goto
<1>5. ASSUME NEW c \in Calls, Begin(c) PROVE ReqInv'
  <2>1. PICK r \in Refreshes \cup Evictions \cup Serves :
            /\ r.session \in listed
            /\ req' = [req EXCEPT ![c] = r]
            /\ Goto(c, CASE r.cmd = "refresh" -> "refresh"
                         [] r.cmd = "evict" -> "lock"
                         [] OTHER -> "load")
    BY <1>5 DEF Begin
  <2>2. r \in Requests /\ r.cmd # "open"
    BY BeginRequest
  <2>3. /\ pc'[c] \in {"refresh", "lock", "load"}
        /\ r.cmd = "evict" => pc'[c] = "lock"
    BY <1>5, <2>1, BeginRequest DEF Goto
  <2>4. req'[c] = r /\ listed' = listed
    BY <1>5, <2>1 DEF Begin
  <2>5. QED
    BY <1>1, <1>5, <2>1, <2>2, <2>3, <2>4 DEF CallStep
<1>6. ASSUME NEW c \in Calls, OpenWrite(c) \/ Enter(c) PROVE ReqInv'
  BY <1>3, <1>6 DEF CallStep, OpenWrite, Enter, Goto, ReqInv
<1>7. ASSUME NEW c \in Calls, Unlink(c) \/ UnlinkFails(c) PROVE ReqInv'
  BY <1>3, <1>7 DEF CallStep, Unlink, UnlinkFails, Goto
<1>8. ASSUME NEW c \in Calls,
             \/ WriteIndex(c) \/ LockFails(c) \/ Crash(c) \/ RefreshMissing(c)
             \/ RemovalFails(c) \/ Answer(c)
      PROVE  ReqInv'
  BY <1>2, <1>8 DEF CallStep, WriteIndex, LockFails, Crash, RemovalFails,
     RefreshMissing, Answer, End, Goto
<1>9. ASSUME NEW c \in Calls, RefreshRead(c) PROVE ReqInv'
  <2>1. Session(c) \in Calls
    BY <1>9, SessionType DEF RefreshRead
  <2>2. QED
    BY <1>3, <1>9, <2>1 DEF CallStep, RefreshRead, Goto, ReqInv
<1>10. ASSUME NEW c \in Calls, Parse(c) PROVE ReqInv'
  <2>1. PICK left \in SUBSET Due(have[c], changed[c]) :
            have' = [have EXCEPT ![c] =
                         Built(have[c], Due(have[c], changed[c]), left)]
    BY <1>10 DEF Parse
  <2>2. Built(have[c], Due(have[c], changed[c]), left) \in Payloads
    BY <1>10, DueType, BuiltType DEF Parse, ReqInv
  <2>3. QED
    BY <1>3, <1>10, <2>1, <2>2 DEF CallStep, Parse, Goto, ReqInv
<1>11. ASSUME NEW c \in Calls, RefreshWrite(c) PROVE ReqInv'
  <2>1. Snapshotted(have[c], moved[c]) \in Payloads
    BY <1>11, SnapshottedType DEF RefreshWrite, ReqInv
  <2>2. QED
    BY <1>3, <1>11, <2>1 DEF CallStep, RefreshWrite, Goto, Serving, ReqInv
<1>12. ASSUME NEW c \in Calls, RefreshPut(c) PROVE ReqInv'
  BY <1>3, <1>12 DEF CallStep, RefreshPut, Goto, ReqInv
<1>13. ASSUME NEW c \in Calls, RefreshList(c) PROVE ReqInv'
  BY <1>2, <1>3, <1>13 DEF CallStep, RefreshList, End, Goto, ReqInv
<1>14. ASSUME NEW c \in Calls, LoadHit(c) \/ Read(c) PROVE ReqInv'
  <2>1. Session(c) \in Calls
    BY <1>14, SessionType DEF LoadHit, Read
  <2>2. QED
    BY <1>3, <1>14, <2>1 DEF CallStep, LoadHit, Read, Goto, ReqInv
<1>15. ASSUME NEW c \in Calls, LoadMiss(c) \/ Fill(c) PROVE ReqInv'
  BY <1>3, <1>15 DEF CallStep, LoadMiss, Fill, Goto, ReqInv
<1>16. ASSUME NEW c \in Calls, Missing(c) \/ Stale(c) PROVE ReqInv'
  BY <1>2, <1>3, <1>16 DEF CallStep, Missing, Stale, Retry, End, Goto, ReqInv
<1>17. CASE \/ \E f \in Files : Change(f)
            \/ \E s \in Calls : Displace(s)
            \/ UNCHANGED vars
  BY <1>17, OutsideStays DEF ReqInv
<1>18. QED
  BY <1>4, <1>5, <1>6, <1>7, <1>8, <1>9, <1>10, <1>11, <1>12, <1>13, <1>14,
     <1>15, <1>16, <1>17 DEF Next, CallStep

\* A session gets its date when its payload is written, once, and is listed by
\* the open that wrote it, which then ends.
LEMMA StampStep ==
    ASSUME Types, LockInv, ReqInv, StampInv, [Next]_vars
    PROVE  StampInv'
<1> USE DEF Types, Idle, ReqInv, HasRequest, StampInv, treeVars, indexVars,
        workVars
<1>1. ASSUME NEW c \in Calls, CallStep(c), ~OpenWrite(c),
             UNCHANGED <<index, listed, stranded>>, pc[c] # "done",
             pc'[c] # "new",
             pc'[c] = "write" /\ req'[c].cmd = "open" => stamp[c] = 0,
             pc'[c] \in {"lock", "prune"} /\ req'[c].cmd = "open" => stamp[c] > 0
      PROVE  StampInv'
  <2>1. stamp'[c] = stamp[c]
    BY <1>1, OwnRequest
  <2>2. \A s \in listed : stamp'[s] > 0 /\ pc'[s] = "done"
    BY <1>1, <2>1, OthersStay
  <2>3. QED
    BY <1>1, <2>1, <2>2, OthersStay
<1>2. ASSUME NEW c \in Calls, OpenBuild(c) PROVE StampInv'
  <2>1. CallStep(c) /\ ~OpenWrite(c)
    BY <1>2 DEF CallStep, OpenBuild, OpenWrite
  <2>2. UNCHANGED <<index, listed, stranded>> /\ pc[c] = "new" /\ pc'[c] = "write"
    BY <1>2 DEF OpenBuild, Goto
  <2>3. QED
    BY <1>1, <2>1, <2>2
<1>3. ASSUME NEW c \in Calls, OpenWrite(c) PROVE StampInv'
  <2> DEFINE Stamped == {d \in Calls : stamp[d] > 0}
  <2>1. c \notin Stamped /\ c \notin listed
    BY <1>3 DEF OpenWrite
  <2>2. /\ Cardinality(Stamped) \in Nat
        /\ Cardinality(Stamped) + 1 =< Cardinality(Calls)
    <3>1. IsFiniteSet(Stamped)
      BY FiniteAssumption, FS_Subset
    <3>2. Cardinality(Stamped \cup {c}) = Cardinality(Stamped) + 1
      BY <2>1, <3>1, FS_AddElement
    <3>3. Cardinality(Stamped \cup {c}) =< Cardinality(Calls)
      BY FiniteAssumption, FS_Subset
    <3>4. QED
      BY <3>1, <3>2, <3>3, FS_CardinalityType
  <2>3. stamp' = [stamp EXCEPT ![c] = Cardinality(Stamped) + 1]
    BY <1>3 DEF OpenWrite
  <2> HIDE DEF Stamped
  <2>4. stamp'[c] \in Nat /\ stamp'[c] > 0 /\ stamp'[c] =< Cardinality(Calls)
    BY <2>2, <2>3
  <2>5. \A d \in Calls \ {c} : stamp'[d] = stamp[d] /\ pc'[d] = pc[d]
    BY <1>3, <2>3 DEF OpenWrite, Goto
  <2>6. UNCHANGED <<index, listed, stranded, req>> /\ pc'[c] = "lock"
    BY <1>3 DEF OpenWrite, Goto
  <2>7. QED
    BY <2>1, <2>4, <2>5, <2>6
<1>4. ASSUME NEW c \in Calls, Enter(c) PROVE StampInv'
  BY <1>1, <1>4 DEF CallStep, OpenWrite, Enter, Goto
<1>5. ASSUME NEW c \in Calls, Unlink(c) \/ UnlinkFails(c) PROVE StampInv'
  BY <1>5 DEF Unlink, UnlinkFails
<1>6. ASSUME NEW c \in Calls, WriteIndex(c) PROVE StampInv'
  <2>1. Retained(c) \subseteq index \cup (IF req[c].cmd = "open" THEN {c} ELSE {})
    BY DEF Retained, NewestOf
  <2>2. index' \subseteq listed'
    BY <1>6, <2>1 DEF WriteIndex
  <2>3. \A s \in listed' : stamp'[s] > 0 /\ pc'[s] = "done"
    BY <1>6 DEF WriteIndex, End, Goto
  <2>4. QED
    BY <1>6, <2>2, <2>3 DEF WriteIndex, End, Goto
<1>7. ASSUME NEW c \in Calls,
             LockFails(c) \/ RefreshMissing(c) \/ Answer(c)
      PROVE  StampInv'
  BY <1>1, <1>7 DEF CallStep, OpenWrite, LockFails, RefreshMissing, Answer,
     End, Goto
<1>8. ASSUME NEW c \in Calls, Crash(c) \/ RemovalFails(c) PROVE StampInv'
  <2>1. index' = index /\ listed' = listed /\ stamp' = stamp
    BY <1>8 DEF Crash, RemovalFails
  <2>2. pc[c] # "done" /\ pc' = [pc EXCEPT ![c] = "done"]
        /\ req' = [req EXCEPT ![c] = None]
    BY <1>8 DEF Crash, RemovalFails, End, Goto
  <2>3. QED
    BY <2>1, <2>2
<1>9. ASSUME NEW c \in Calls, Begin(c) PROVE StampInv'
  <2>1. req'[c].cmd # "open" /\ pc'[c] \in {"refresh", "lock", "load"}
    <3>1. PICK r \in Refreshes \cup Evictions \cup Serves :
              /\ req' = [req EXCEPT ![c] = r]
              /\ Goto(c, CASE r.cmd = "refresh" -> "refresh"
                           [] r.cmd = "evict" -> "lock"
                           [] OTHER -> "load")
      BY <1>9 DEF Begin
    <3>2. QED
      BY <3>1, BeginRequest DEF Goto
  <2>2. UNCHANGED <<index, listed, stranded>> /\ pc[c] = "new"
    BY <1>9 DEF Begin
  <2>3. ~OpenWrite(c) /\ CallStep(c)
    BY <1>9, <2>2 DEF OpenWrite, CallStep
  <2>4. QED
    BY <1>1, <2>1, <2>2, <2>3
<1>10. ASSUME NEW c \in Calls,
              RefreshRead(c) \/ Parse(c) \/ RefreshWrite(c) \/ RefreshPut(c)
       PROVE  StampInv'
  <2>1. CallStep(c)
    BY <1>10 DEF CallStep
  <2>2. /\ UNCHANGED <<index, listed, stranded, req>>
        /\ pc[c] \in {"refresh", "parse", "write", "put"}
        /\ pc[c] = "write" => req[c].cmd # "open"
        /\ pc'[c] \in {"parse", "write", "put", "lock"}
    <3>1. CASE RefreshRead(c)
      BY <3>1 DEF RefreshRead, Goto
    <3>2. CASE Parse(c) \/ RefreshWrite(c)
      BY <3>2 DEF Parse, RefreshWrite, Goto
    <3>3. CASE RefreshPut(c)
      BY <3>3 DEF RefreshPut, Goto
    <3>4. QED
      BY <1>10, <3>1, <3>2, <3>3
  <2>3. ~OpenWrite(c) /\ req[c].cmd # "open"
    BY <2>2 DEF OpenWrite
  <2>4. QED
    BY <1>1, <2>1, <2>2, <2>3
<1>11. ASSUME NEW c \in Calls, RefreshList(c) PROVE StampInv'
  <2>1. Session(c) \in listed
    BY <1>11 DEF RefreshList, Session
  <2>2. index' \subseteq listed'
    BY <1>11, <2>1 DEF RefreshList
  <2>3. listed' = listed /\ stamp' = stamp /\ pc[c] = "lock"
        /\ pc'[c] \in {"load", "done"}
    BY <1>11 DEF RefreshList, End, Goto
  <2>4. CallStep(c)
    BY <1>11 DEF CallStep
  <2>5. QED
    BY <2>2, <2>3, <2>4, OthersStay
<1>12. ASSUME NEW c \in Calls,
              LoadHit(c) \/ LoadMiss(c) \/ Read(c) \/ Fill(c)
       PROVE  StampInv'
  BY <1>1, <1>12 DEF CallStep, OpenWrite, LoadHit, LoadMiss, Read, Fill, Goto
<1>13. ASSUME NEW c \in Calls, Missing(c) \/ Stale(c) PROVE StampInv'
  BY <1>1, <1>13 DEF CallStep, OpenWrite, Missing, Stale, Retry, End, Goto
<1>14. CASE \/ \E f \in Files : Change(f)
            \/ \E s \in Calls : Displace(s)
            \/ UNCHANGED vars
  BY <1>14, OutsideStays
<1>15. QED
  BY <1>2, <1>3, <1>4, <1>5, <1>6, <1>7, <1>8, <1>9, <1>10, <1>11, <1>12,
     <1>13, <1>14 DEF Next, CallStep

-----------------------------------------------------------------------------
(* Retention *)

\* A date that was given does not change.
LEMMA StampStays ==
    ASSUME Types, StampInv, [Next]_vars, NEW s \in Calls, stamp[s] > 0
    PROVE  stamp'[s] = stamp[s]
<1>1. ASSUME NEW c \in Calls, CallStep(c) PROVE stamp'[s] = stamp[s]
  <2>1. CASE s # c
    BY <1>1, <2>1, OthersStay
  <2>2. CASE s = c
    <3>1. ~OpenWrite(c)
      BY <2>2 DEF OpenWrite, StampInv
    <3>2. QED
      BY <1>1, <2>2, <3>1, OwnRequest
  <2>3. QED
    BY <2>1, <2>2
<1>2. QED
  BY <1>1, OutsideStays DEF Next

LEMMA NewerFinite ==
    ASSUME NEW s
    PROVE  IsFiniteSet(Newer(s)) /\ Cardinality(Newer(s)) \in Nat
BY FiniteAssumption, FS_Subset, FS_CardinalityType DEF Newer

\* A session that may go may go ever after: newer sessions are not forgotten,
\* for a date counts them whether they are listed or not.
LEMMA MayGoStays ==
    ASSUME Types, StampInv, [Next]_vars, NEW s \in Calls, stamp[s] > 0, MayGo(s)
    PROVE  MayGo(s)'
<1>1. Newer(s) \subseteq Newer(s)'
  BY StampStays DEF Newer, Types
<1>2. IsFiniteSet(Newer(s)') /\ Cardinality(Newer(s)') \in Nat
  BY FiniteAssumption, FS_Subset, FS_CardinalityType DEF Newer
<1>3. Cardinality(Newer(s)) =< Cardinality(Newer(s)')
  BY <1>1, <1>2, FS_Subset
<1>4. QED
  BY <1>2, <1>3, NewerFinite, HistoryGrows, SessionMaxAssumption DEF MayGo

\* What a section does not retain is due: the sessions that push one out are
\* newer than it.
LEMMA DroppedAreDue ==
    ASSUME Types, StampInv, NEW c \in Calls,
           \/ req[c].cmd = "open"
           \/ req[c].cmd = "evict" /\ req[c].session \in evicted,
           NEW s \in (index \cup {Session(c)}) \ Retained(c)
    PROVE  MayGo(s)
<1>1. CASE req[c].cmd = "open"
  <2> DEFINE Ahead == {e \in index \cup {c} : stamp[e] > stamp[s]}
  <2>1. Ahead \subseteq Newer(s)
    BY DEF Newer, Types
  <2>2. IsFiniteSet(Ahead) /\ Cardinality(Ahead) \in Nat
    BY <2>1, NewerFinite, FS_Subset, FS_CardinalityType
  <2>3. ~(Cardinality(Ahead) < SessionMax)
    BY <1>1 DEF Retained, NewestOf, Session
  <2>4. Cardinality(Ahead) =< Cardinality(Newer(s))
    BY <2>1, NewerFinite, FS_Subset
  <2> HIDE DEF Ahead
  <2>5. QED
    BY <2>2, <2>3, <2>4, NewerFinite, SessionMaxAssumption DEF MayGo
<1>2. CASE req[c].cmd = "evict" /\ req[c].session \in evicted
  BY <1>2 DEF Retained, Session, MayGo
<1>3. QED
  BY <1>1, <1>2

\* The index stays as it is while another call is in the section.
LEMMA IndexStays ==
    ASSUME Types, LockInv, ReqInv, [Next]_vars,
           NEW c \in Calls, pc[c] = "prune", pc'[c] = "prune"
    PROVE  index' = index /\ req'[c] = req[c]
<1> USE NoneAssumption DEF indexVars
<1>1. lock = c
  BY DEF LockInv
<1>2. ASSUME NEW d \in Calls, CallStep(d)
      PROVE  index' = index /\ req'[c] = req[c]
  <2>1. ~WriteIndex(d)
    <3>1. CASE d = c
      BY <3>1 DEF WriteIndex, End, Goto, Types
    <3>2. CASE d # c
      BY <1>1, <3>2 DEF WriteIndex, LockInv
    <3>3. QED
      BY <3>1, <3>2
  <2>2. ~RefreshList(d)
    BY <1>1 DEF RefreshList
  <2>3. index' = index
    BY <1>2, <2>1, <2>2 DEF CallStep, OpenBuild, OpenWrite, Begin, LockFails,
              Crash, Enter, Unlink, UnlinkFails, RemovalFails, RefreshRead,
              RefreshMissing, Parse, RefreshWrite, RefreshPut, LoadHit,
              LoadMiss, Read, Fill, Missing, Stale, Answer
  <2>4. req'[c] = req[c]
    BY <1>2, OthersStay, OwnRequest
  <2>5. QED
    BY <2>3, <2>4
<1>3. QED
  BY <1>2, OutsideStays DEF Next

\* So does what the section is going to leave in it: an open that is dated
\* meanwhile is not among the sessions the section compares.
LEMMA RetainedStays ==
    ASSUME Types, LockInv, ReqInv, StampInv, [Next]_vars,
           NEW c \in Calls, pc[c] = "prune", pc'[c] = "prune"
    PROVE  Retained(c)' = Retained(c)
<1>1. index' = index /\ req'[c] = req[c]
  BY IndexStays
<1>2. \A s \in index : stamp'[s] = stamp[s]
  BY StampStays DEF StampInv, Types
<1>3. req[c].cmd = "open" => stamp'[c] = stamp[c]
  BY StampStays DEF StampInv
<1>4. CASE req[c].cmd = "open"
  <2>1. NewestOf(index \cup {c})' = NewestOf(index \cup {c})
    BY <1>1, <1>2, <1>3, <1>4 DEF NewestOf
  <2>2. QED
    BY <1>1, <1>4, <2>1 DEF Retained
<1>5. CASE req[c].cmd # "open"
  BY <1>1, <1>5 DEF Retained, Session
<1>6. QED
  BY <1>4, <1>5

\* A payload file is removed by the call in the section only.
LEMMA PayloadLeaves ==
    ASSUME Types, ReqInv, [Next]_vars,
           NEW s \in Calls, payload[s] # None, payload'[s] = None
    PROVE  \E c \in Calls : pc[c] = "prune" /\ s \in todo[c] /\ Unlink(c)
<1> USE DEF Types
<1>1. ASSUME NEW c \in Calls, OpenWrite(c) PROVE FALSE
  <2>1. Snapshotted(have[c], moved[c]) # None
    BY <1>1, SnapshottedType, PayloadAssumption
       DEF OpenWrite, ReqInv, HasRequest, Idle
  <2>2. QED
    BY <1>1, <2>1 DEF OpenWrite
<1>2. ASSUME NEW c \in Calls, RefreshWrite(c) PROVE FALSE
  <2>1. Snapshotted(have[c], moved[c]) # None
    BY <1>2, SnapshottedType, PayloadAssumption
       DEF RefreshWrite, ReqInv, HasRequest, Idle
  <2>2. QED
    BY <1>2, <2>1 DEF RefreshWrite
<1>3. ASSUME NEW c \in Calls, CallStep(c), ~OpenWrite(c), ~RefreshWrite(c),
             ~Unlink(c)
      PROVE  FALSE
  BY <1>3 DEF CallStep, OpenBuild, Begin, LockFails, Crash, Enter, UnlinkFails,
            RemovalFails, WriteIndex, RefreshRead, RefreshMissing, Parse,
            RefreshPut, RefreshList, LoadHit, LoadMiss, Read, Fill, Missing,
            Stale, Answer
<1>4. ASSUME NEW c \in Calls, Unlink(c)
      PROVE  pc[c] = "prune" /\ s \in todo[c]
  BY <1>4 DEF Unlink
<1>5. QED
  BY <1>1, <1>2, <1>3, <1>4, OutsideStays DEF Next

\* A call is in the section because it was, or it enters; an open waits for the
\* lock because it did, or it has just written its payload.
LEMMA Arrivals ==
    ASSUME Types, ReqInv, [Next]_vars, NEW d \in Calls
    PROVE  /\ pc'[d] = "prune" =>
                  \/ pc[d] = "prune" /\ todo'[d] \subseteq todo[d]
                  \/ Enter(d)
           /\ pc'[d] = "lock" /\ req'[d].cmd = "open" =>
                  \/ pc[d] = "lock" /\ req'[d] = req[d]
                  \/ OpenWrite(d)
<1> DEFINE Goal == /\ pc'[d] = "prune" =>
                         \/ pc[d] = "prune" /\ todo'[d] \subseteq todo[d]
                         \/ Enter(d)
                   /\ pc'[d] = "lock" /\ req'[d].cmd = "open" =>
                         \/ pc[d] = "lock" /\ req'[d] = req[d]
                         \/ OpenWrite(d)
<1> USE DEF Types
<1>1. CASE OpenWrite(d) \/ Enter(d)
  BY <1>1 DEF OpenWrite, Enter, Goto
<1>2. CASE Unlink(d) \/ UnlinkFails(d)
  BY <1>2 DEF Unlink, UnlinkFails
<1>3. CASE Begin(d)
  <2>1. req'[d].cmd # "open" /\ pc'[d] \in {"refresh", "lock", "load"}
    <3>1. PICK r \in Refreshes \cup Evictions \cup Serves :
              /\ req' = [req EXCEPT ![d] = r]
              /\ Goto(d, CASE r.cmd = "refresh" -> "refresh"
                           [] r.cmd = "evict" -> "lock"
                           [] OTHER -> "load")
      BY <1>3 DEF Begin
    <3>2. QED
      BY <3>1, BeginRequest DEF Goto
  <2>2. QED
    BY <2>1
<1>4. CASE RefreshWrite(d)
  BY <1>4 DEF RefreshWrite, Goto
<1>5. CASE RefreshPut(d)
  BY <1>5 DEF RefreshPut, Goto, ReqInv, HasRequest, Idle
<1>6. CASE \/ OpenBuild(d) \/ WriteIndex(d) \/ LockFails(d) \/ Crash(d)
           \/ RemovalFails(d) \/ RefreshRead(d) \/ RefreshMissing(d) \/ Parse(d)
  BY <1>6 DEF OpenBuild, WriteIndex, LockFails, Crash, RemovalFails,
            RefreshRead, RefreshMissing, Parse, End, Goto
<1>7. CASE \/ RefreshList(d) \/ LoadHit(d) \/ LoadMiss(d) \/ Read(d)
           \/ Fill(d) \/ Missing(d) \/ Stale(d) \/ Answer(d)
  BY <1>7 DEF RefreshList, LoadHit, LoadMiss, Read, Fill, Missing, Stale,
     Answer, Retry, End, Goto
<1>8. ASSUME NEW c \in Calls, CallStep(c), c # d PROVE Goal
  BY <1>8, OthersStay
<1>9. ASSUME \/ \E f \in Files : Change(f)
             \/ \E s \in Calls : Displace(s)
             \/ UNCHANGED vars
      PROVE  Goal
  BY <1>9, OutsideStays
<1>10. ASSUME CallStep(d) PROVE Goal
  BY <1>1, <1>2, <1>3, <1>4, <1>5, <1>6, <1>7, <1>10 DEF CallStep
<1>11. QED
  BY <1>8, <1>9, <1>10 DEF Next

\* Entering the section settles what goes: nothing that is not due, and nothing
\* the section keeps.
LEMMA EnterSection ==
    ASSUME Types, LockInv, ReqInv, StampInv, SectionInv, [Next]_vars,
           NEW c \in Calls, Enter(c)
    PROVE  SectionOf(c)'
<1>1. /\ pc[c] = "lock" /\ pc'[c] = "prune" /\ req' = req /\ index' = index
      /\ req[c].cmd \in {"open", "evict"} /\ stamp' = stamp
      /\ payload' = payload /\ todo'[c] = Doomed(c)
      /\ listed' = listed
  BY DEF Enter, Goto, Types
<1>2. /\ Retained(c)' = Retained(c) /\ Session(c)' = Session(c)
      /\ Doomed(c) = (index \cup {Session(c)}) \ Retained(c)
  BY <1>1 DEF Retained, NewestOf, Session, Doomed
<1>3. Types' /\ StampInv'
  BY TypesStep, StampStep
<1>4. ASSUME NEW s \in (index \cup {Session(c)}) \ Retained(c)
      PROVE  /\ stamp[s] > 0 /\ s \notin Retained(c)
             /\ req[c].cmd = "open" => MayGo(s)'
             /\ s \in listed \cup {c}
  <2>1. s \in listed \cup {c}
    BY <1>1 DEF Session, StampInv, ReqInv, HasRequest, Idle
  <2>2. stamp[s] > 0
    <3>1. CASE s \in listed
      BY <3>1 DEF StampInv
    <3>2. CASE s = c /\ s \notin listed
      <4>1. req[c].cmd = "open"
        BY <1>1, <3>2 DEF Session, StampInv, ReqInv, HasRequest, Idle
      <4>2. QED
        BY <1>1, <3>2, <4>1 DEF StampInv
    <3>3. QED
      BY <2>1, <3>1, <3>2
  <2>3. ASSUME req[c].cmd = "open" PROVE MayGo(s)'
    <3>1. MayGo(s)
      BY <2>3, DroppedAreDue
    <3>2. s \in Calls
      BY <2>1 DEF Types
    <3>3. QED
      BY <2>2, <3>1, <3>2, MayGoStays
  <2>4. QED
    BY <1>1, <2>1, <2>2, <2>3
<1>5. req[c].cmd = "open" => payload[c] # None
  BY <1>1 DEF SectionInv, SectionOf
<1>6. req[c].cmd = "evict" => req[c].session \in Doomed(c)
  BY <1>2 DEF Session, Retained
<1>7. QED
  BY <1>1, <1>2, <1>4, <1>5, <1>6 DEF SectionOf

LEMMA SectionStep ==
    ASSUME Types, LockInv, ReqInv, StampInv, SectionInv, [Next]_vars
    PROVE  SectionInv'
<1> SUFFICES ASSUME NEW d \in Calls
             PROVE  SectionOf(d)'
  BY DEF SectionInv
<1>1. CASE pc'[d] = "prune" /\ pc[d] = "prune"
           /\ todo'[d] \subseteq todo[d]
  <2>1. req'[d] = req[d] /\ Retained(d)' = Retained(d)
    BY <1>1, IndexStays, RetainedStays
  <2>2. SectionOf(d)
    BY DEF SectionInv
  <2>3. ASSUME payload[d] # None, payload'[d] = None
        PROVE  d \notin Retained(d)
    BY <1>1, <2>2, <2>3, PayloadLeaves, NoneAssumption DEF LockInv, SectionOf
  <2>4. ASSUME NEW s \in todo[d]
        PROVE  /\ stamp'[s] > 0 /\ s \notin Retained(d)
               /\ req[d].cmd = "open" => MayGo(s)'
               /\ s \in listed' \cup {d}
    BY <1>1, <2>2, StampStays, MayGoStays, HistoryGrows DEF SectionOf, Types
  <2>5. ASSUME req[d].cmd = "evict", req[d].session \in todo[d],
               req[d].session \notin todo'[d]
        PROVE  req[d].session \in evicted'
    <3>1. CallStep(d)
      BY <2>5, OthersStay, OutsideStays DEF Next
    <3>2. Unlink(d)
      BY <1>1, <2>5, <3>1 DEF CallStep, OpenBuild, OpenWrite, Begin, LockFails,
         Crash, Enter, UnlinkFails, RemovalFails, WriteIndex, RefreshRead,
         RefreshMissing, Parse, RefreshWrite, RefreshPut, RefreshList, LoadHit,
         LoadMiss, Read, Fill, Missing, Stale, Answer, End, Goto, Types
    <3>3. QED
      BY <2>5, <3>2 DEF Unlink, Types
  <2>6. QED
    BY <1>1, <2>1, <2>2, <2>3, <2>4, <2>5, HistoryGrows DEF SectionOf
<1>2. CASE Enter(d)
  BY <1>2, EnterSection
<1>3. CASE pc'[d] = "lock" /\ pc[d] = "lock" /\ req'[d] = req[d]
  <2>1. ASSUME req[d].cmd = "open", payload'[d] = None
        PROVE  FALSE
    <3>1. payload[d] # None
      BY <1>3, <2>1 DEF SectionInv, SectionOf
    <3>2. PICK c \in Calls : pc[c] = "prune" /\ d \in todo[c]
      BY <2>1, <3>1, PayloadLeaves
    <3>3. d \in listed \cup {c}
      BY <3>2 DEF SectionInv, SectionOf
    <3>4. QED
      BY <1>3, <3>2, <3>3 DEF StampInv
  <2>2. QED
    BY <1>3, <2>1 DEF SectionOf
<1>4. CASE OpenWrite(d)
  <2>1. Snapshotted(have[d], moved[d]) # None
    BY <1>4, SnapshottedType, PayloadAssumption
       DEF OpenWrite, ReqInv, HasRequest, Idle, Types
  <2>2. payload'[d] # None /\ pc'[d] = "lock"
    BY <1>4, <2>1 DEF OpenWrite, Goto, Types
  <2>3. QED
    BY <2>2 DEF SectionOf
<1>5. QED
  BY <1>1, <1>2, <1>3, <1>4, Arrivals DEF SectionOf

\* Payloads go in a section, which unlinks only what is due; the index loses
\* what the section of an open or a removal does not retain.
LEMMA DueStep ==
    ASSUME Types, LockInv, ReqInv, StampInv, SectionInv, DueInv, [Next]_vars
    PROVE  DueInv'
<1>1. ASSUME NEW s \in Calls, stamp'[s] > 0, payload'[s] = None
      PROVE  MayGo(s)'
  <2>1. CASE stamp[s] > 0 /\ payload[s] = None
    BY <2>1, MayGoStays DEF DueInv
  <2>2. CASE stamp[s] > 0 /\ payload[s] # None
    <3>1. PICK c \in Calls : pc[c] = "prune" /\ s \in todo[c] /\ Unlink(c)
      BY <1>1, <2>2, PayloadLeaves
    <3>2. CASE req[c].cmd = "open"
      BY <2>2, <3>1, <3>2, MayGoStays DEF SectionInv, SectionOf
    <3>3. CASE req[c].cmd # "open"
      <4>1. evicted' = evicted \cup {s}
        BY <1>1, <2>2, <3>1, <3>3 DEF Unlink, SectionInv, SectionOf, Types
      <4>2. QED
        BY <4>1 DEF MayGo
    <3>4. QED
      BY <3>2, <3>3
  <2>3. CASE ~(stamp[s] > 0)
    <3>1. OpenWrite(s)
      BY <1>1, <2>3, OthersStay, OwnRequest, OutsideStays DEF Next
    <3>2. Snapshotted(have[s], moved[s]) # None
      BY <3>1, SnapshottedType, PayloadAssumption
         DEF OpenWrite, ReqInv, HasRequest, Idle, Types
    <3>3. QED
      BY <1>1, <3>1, <3>2 DEF OpenWrite, Types
  <2>4. QED
    BY <2>1, <2>2, <2>3
<1>2. ASSUME NEW s \in listed' \ index' PROVE MayGo(s)'
  <2>1. CASE s \in listed /\ s \notin index
    <3>1. MayGo(s)
      BY <2>1 DEF DueInv, SessionsLeaveOnlyWhenDue, MayGo
    <3>2. QED
      BY <2>1, <3>1, MayGoStays DEF StampInv, Types
  <2>2. CASE ~(s \in listed /\ s \notin index)
    <3>1. PICK c \in Calls : WriteIndex(c)
      <4>1. ASSUME NEW c \in Calls, CallStep(c), ~WriteIndex(c) PROVE FALSE
        BY <1>2, <2>2, <4>1 DEF CallStep, OpenBuild, OpenWrite, Begin,
                  LockFails, Crash, Enter, Unlink, UnlinkFails, RemovalFails,
                  RefreshRead, RefreshMissing, Parse, RefreshWrite, RefreshPut,
                  RefreshList, LoadHit, LoadMiss, Read, Fill, Missing, Stale,
                  Answer, StampInv, indexVars
      <4>2. QED
        BY <1>2, <2>2, <4>1, OutsideStays DEF Next, StampInv
    <3>2. SectionOf(c) /\ pc[c] = "prune" /\ todo[c] = {}
      BY <3>1 DEF SectionInv, WriteIndex
    <3>3. s \in (index \cup {Session(c)}) \ Retained(c)
      BY <1>2, <2>2, <3>1 DEF WriteIndex, Session
    <3>4. MayGo(s)
      BY <3>2, <3>3, DroppedAreDue DEF SectionOf
    <3>5. stamp[s] > 0
      <4>1. CASE s \in listed
        BY <4>1 DEF StampInv
      <4>2. CASE s \notin listed
        BY <1>2, <3>1, <3>2, <4>2 DEF WriteIndex, StampInv
      <4>3. QED
        BY <4>1, <4>2
    <3>6. s \in Calls
      BY <1>2, TypesStep DEF Types
    <3>7. QED
      BY <3>4, <3>5, <3>6, MayGoStays
  <2>3. QED
    BY <2>1, <2>2
<1>3. QED
  BY <1>1, <1>2 DEF DueInv, SessionsLeaveOnlyWhenDue, MayGo

-----------------------------------------------------------------------------
(* Records and payloads *)

\* A refresh that has written its payload lists the session, unless it fails.
LEMMA ReturningStays ==
    ASSUME Types, ReqInv, [Next]_vars, NEW s \in Calls, Returning(s)
    PROVE  Returning(s)' \/ s \in stranded' \/ (s \in index' /\ lock = None)
<1> DEFINE Goal == Returning(s)' \/ s \in stranded' \/ (s \in index' /\ lock = None)
<1> USE DEF Types
<1>1. PICK d \in Calls : /\ pc[d] \in {"put", "lock"}
                         /\ req[d].cmd \in {"refresh", "serve"}
                         /\ req[d].session = s
  BY DEF Returning
<1>2. CASE pc'[d] = pc[d] /\ req'[d] = req[d]
  BY <1>1, <1>2 DEF Returning
<1>3. CASE RefreshPut(d)
  BY <1>1, <1>3 DEF RefreshPut, Goto, Returning
<1>4. CASE LockFails(d)
  BY <1>1, <1>4 DEF LockFails, Left, Session
<1>5. CASE Crash(d)
  BY <1>1, <1>5 DEF Crash, Left, Session, Serving
<1>6. CASE RefreshList(d)
  BY <1>1, <1>6 DEF RefreshList, Session
<1>7. ASSUME CallStep(d) PROVE Goal
  <2>1. RefreshPut(d) \/ LockFails(d) \/ Crash(d) \/ RefreshList(d)
    BY <1>1, <1>7 DEF CallStep, OpenBuild, OpenWrite, Begin, Enter, Unlink,
       UnlinkFails, RemovalFails, WriteIndex, RefreshRead, RefreshMissing,
       Parse, RefreshWrite, LoadHit, LoadMiss, Read, Fill, Missing, Stale,
       Answer
  <2>2. QED
    BY <1>3, <1>4, <1>5, <1>6, <2>1
<1>8. ASSUME NEW c \in Calls, CallStep(c), c # d PROVE Goal
  BY <1>2, <1>8, OthersStay
<1>9. CASE \/ \E f \in Files : Change(f)
           \/ \E x \in Calls : Displace(x)
           \/ UNCHANGED vars
  BY <1>2, <1>9, OutsideStays
<1>10. QED
  BY <1>7, <1>8, <1>9 DEF Next

\* A payload without a record stays one until it is unlinked or listed again.
LEMMA StrandedStays ==
    ASSUME Types, [Next]_vars, NEW s \in stranded
    PROVE  s \in stranded' \/ payload'[s] = None \/ (s \in index' /\ lock = None)
<1> DEFINE Goal == \/ s \in stranded' \/ payload'[s] = None
                   \/ (s \in index' /\ lock = None)
<1>1. ASSUME NEW c \in Calls, Unlink(c) PROVE Goal
  BY <1>1 DEF Unlink, Types
<1>2. ASSUME NEW c \in Calls, RefreshList(c) PROVE Goal
  BY <1>2 DEF RefreshList
<1>3. ASSUME NEW c \in Calls, CallStep(c), ~Unlink(c), ~RefreshList(c)
      PROVE  Goal
  BY <1>3 DEF CallStep, OpenBuild, OpenWrite, Begin, LockFails, Crash, Enter,
     UnlinkFails, RemovalFails, WriteIndex, RefreshRead, RefreshMissing, Parse,
     RefreshWrite, RefreshPut, LoadHit, LoadMiss, Read, Fill, Missing, Stale,
     Answer, indexVars
<1>4. CASE \/ \E f \in Files : Change(f)
           \/ \E x \in Calls : Displace(x)
           \/ UNCHANGED vars
  BY <1>4, OutsideStays
<1>5. QED
  BY <1>1, <1>2, <1>3, <1>4 DEF Next

\* A payload file appears by the open of its session or by a refresh.
LEMMA PayloadArrives ==
    ASSUME Types, ReqInv, [Next]_vars,
           NEW s \in Calls, payload[s] = None, payload'[s] # None
    PROVE  OpenWrite(s) \/ Returning(s)'
<1> USE DEF Types
<1>1. ASSUME NEW c \in Calls, OpenWrite(c) PROVE OpenWrite(s)
  BY <1>1 DEF OpenWrite
<1>2. ASSUME NEW c \in Calls, RefreshWrite(c) PROVE Returning(s)'
  <2>1. s = req[c].session /\ req[c] \in Requests /\ req[c].cmd # "open"
    BY <1>2 DEF RefreshWrite, Session, ReqInv, HasRequest, Idle
  <2>2. pc'[c] \in {"put", "lock"} /\ req'[c] = req[c]
    BY <1>2 DEF RefreshWrite, Goto
  <2>3. req[c].cmd # "evict"
    BY <1>2 DEF RefreshWrite, ReqInv, HasRequest, Idle
  <2>4. req[c].cmd \in {"refresh", "serve"}
    BY <2>1, <2>3 DEF Requests, Refreshes, Evictions, Serves, Open
  <2>5. QED
    BY <2>1, <2>2, <2>4 DEF Returning
<1>3. ASSUME NEW c \in Calls, CallStep(c), ~OpenWrite(c), ~RefreshWrite(c)
      PROVE  FALSE
  BY <1>3 DEF CallStep, OpenBuild, Begin, LockFails, Crash, Enter, Unlink,
     UnlinkFails, RemovalFails, WriteIndex, RefreshRead, RefreshMissing, Parse,
     RefreshPut, RefreshList, LoadHit, LoadMiss, Read, Fill, Missing, Stale,
     Answer
<1>4. QED
  BY <1>1, <1>2, <1>3, OutsideStays DEF Next

\* What the section drops is on its list until it is unlinked, or is left.
LEMMA GoneStep ==
    ASSUME Types, LockInv, ReqInv, StampInv, GoneInv, [Next]_vars
    PROVE  GoneInv'
<1> SUFFICES ASSUME NEW c \in Calls, pc'[c] = "prune",
                    NEW s \in Doomed(c)' \ todo'[c], payload'[s] # None
             PROVE  s \in stranded' \/ Returning(s)'
  BY DEF GoneInv, GoneOf
<1> USE NoneAssumption
<1>1. CASE Enter(c)
  BY <1>1 DEF Enter, Doomed, Retained, NewestOf, Session, Types
<1>2. CASE pc[c] = "prune" /\ todo'[c] \subseteq todo[c]
  <2>1. /\ index' = index /\ req'[c] = req[c]
        /\ Retained(c)' = Retained(c) /\ lock = c
    BY <1>2, IndexStays, RetainedStays DEF LockInv
  <2>2. s \in Doomed(c)
    BY <2>1 DEF Doomed, Session
  <2>3. s \in Calls /\ s \in listed \cup {c}
    BY <1>2, <2>2 DEF Doomed, Session, StampInv, ReqInv, HasRequest, Idle, Types
  <2>4. CASE s \in todo[c]
    <3>1. Unlink(c) \/ UnlinkFails(c)
      <4>1. CallStep(c)
        BY <2>4, OthersStay, OutsideStays DEF Next
      <4>2. QED
        BY <1>2, <2>4, <4>1 DEF CallStep, OpenBuild, OpenWrite, Begin,
           LockFails, Crash, Enter, RemovalFails, WriteIndex, RefreshRead,
           RefreshMissing, Parse, RefreshWrite, RefreshPut, RefreshList,
           LoadHit, LoadMiss, Read, Fill, Missing, Stale, Answer, End, Goto,
           Types
    <3>2. QED
      BY <2>3, <2>4, <3>1 DEF Unlink, UnlinkFails, Types
  <2>5. CASE s \notin todo[c] /\ payload[s] = None
    <3>1. ~OpenWrite(s)
      BY <1>2, <2>3 DEF OpenWrite, StampInv
    <3>2. QED
      BY <2>3, <2>5, <3>1, PayloadArrives
  <2>6. CASE s \notin todo[c] /\ payload[s] # None
    <3>1. s \in stranded \/ Returning(s)
      BY <1>2, <2>2, <2>6 DEF GoneInv, GoneOf
    <3>2. QED
      BY <2>1, <2>3, <3>1, ReturningStays, StrandedStays
  <2>7. QED
    BY <2>4, <2>5, <2>6
<1>3. QED
  BY <1>1, <1>2, Arrivals

\* Every payload file stays accounted for.
LEMMA AccountedStep ==
    ASSUME Types, LockInv, ReqInv, StampInv, SectionInv, GoneInv,
           PayloadsAreAccounted, [Next]_vars
    PROVE  PayloadsAreAccounted'
<1> SUFFICES ASSUME NEW s \in Calls, payload'[s] # None
             PROVE  \/ s \in index' \/ s \in stranded'
                    \/ (\E c \in Calls : Listing(c) /\ Session(c) = s)'
  BY DEF PayloadsAreAccounted
<1> DEFINE Goal == \/ s \in index' \/ s \in stranded'
                   \/ (\E c \in Calls : Listing(c) /\ Session(c) = s)'
<1> USE NoneAssumption
<1>1. ASSUME Returning(s)' PROVE Goal
  BY <1>1 DEF Returning, Listing, Session
<1>2. ASSUME Returning(s) PROVE Goal
  BY <1>1, <1>2, ReturningStays
<1>3. ASSUME s \in stranded PROVE Goal
  BY <1>3, StrandedStays
<1>4. ASSUME NEW c \in Calls, WriteIndex(c), s \in index \cup {Session(c)},
             payload[s] # None
      PROVE  Goal
  <2>1. CASE s \in Retained(c)
    BY <1>4, <2>1 DEF WriteIndex
  <2>2. CASE s \notin Retained(c)
    <3>1. s \in stranded \/ Returning(s)
      BY <1>4, <2>2 DEF WriteIndex, Doomed, GoneInv, GoneOf
    <3>2. QED
      BY <1>2, <1>3, <3>1
  <2>3. QED
    BY <2>1, <2>2
<1>5. CASE payload[s] = None
  <2>1. OpenWrite(s) => Goal
    <3>1. OpenWrite(s) => /\ pc'[s] = "lock" /\ req'[s] = req[s]
                          /\ req[s].cmd = "open"
      BY DEF OpenWrite, Goto, Types
    <3>2. QED
      BY <3>1 DEF Listing, Session
  <2>2. QED
    BY <1>1, <1>5, <2>1, PayloadArrives
<1>6. CASE payload[s] # None /\ s \in index
  <2>1. ASSUME NEW c \in Calls, CallStep(c), ~WriteIndex(c)
        PROVE  index \subseteq index'
    BY <2>1 DEF CallStep, OpenBuild, OpenWrite, Begin, LockFails, Crash, Enter,
       Unlink, UnlinkFails, RemovalFails, RefreshRead, RefreshMissing, Parse,
       RefreshWrite, RefreshPut, RefreshList, LoadHit, LoadMiss, Read, Fill,
       Missing, Stale, Answer, indexVars
  <2>2. QED
    BY <1>4, <1>6, <2>1, OutsideStays DEF Next
<1>7. ASSUME NEW c \in Calls, payload[s] # None, Listing(c), Session(c) = s,
             req[c].cmd = "open"
      PROVE  Goal
  <2>1. c = s /\ pc[c] \in {"lock", "prune"}
    BY <1>7 DEF Listing, Session, ReqInv, HasRequest, Idle
  <2>2. CASE pc'[c] \in {"lock", "prune"} /\ req'[c] = req[c]
    BY <1>7, <2>1, <2>2 DEF Listing, Session
  <2>3. CASE Enter(c) \/ Unlink(c) \/ UnlinkFails(c)
    BY <2>1, <2>2, <2>3 DEF Enter, Unlink, UnlinkFails, Goto, Types
  <2>4. CASE LockFails(c) \/ Crash(c)
    BY <1>7, <2>1, <2>4 DEF LockFails, Crash, Left
  <2>5. CASE WriteIndex(c)
    BY <1>4, <1>7, <2>5
  <2>6. ASSUME CallStep(c) PROVE Goal
    <3>1. \/ Enter(c) \/ Unlink(c) \/ UnlinkFails(c) \/ LockFails(c)
          \/ Crash(c) \/ WriteIndex(c)
      BY <1>7, <2>1, <2>6 DEF CallStep, OpenBuild, OpenWrite, Begin,
         RemovalFails, RefreshRead, RefreshMissing, Parse, RefreshWrite,
         RefreshPut, RefreshList, LoadHit, LoadMiss, Read, Fill, Missing,
         Stale, Answer
    <3>2. QED
      BY <2>3, <2>4, <2>5, <3>1
  <2>7. ASSUME NEW d \in Calls, CallStep(d), d # c PROVE Goal
    BY <2>1, <2>2, <2>7, OthersStay
  <2>8. CASE \/ \E f \in Files : Change(f)
             \/ \E x \in Calls : Displace(x)
             \/ UNCHANGED vars
    BY <2>1, <2>2, <2>8, OutsideStays
  <2>9. QED
    BY <2>6, <2>7, <2>8 DEF Next
<1>8. ASSUME NEW c \in Calls, Listing(c), Session(c) = s, req[c].cmd # "open"
      PROVE  Goal
  <2>1. req[c] \in Requests /\ req[c].cmd # "evict"
    BY <1>8 DEF Listing, ReqInv, HasRequest, Idle
  <2>2. req[c].cmd \in {"refresh", "serve"}
    BY <1>8, <2>1 DEF Requests, Refreshes, Evictions, Serves, Open
  <2>3. pc[c] \in {"put", "lock"}
    BY <1>8, <2>2 DEF Listing, SectionInv, SectionOf
  <2>4. QED
    BY <1>2, <1>8, <2>2, <2>3 DEF Session, Returning
<1>9. QED
  BY <1>3, <1>5, <1>6, <1>7, <1>8 DEF PayloadsAreAccounted

-----------------------------------------------------------------------------
(* The invariants of the specification *)

LEMMA IInvInit ==
    ASSUME Init
    PROVE  IInv
<1>1. Types
  BY TypesInit
<1>2. Cardinality(Calls) \in Nat
  BY FiniteAssumption, FS_CardinalityType
<1>3. LockInv /\ ReqInv /\ SectionInv
  BY NoneAssumption DEF Init, LockInv, ReqInv, HasRequest, Idle, SectionInv,
     SectionOf
<1>4. StampInv /\ DueInv /\ GoneInv /\ PayloadsAreAccounted
  BY <1>2 DEF Init, StampInv, DueInv, SessionsLeaveOnlyWhenDue, GoneInv,
     GoneOf, PayloadsAreAccounted
<1>5. QED
  BY <1>1, <1>3, <1>4 DEF IInv

LEMMA IInvStep ==
    ASSUME IInv, [Next]_vars
    PROVE  IInv'
BY TypesStep, LockStep, ReqStep, StampStep, SectionStep, DueStep, GoneStep,
   AccountedStep
   DEF IInv

LEMMA Invariant == Spec => []IInv
<1>1. Init => IInv
  BY IInvInit
<1>2. IInv /\ [Next]_vars => IInv'
  BY IInvStep
<1>3. QED
  BY <1>1, <1>2, PTL DEF Spec

\* Every variable keeps its type; only the call in the locked section holds the
\* lock, and a session gets one date.  (open_session, refresh_session,
\* _SessionServeCache)
THEOREM TypeCorrect == Spec => []TypeOK
<1>1. IInv => TypeOK
  <2> SUFFICES ASSUME IInv PROVE TypeOK
    OBVIOUS
  <2>1. stamp \in [Calls -> 0..Cardinality(Calls)]
    BY FiniteAssumption, FS_CardinalityType DEF IInv, Types, StampInv
  <2>2. QED
    BY <2>1 DEF IInv, Types, LockInv, StampInv, TypeOK
<1>2. QED
  BY <1>1, Invariant, PTL

\* However opens, refreshes and removals race, fail or die, the payload of a
\* session that was listed goes only with an implicit session or when SessionMax
\* newer ones were opened.  (_prune_session_records)
THEOREM PayloadsAreSafe == Spec => []PayloadsLeaveOnlyWhenDue
<1>1. IInv => PayloadsLeaveOnlyWhenDue
  BY DEF IInv, Types, StampInv, DueInv, MayGo, PayloadsLeaveOnlyWhenDue
<1>2. QED
  BY <1>1, Invariant, PTL

\* No write of the index loses a session that another writer has listed.
\* (_insert_session_record, _remove_implicit_session_payload)
THEOREM SessionsAreSafe == Spec => []SessionsLeaveOnlyWhenDue
<1>1. IInv => SessionsLeaveOnlyWhenDue
  BY DEF IInv, DueInv
<1>2. QED
  BY <1>1, Invariant, PTL

\* Every payload file on disk is listed, is about to be, or was left by a call
\* that failed; a refresh that writes back what a prune has just removed lists
\* it again.  (_prune_session_records, refresh_session)
THEOREM NoPayloadIsLost == Spec => []PayloadsAreAccounted
<1>1. IInv => PayloadsAreAccounted
  BY DEF IInv
<1>2. QED
  BY <1>1, Invariant, PTL

-----------------------------------------------------------------------------
(* Answers *)

\* The snapshot of a map about to be written agrees with it, up to the files
\* that moved: those the snapshot finds are torn, and the others have no entry.
LEMMA SnapshotAgrees ==
    ASSUME Types, ReqInv, MakingInv, NEW c \in Calls, pc[c] = "write"
    PROVE  Faithful(Snapshotted(have[c], moved[c]))
<1> DEFINE p == have[c]
<1>1. p \in Payloads /\ moved[c] \in SUBSET Files
  BY DEF ReqInv, HasRequest, Types
<1>2. Snapshotted(p, moved[c]) =
        [paths |-> p.paths, map |-> p.map,
         snap |-> [f \in Files |-> IF f \in p.paths THEN tree[f] ELSE 0],
         torn |-> p.torn \cup (moved[c] \cap p.paths)]
  BY <1>1, SnapshottedType DEF Types
<1>3. \A f \in Files : IF f \in p.paths
                       THEN \/ p.map[f] = tree[f]
                            \/ f \in p.torn \/ f \in moved[c]
                       ELSE p.map[f] = 0
  BY DEF MakingInv, WriteOf, UpToDate
<1> HIDE DEF p
<1>4. QED
  BY <1>2, <1>3 DEF Faithful, p

\* The incremental builder: a file it does not parse is one whose entry still
\* agrees with the tree, or one that is known not to.
LEMMA BuiltAgrees ==
    ASSUME Types, NEW p \in Payloads, Faithful(p),
           NEW changes, NEW since \in SUBSET Files,
           \A f \in Files : f \in changes \/ f \in since \/ tree[f] = p.snap[f],
           NEW left \in SUBSET Due(p, changes), NEW f \in Files
    PROVE  UpToDate(Built(p, Due(p, changes), left), since \ Due(p, changes), f)
<1> DEFINE due == Due(p, changes)
           q == Built(p, due, left)
<1>1. /\ q.paths = Present
      /\ q.map[f] = IF f \in due \ left THEN tree[f]
                    ELSE IF f \in Present THEN p.map[f] ELSE 0
      /\ q.torn = ((p.torn \cap Present) \ (due \ left)) \cup left
  BY DEF Built
<1>2. due = (changes \cup (Present \ p.paths)) \cap Present
  BY DEF Due
<1> HIDE DEF due, q, UpToDate
<1>3. CASE f \notin Present
  BY <1>1, <1>2, <1>3 DEF due, q, UpToDate
<1>4. CASE f \in Present /\ f \in due
  BY <1>1, <1>2, <1>4 DEF due, q, UpToDate
<1>5. CASE f \in Present /\ f \notin due
  <2>1. f \notin changes
    BY <1>2, <1>5
  <2>2. q.map[f] = p.map[f]
    BY <1>1, <1>5
  <2>3. f \in since \/ p.map[f] = tree[f] \/ f \in p.torn
    BY <2>1 DEF Faithful
  <2>4. QED
    BY <1>1, <1>5, <2>2, <2>3 DEF due, q, UpToDate
<1>6. QED
  BY <1>3, <1>4, <1>5 DEF due, q, UpToDate

\* What a refresh finds unchanged is as the snapshot has it.
LEMMA ChangesComplete ==
    ASSUME NEW p, NEW f \in Files, f \notin Changes(p, TRUE)
    PROVE  tree[f] = p.snap[f]
BY DEF Changes, Tracked, Present

\* Maps are copied between the payload files, the cache and the calls, and made
\* by Snapshotted.
LEMMA FaithfulStep ==
    ASSUME Types, LockInv, ReqInv, MakingInv, FaithfulInv, [Next]_vars
    PROVE  FaithfulInv'
<1> USE DEF Types, FaithfulInv
<1>1. ASSUME NEW c \in Calls, CallStep(c),
             \A s \in Calls : payload'[s] # None => Faithful(payload'[s]),
             \A s \in Calls : cache'[s] # None => Faithful(cache'[s]),
             pc'[c] \in {"parse", "put", "fill", "check"} => Faithful(have'[c])
      PROVE  FaithfulInv'
  BY <1>1, OthersStay
<1>2. ASSUME NEW c \in Calls, OpenWrite(c) PROVE FaithfulInv'
  BY <1>1, <1>2, SnapshotAgrees DEF CallStep, OpenWrite, Goto
<1>3. ASSUME NEW c \in Calls, RefreshWrite(c) PROVE FaithfulInv'
  <2> DEFINE p == Snapshotted(have[c], moved[c])
  <2>1. Faithful(p)
    BY <1>3, SnapshotAgrees DEF RefreshWrite
  <2>2. payload' = [payload EXCEPT ![Session(c)] = p] /\ cache' = cache
    BY <1>3 DEF RefreshWrite
  <2>3. /\ Serving(c) => have'[c] = p
        /\ ~Serving(c) => pc'[c] = "lock"
    BY <1>3 DEF RefreshWrite, Goto
  <2>4. CallStep(c)
    BY <1>3 DEF CallStep
  <2> HIDE DEF p
  <2>5. QED
    BY <1>1, <2>1, <2>2, <2>3, <2>4
<1>4. ASSUME NEW c \in Calls, RefreshPut(c) \/ Fill(c) PROVE FaithfulInv'
  BY <1>1, <1>4 DEF CallStep, RefreshPut, Fill, Goto, workVars
<1>5. ASSUME NEW c \in Calls, RefreshRead(c) \/ Read(c) PROVE FaithfulInv'
  <2>1. Session(c) \in Calls
    BY <1>5, SessionType DEF RefreshRead, Read, Idle
  <2>2. QED
    BY <1>1, <1>5, <2>1 DEF CallStep, RefreshRead, Read, Goto
<1>6. ASSUME NEW c \in Calls, LoadHit(c) PROVE FaithfulInv'
  <2>1. Session(c) \in Calls
    BY <1>6, SessionType DEF LoadHit, Idle
  <2>2. QED
    BY <1>1, <1>6, <2>1 DEF CallStep, LoadHit, Goto
<1>7. ASSUME NEW c \in Calls, Unlink(c) PROVE FaithfulInv'
  BY <1>1, <1>7 DEF CallStep, Unlink, workVars
<1>8. ASSUME NEW c \in Calls,
             OpenBuild(c) \/ Enter(c) \/ UnlinkFails(c) \/ Parse(c)
      PROVE  FaithfulInv'
  BY <1>1, <1>8 DEF CallStep, OpenBuild, Enter, UnlinkFails, Parse, Goto,
     workVars
<1>9. ASSUME NEW c \in Calls, Begin(c) PROVE FaithfulInv'
  <2>1. pc'[c] \in {"refresh", "lock", "load"}
    BY <1>9, BeginRequest DEF Begin, Goto
  <2>2. CallStep(c) /\ payload' = payload /\ cache' = cache
    BY <1>9 DEF CallStep, Begin
  <2>3. QED
    BY <1>1, <2>1, <2>2
<1>10. ASSUME NEW c \in Calls,
              \/ WriteIndex(c) \/ LockFails(c) \/ Crash(c)
              \/ RemovalFails(c) \/ RefreshMissing(c) \/ Answer(c)
       PROVE  FaithfulInv'
  <2>1. CallStep(c)
    BY <1>10 DEF CallStep
  <2>2. payload' = payload /\ cache' = cache /\ pc'[c] \in {"served", "done"}
    BY <1>10 DEF WriteIndex, LockFails, Crash, RemovalFails, RefreshMissing,
       Answer, End, Goto
  <2>3. QED
    BY <1>1, <2>1, <2>2
<1>11. ASSUME NEW c \in Calls,
              RefreshList(c) \/ LoadMiss(c) \/ Missing(c) \/ Stale(c)
       PROVE  FaithfulInv'
  <2>1. CallStep(c)
    BY <1>11 DEF CallStep
  <2>2. payload' = payload /\ cache' = cache
        /\ pc'[c] \in {"load", "read", "refresh", "done"}
    BY <1>11 DEF RefreshList, LoadMiss, Missing, Stale, Retry, End, Goto
  <2>3. QED
    BY <1>1, <2>1, <2>2
<1>12. ASSUME NEW s \in Calls, Displace(s) PROVE FaithfulInv'
  BY <1>12 DEF Displace, workVars
<1>13. ASSUME NEW f \in Files, Change(f) PROVE FaithfulInv'
  BY <1>13 DEF Change
<1>14. CASE UNCHANGED vars
  BY <1>14 DEF vars
<1>15. QED
  BY <1>2, <1>3, <1>4, <1>5, <1>6, <1>7, <1>8, <1>9, <1>10, <1>11, <1>12,
     <1>13, <1>14 DEF Next, CallStep

\* A file that changes while a map is being made is remembered by all who make
\* one.
LEMMA MakingStep ==
    ASSUME Types, ReqInv, MakingInv, FaithfulInv, [Next]_vars
    PROVE  MakingInv'
<1> USE DEF Types
<1>1. ASSUME NEW c \in Calls, CallStep(c), ParseOf(c)', WriteOf(c)'
      PROVE  MakingInv'
  <2>1. tree' = tree
    BY <1>1 DEF CallStep, OpenBuild, OpenWrite, Begin, LockFails, Crash, Enter,
              Unlink, UnlinkFails, RemovalFails, WriteIndex, RefreshRead,
              RefreshMissing, Parse, RefreshWrite, RefreshPut, RefreshList,
              LoadHit, LoadMiss, Read, Fill, Missing, Stale, Answer, treeVars
  <2>2. ASSUME NEW d \in Calls, d # c PROVE ParseOf(d)' /\ WriteOf(d)'
    BY <1>1, <2>1, <2>2, OthersStay DEF MakingInv, ParseOf, WriteOf, UpToDate
  <2>3. QED
    BY <1>1, <2>2 DEF MakingInv
<1>2. ASSUME NEW c \in Calls, CallStep(c), pc'[c] \notin {"parse", "write"}
      PROVE  MakingInv'
  BY <1>1, <1>2 DEF ParseOf, WriteOf
<1>3. ASSUME NEW c \in Calls, OpenBuild(c) PROVE MakingInv'
  <2>1. have'[c] = Built(NoMap, Present, {}) /\ pc'[c] = "write" /\ tree' = tree
    BY <1>3 DEF OpenBuild, Goto, treeVars
  <2>2. \A f \in Files :
            IF f \in Present
            THEN Built(NoMap, Present, {}).map[f] = tree[f]
            ELSE Built(NoMap, Present, {}).map[f] = 0
    BY DEF Built
  <2>3. Built(NoMap, Present, {}).paths = Present
    BY DEF Built
  <2>4. WriteOf(c)' /\ ParseOf(c)'
    BY <2>1, <2>2, <2>3 DEF WriteOf, ParseOf, UpToDate
  <2>5. CallStep(c)
    BY <1>3 DEF CallStep
  <2>6. QED
    BY <1>1, <2>4, <2>5
<1>4. ASSUME NEW c \in Calls, RefreshRead(c) PROVE MakingInv'
  <2>1. Session(c) \in Calls
    BY <1>4, SessionType DEF RefreshRead, Idle
  <2>2. /\ have'[c] = payload[Session(c)] /\ pc'[c] = "parse" /\ tree' = tree
        /\ changed'[c] = Changes(payload[Session(c)], TRUE)
    BY <1>4 DEF RefreshRead, Goto, treeVars
  <2>3. ParseOf(c)' /\ WriteOf(c)'
    <3>1. \A f \in Files : \/ f \in Changes(payload[Session(c)], TRUE)
                           \/ tree[f] = payload[Session(c)].snap[f]
      BY ChangesComplete
    <3>2. QED
      BY <2>2, <3>1 DEF ParseOf, WriteOf
  <2>4. CallStep(c)
    BY <1>4 DEF CallStep
  <2>5. QED
    BY <1>1, <2>3, <2>4
<1>5. ASSUME NEW c \in Calls, Parse(c) PROVE MakingInv'
  <2> DEFINE due == Due(have[c], changed[c])
  <2>1. PICK left \in SUBSET due :
            /\ have' = [have EXCEPT ![c] = Built(have[c], due, left)]
            /\ moved' = [moved EXCEPT ![c] = @ \ due]
    BY <1>5 DEF Parse
  <2>2. have'[c] = Built(have[c], due, left) /\ moved'[c] = moved[c] \ due
        /\ pc'[c] = "write" /\ tree' = tree
    BY <1>5, <2>1 DEF Parse, Goto, treeVars
  <2>3. have[c] \in Payloads /\ Faithful(have[c])
    BY <1>5 DEF Parse, ReqInv, HasRequest, FaithfulInv
  <2>4. \A f \in Files :
            f \in changed[c] \/ f \in moved[c] \/ tree[f] = have[c].snap[f]
    BY <1>5 DEF Parse, MakingInv, ParseOf
  <2>5. \A f \in Files :
            UpToDate(Built(have[c], due, left), moved[c] \ due, f)
    <3>1. moved[c] \in SUBSET Files
      OBVIOUS
    <3>2. QED
      BY <2>3, <2>4, <3>1, BuiltAgrees
  <2> HIDE DEF due
  <2>6. WriteOf(c)' /\ ParseOf(c)'
    BY <2>2, <2>5 DEF WriteOf, ParseOf, UpToDate
  <2>7. CallStep(c)
    BY <1>5 DEF CallStep
  <2>8. QED
    BY <1>1, <2>6, <2>7
<1>6. ASSUME NEW c \in Calls, Begin(c) PROVE MakingInv'
  <2>1. pc'[c] \in {"refresh", "lock", "load"}
    BY <1>6, BeginRequest DEF Begin, Goto
  <2>2. QED
    BY <1>2, <1>6, <2>1 DEF CallStep
<1>7. ASSUME NEW c \in Calls,
             OpenWrite(c) \/ Enter(c) \/ Unlink(c) \/ UnlinkFails(c)
      PROVE  MakingInv'
  <2>1. pc'[c] \in {"lock", "prune"}
    BY <1>7 DEF OpenWrite, Enter, Unlink, UnlinkFails, Goto
  <2>2. QED
    BY <1>2, <1>7, <2>1 DEF CallStep
<1>8. ASSUME NEW c \in Calls,
             \/ WriteIndex(c) \/ LockFails(c) \/ Crash(c)
             \/ RemovalFails(c) \/ RefreshMissing(c) \/ Answer(c)
      PROVE  MakingInv'
  <2>1. pc'[c] \in {"served", "done"}
    BY <1>8 DEF WriteIndex, LockFails, Crash, RemovalFails, RefreshMissing,
       Answer, End, Goto
  <2>2. QED
    BY <1>2, <1>8, <2>1 DEF CallStep
<1>9. ASSUME NEW c \in Calls,
             \/ RefreshWrite(c) \/ RefreshPut(c) \/ RefreshList(c)
             \/ LoadHit(c) \/ LoadMiss(c) \/ Read(c) \/ Fill(c)
             \/ Missing(c) \/ Stale(c)
      PROVE  MakingInv'
  <2>1. pc'[c] \in {"put", "lock", "load", "done", "check", "read", "fill",
                    "refresh"}
    BY <1>9 DEF RefreshWrite, RefreshPut, RefreshList, LoadHit, LoadMiss, Read,
       Fill, Missing, Stale, Retry, End, Goto
  <2>2. QED
    BY <1>2, <1>9, <2>1 DEF CallStep
<1>10. ASSUME NEW f \in Files, Change(f) PROVE MakingInv'
  <2>1. \A g \in Files \ {f} : tree'[g] = tree[g]
    BY <1>10 DEF Change
  <2>2. \A c \in Calls :
            pc[c] \in {"parse", "write"} => moved'[c] = moved[c] \cup {f}
    BY <1>10 DEF Change
  <2>3. UNCHANGED <<pc, have, changed>>
    BY <1>10 DEF Change
  <2>4. ASSUME NEW c \in Calls PROVE ParseOf(c)' /\ WriteOf(c)'
    BY <2>1, <2>2, <2>3 DEF MakingInv, ParseOf, WriteOf, UpToDate
  <2>5. QED
    BY <2>4 DEF MakingInv
<1>11. ASSUME NEW s \in Calls, Displace(s) PROVE MakingInv'
  BY <1>11 DEF Displace, MakingInv, ParseOf, WriteOf, UpToDate, treeVars,
            workVars
<1>12. CASE UNCHANGED vars
  BY <1>12 DEF vars, MakingInv, ParseOf, WriteOf, UpToDate
<1>13. QED
  BY <1>3, <1>4, <1>5, <1>6, <1>7, <1>8, <1>9, <1>10, <1>11, <1>12
     DEF Next, CallStep

LEMMA MapInvariant == Spec => []MapInv
<1>1. Init => MapInv
  BY DEF Init, MapInv, FaithfulInv, MakingInv, ParseOf, WriteOf
<1>2. IInv /\ MapInv /\ [Next]_vars => MapInv'
  BY FaithfulStep, MakingStep DEF IInv, MapInv
<1>3. QED
  BY <1>1, <1>2, Invariant, PTL DEF Spec

\* Only Answer serves a request, and it has found the snapshot fresh.
LEMMA AnswerStep ==
    ASSUME Types, ReqInv, FaithfulInv, [Next]_vars,
           NEW c \in Calls, pc[c] = "check", pc'[c] = "served",
           NEW f \in Files
    PROVE  \/ have[c].map[f] = tree[f]
           \/ f \in have[c].torn
           \/ have[c].snap[f] = 0 /\ ~req[c].onStale
           \/ have[c].snap = Nothing
<1> DEFINE p == have[c]
<1>1. Answer(c)
  <2>1. ASSUME NEW d \in Calls, CallStep(d) PROVE d = c
    BY <2>1, OthersStay
  <2>2. CallStep(c)
    BY <2>1, OutsideStays DEF Next
  <2>3. Stale(c) \/ Answer(c)
    BY <2>2 DEF CallStep, OpenBuild, OpenWrite, Begin, LockFails, Crash, Enter,
              Unlink, UnlinkFails, RemovalFails, WriteIndex, RefreshRead,
              RefreshMissing, Parse, RefreshWrite, RefreshPut, RefreshList,
              LoadHit, LoadMiss, Read, Fill, Missing
  <2>4. ~Stale(c)
    BY DEF Stale, Retry, End, Goto, Types
  <2>5. QED
    BY <2>3, <2>4
<1>2. ~IsStale(p, req[c].onStale)
  BY <1>1 DEF Answer
<1>3. p \in Payloads /\ Faithful(p)
  BY DEF ReqInv, HasRequest, FaithfulInv
<1> HIDE DEF p
<1>4. CASE Tracked(p) = {}
  <2>1. \A g \in Files : p.snap[g] = 0
    BY <1>4 DEF Tracked
  <2>2. p.snap \in [Files -> Revisions]
    BY <1>3 DEF Payloads
  <2>3. p.snap = Nothing
    BY <2>1, <2>2 DEF Nothing
  <2>4. QED
    BY <2>3 DEF p
<1>5. CASE Changes(p, req[c].onStale) = {}
  <2>1. CASE p.snap[f] # 0
    <3>1. tree[f] = p.snap[f]
      BY <1>5, <2>1 DEF Changes, Tracked
    <3>2. QED
      BY <1>3, <3>1 DEF Faithful, p
  <2>2. CASE p.snap[f] = 0 /\ req[c].onStale
    <3>1. tree[f] = 0
      BY <1>5, <2>2 DEF Changes, Tracked, Present
    <3>2. QED
      BY <1>3, <2>2, <3>1 DEF Faithful, p
  <2>3. QED
    BY <2>1, <2>2 DEF p
<1>6. QED
  BY <1>2, <1>4, <1>5 DEF IsStale

\* A request is answered from a map that agrees with the files the check looked
\* at, whoever has written the payload and the cache since the map was made.
\* (_SessionServeCache, _ensure_session_not_stale, refresh_session)
THEOREM AnswersHold == Spec => AnswersAreCurrent
<1>1. IInv /\ MapInv /\ [Next]_vars =>
        [\A c \in Calls : pc[c] = "check" /\ pc'[c] = "served" =>
           \A f \in Files :
               \/ have[c].map[f] = tree[f]
               \/ f \in have[c].torn
               \/ have[c].snap[f] = 0 /\ ~req[c].onStale
               \/ have[c].snap = Nothing]_vars
  BY AnswerStep DEF IInv, MapInv
<1>2. QED
  BY <1>1, Invariant, MapInvariant, PTL DEF Spec, AnswersAreCurrent
=============================================================================
