------------------------------- MODULE Ledger -------------------------------
(***************************************************************************)
(* The advisory ledger agents of one repository share, cli/ledger_store.py *)
(* under .tensor-grep/ledger/: an index of claims, an index of findings    *)
(* and the findings' artifacts, one blob file per distinct content.        *)
(*                                                                         *)
(* Every call stamps itself with the time before it waits for index_lock;  *)
(* claims and findings have a lock each.  A section that writes one file   *)
(* is one step.  The section of record_finding writes a blob, the index    *)
(* and unlinks orphans, and find_findings reads without the lock, so there *)
(* every file operation is a step.  A call stands for the record it makes. *)
(***************************************************************************)
EXTENDS Integers, FiniteSets

CONSTANTS
    Calls,        \* slots for calls of the five commands, used once each
    Agents,       \* agent ids
    Anonymous,    \* _DEFAULT_AGENT_ID, the id of callers without one
    Topics,       \* symbols a claim may name; files overlap alike
    Artifacts,    \* distinct artifact contents, each as large as admitted
    Inflated,     \* those that serialise to more than the bound they are read
                  \* with, and count for two: a blob is written with indents
    TTLs,         \* lifetimes a caller may ask for
    ClaimCap,     \* _MAX_LIVE_CLAIMS
    FindingCap,   \* _MAX_LIVE_FINDINGS
    ByteCap,      \* the byte cap, in artifacts
    Commands,     \* the commands agents run
    Faults,       \* the failures the environment may inject
    None          \* no call, no request

CommandNames == {"claim", "release", "record", "find"}
FaultKinds == {"lock", "index", "crash", "unlink", "damage", "read"}

ASSUME AnonymousAssumption == Anonymous \in Agents
ASSUME NoneAssumption == None \notin Calls
ASSUME FiniteAssumption == IsFiniteSet(Calls)
ASSUME InflatedAssumption == Inflated \subseteq Artifacts
ASSUME TTLAssumption == TTLs \subseteq Nat \ {0}

\* The byte cap is floored at the size of the largest admitted artifact, not
\* at that of the largest blob.
ASSUME CapAssumption ==
    ClaimCap \in Nat \ {0} /\ FindingCap \in Nat \ {0} /\ ByteCap \in Nat \ {0}

ASSUME CommandAssumption == Commands \subseteq CommandNames
ASSUME FaultAssumption == Faults \subseteq FaultKinds

VARIABLES
    clock,        \* moves with the calls: only they compare times
    claims,       \* the claims index, a set: only created_at orders it
    findings,     \* the findings index
    blob,         \* the blob file of each artifact
    lock,         \* the record call inside the findings lock, or None
    pc,           \* where each call stands
    req,          \* what each call asks for
    stamp,        \* when it was asked: created_at of the record it makes
    overlaps,     \* the claims a claim call reported as overlapping its own
    todo,         \* blobs a record call has yet to unlink
    reading,      \* findings a find call has yet to verify
    claimed,      \* history: claims that have been in the index
    recorded,     \* history: findings that have been in the index
    released,     \* history: claims released by somebody entitled to it
    leaked,       \* history: blobs a failed collection left behind
    misread       \* history: finds that could not read a blob that was there

callVars == <<pc, req, stamp>>
findVars == <<reading, misread>>
claimVars == <<claims, overlaps, claimed, released>>
findingVars == <<findings, blob, lock, todo, recorded, leaked>>
vars == <<clock, claims, findings, blob, lock, pc, req, stamp, overlaps, todo,
          reading, claimed, recorded, released, leaked, misread>>

ClaimRequests ==
    [cmd : {"claim"}, agent : Agents, topics : SUBSET Topics \ {{}}, ttl : TTLs]
RecordRequests == [cmd : {"record"}, artifact : Artifacts, ttl : TTLs]
ReleaseById == [cmd : {"release"}, id : Calls]
ReleaseByTopic == [cmd : {"release"}, agent : Agents, topic : Topics]
FindRequests == [cmd : {"find"}]

Requests == ClaimRequests \cup RecordRequests \cup ReleaseById
                \cup ReleaseByTopic \cup FindRequests

TypeOK ==
    /\ clock \in 0..Cardinality(Calls)
    /\ claims \subseteq Calls /\ findings \subseteq Calls
    /\ blob \in [Artifacts -> {"none", "good", "large", "bad"}]
    /\ lock \in Calls \cup {None}
    /\ pc \in [Calls -> {"new", "called", "stored", "collect", "verify",
                         "done"}]
    /\ req \in [Calls -> Requests \cup {None}]
    /\ stamp \in [Calls -> 0..Cardinality(Calls)]
    /\ overlaps \in [Calls -> SUBSET Calls]
    /\ todo \in [Calls -> SUBSET Artifacts]
    /\ reading \in [Calls -> SUBSET Calls]
    /\ claimed \subseteq Calls /\ recorded \subseteq Calls
    /\ released \subseteq Calls
    /\ leaked \subseteq Artifacts /\ misread \subseteq Calls
    \* A call is in the section exactly while it holds the lock.
    /\ \A c \in Calls : pc[c] \in {"stored", "collect"} <=> lock = c

Init ==
    /\ clock = 0
    /\ claims = {} /\ findings = {}
    /\ blob = [a \in Artifacts |-> "none"]
    /\ lock = None
    /\ pc = [c \in Calls |-> "new"]
    /\ req = [c \in Calls |-> None]
    /\ stamp = [c \in Calls |-> 0]
    /\ overlaps = [c \in Calls |-> {}]
    /\ todo = [c \in Calls |-> {}]
    /\ reading = [c \in Calls |-> {}]
    /\ claimed = {} /\ recorded = {} /\ released = {} /\ leaked = {}
    /\ misread = {}

-----------------------------------------------------------------------------
(* Helpers of the actions *)

Goto(c, s) == pc' = [pc EXCEPT ![c] = s]

Cmd(c) == req[c].cmd

\* A call that made no record is over: its arguments do not matter any more.
End(c) ==
    /\ Goto(c, "done")
    /\ req' = [req EXCEPT ![c] = None]
    /\ stamp' = [stamp EXCEPT ![c] = 0]

\* Mutant: off by one.
LiveBeyondNext(records, now) ==
    {d \in records : stamp[d] + req[d].ttl > now + 1}

\* _prune_expired: what has not expired by the caller's own time.
Live(records, now) == {d \in records : stamp[d] + req[d].ttl > now}

\* Mutant: eviction drops the newest records.
OldestOf(records, cap) ==
    {d \in records : Cardinality({e \in records : stamp[e] < stamp[d]}) < cap}

\* _evict_oldest_over_cap: the cap newest records by created_at.
NewestOf(records, cap) ==
    {d \in records : Cardinality({e \in records : stamp[e] > stamp[d]}) < cap}

ArtifactsOf(records) == {req[d].artifact : d \in records}

\* Sizes of distinct blobs, in artifacts as large as admitted.
Bytes(blobs) == Cardinality(blobs) + Cardinality(blobs \cap Inflated)

\* _distinct_blob_bytes: a shared blob counts once, a missing one not at all.
BlobBytes(records, disk) ==
    Bytes({a \in ArtifactsOf(records) : disk[a] # "none"})

\* The byte loop of _evict_findings_over_cap pops the oldest until the rest
\* fits: what is left are the records whose newer peers fit with them.
Fitting(records, disk) ==
    {d \in records :
        BlobBytes({e \in records : stamp[e] >= stamp[d]}, disk) =< ByteCap}

\* agent_id equality as identity: the default id is the absence of one.
SameAgent(a, b) == a = b /\ a # Anonymous

\* Mutant: the sentinel counts as an identity (#845).
OverlapsNamed(c, records) ==
    {d \in records : /\ req[d].agent # req[c].agent
                     /\ req[d].topics \cap req[c].topics # {}}

\* _find_overlaps.
Overlapping(c, records) ==
    {d \in records : /\ ~SameAgent(req[c].agent, req[d].agent)
                     /\ req[d].topics \cap req[c].topics # {}}

\* Mutant: two callers without an id own each other's claims.
MatchesAnyone(c, d) ==
    IF "id" \in DOMAIN req[c]
    THEN d = req[c].id
    ELSE req[d].agent = req[c].agent /\ req[c].topic \in req[d].topics

\* The match of release_claim: by the opaque id, or by a symbol among the
\* claims of the caller's own, real identity.
Matches(c, d) ==
    IF "id" \in DOMAIN req[c]
    THEN d = req[c].id
    ELSE SameAgent(req[d].agent, req[c].agent) /\ req[c].topic \in req[d].topics

\* Who may take a claim away: whoever knows its opaque id, and its own agent.
Entitled(c, d) == "id" \in DOMAIN req[c] \/ SameAgent(req[c].agent, req[d].agent)

-----------------------------------------------------------------------------
(* Every call *)

\* The arguments are resolved and the time is taken, one moment per call.
Begin(c) ==
    /\ pc[c] = "new"
    /\ \E r \in {q \in Requests : q.cmd \in Commands} :
         /\ "id" \in DOMAIN r => r.id \in claimed
         /\ req' = [req EXCEPT ![c] = r]
    /\ clock' = clock + 1
    /\ stamp' = [stamp EXCEPT ![c] = clock']
    /\ Goto(c, "called")
    /\ UNCHANGED <<claimVars, findingVars, findVars>>

\* IndexLockTimeoutError, or the index cannot be read, or the blob not written.
LockFails(c) ==
    /\ "lock" \in Faults
    /\ pc[c] = "called" /\ Cmd(c) # "find"
    /\ End(c)
    /\ UNCHANGED <<clock, claimVars, findingVars, findVars>>

-----------------------------------------------------------------------------
(* Claims *)

\* The section of submit_claim: prune, look for overlaps, append, evict.
Submit(c) ==
    /\ pc[c] = "called" /\ Cmd(c) = "claim"
    /\ LET live == Live(claims, stamp[c]) IN
         /\ overlaps' = [overlaps EXCEPT ![c] = Overlapping(c, live)]
         /\ claims' = NewestOf(live \cup {c}, ClaimCap)
    /\ claimed' = claimed \cup {c}
    /\ Goto(c, "done")
    /\ UNCHANGED <<clock, req, stamp, released, findingVars, findVars>>

\* The section of release_claim; without an index there is nothing to do.
Release(c) ==
    /\ pc[c] = "called" /\ Cmd(c) = "release"
    /\ LET live == Live(claims, stamp[c])
           matching == {d \in live : Matches(c, d)}
       IN  /\ claims' = live \ matching
           /\ released' = released \cup {d \in matching : Entitled(c, d)}
    /\ End(c)
    /\ UNCHANGED <<clock, overlaps, claimed, findingVars, findVars>>

-----------------------------------------------------------------------------
(* record_finding *)

\* Mutant: the blob is not looked at before it is referenced.
KeepBlob(c) ==
    /\ pc[c] = "called" /\ Cmd(c) = "record" /\ lock = None
    /\ lock' = c
    /\ Goto(c, "stored")
    /\ UNCHANGED <<clock, req, stamp, claimVars, findings, blob, todo, recorded,
                   leaked, findVars>>

\* atomic_write_json of an artifact.
Stored(a) == IF a \in Inflated THEN "large" ELSE "good"

\* The lock is taken and the blob is written unless a file is there already,
\* whatever it contains.
StoreBlob(c) ==
    /\ pc[c] = "called" /\ Cmd(c) = "record" /\ lock = None
    /\ lock' = c
    /\ LET a == req[c].artifact IN
         IF blob[a] = "none" THEN blob' = [blob EXCEPT ![a] = Stored(a)]
                             ELSE UNCHANGED blob
    /\ Goto(c, "stored")
    /\ UNCHANGED <<clock, req, stamp, claimVars, findings, todo, recorded,
                   leaked, findVars>>

\* The index call c is about to write.
NextFindings(c) ==
    Fitting(NewestOf(Live(findings, stamp[c]) \cup {c}, FindingCap), blob)

OnDisk == {a \in Artifacts : blob[a] # "none"}

\* Mutant: a blob goes as soon as one of the findings on it goes.
OrphansOfDropped(kept) == OnDisk \cap ArtifactsOf(findings \ kept)

\* What _gc_orphaned_blobs will unlink once kept has been written.
Orphans(kept) == OnDisk \ ArtifactsOf(kept)

\* Mutant: the lock is let go before the orphans are collected.
WriteIndexUnlocked(c) ==
    /\ pc[c] = "stored"
    /\ findings' = NextFindings(c)
    /\ todo' = [todo EXCEPT ![c] = Orphans(NextFindings(c))]
    /\ leaked' = {}
    /\ lock' = None
    /\ recorded' = recorded \cup {c}
    /\ Goto(c, "collect")
    /\ UNCHANGED <<clock, req, stamp, claimVars, blob, findVars>>

\* The index is pruned, appended to, evicted and written; the orphans of the
\* set just written are listed.
WriteIndex(c) ==
    /\ pc[c] = "stored"
    /\ findings' = NextFindings(c)
    /\ todo' = [todo EXCEPT ![c] = Orphans(NextFindings(c))]
    /\ leaked' = {}
    /\ recorded' = recorded \cup {c}
    /\ Goto(c, "collect")
    /\ UNCHANGED <<clock, req, stamp, claimVars, blob, lock, findVars>>

\* The blob write or the index write raises; a blob just written stays.
WriteFails(c) ==
    /\ "index" \in Faults
    /\ pc[c] = "stored"
    /\ leaked' = Orphans(findings)
    /\ lock' = None
    /\ End(c)
    /\ UNCHANGED <<clock, claimVars, findings, blob, todo, recorded,
                   findVars>>

\* One orphan is unlinked.
Collect(c) ==
    /\ pc[c] = "collect"
    /\ \E a \in todo[c] :
         /\ blob' = [blob EXCEPT ![a] = "none"]
         /\ todo' = [todo EXCEPT ![c] = @ \ {a}]
    /\ UNCHANGED <<clock, callVars, claimVars, findings, lock, recorded, leaked,
                   findVars>>

\* ... or its unlink raises OSError, which is swallowed.
CollectFails(c) ==
    /\ "unlink" \in Faults
    /\ pc[c] = "collect"
    /\ \E a \in todo[c] :
         /\ leaked' = leaked \cup {a}
         /\ todo' = [todo EXCEPT ![c] = @ \ {a}]
    /\ UNCHANGED <<clock, callVars, claimVars, findings, blob, lock, recorded,
                   findVars>>

\* The lock is released and the record is reported as made.
Return(c) ==
    /\ pc[c] = "collect" /\ todo[c] = {}
    /\ lock' = None
    /\ Goto(c, "done")
    /\ UNCHANGED <<clock, req, stamp, claimVars, findings, blob, todo, recorded,
                   leaked, findVars>>

\* The process dies in the section.  Its lock file goes stale and is reclaimed.
Crash(c) ==
    /\ "crash" \in Faults
    /\ lock = c
    /\ lock' = None
    /\ todo' = [todo EXCEPT ![c] = {}]
    /\ leaked' = Orphans(findings)
    /\ IF pc[c] = "stored" THEN End(c)
       ELSE Goto(c, "done") /\ UNCHANGED <<req, stamp>>
    /\ UNCHANGED <<clock, claimVars, findings, blob, recorded,
                   findVars>>

\* Something else on the machine spoils a blob file.
Damage(a) ==
    /\ "damage" \in Faults
    /\ blob[a] = Stored(a)
    /\ blob' = [blob EXCEPT ![a] = "bad"]
    /\ UNCHANGED <<clock, callVars, claimVars, findings, lock, todo, recorded,
                   leaked, findVars>>

-----------------------------------------------------------------------------
(* find_findings: no lock is taken *)

\* The index is read and expired findings are left out.
ReadIndex(c) ==
    /\ pc[c] = "called" /\ Cmd(c) = "find"
    /\ reading' = [reading EXCEPT ![c] = Live(findings, stamp[c])]
    /\ Goto(c, "verify")
    /\ UNCHANGED <<clock, req, stamp, claimVars, findingVars, misread>>

\* The blob of a finding is read back and its digest is compared.
Verify(c) ==
    /\ pc[c] = "verify"
    /\ \E d \in reading[c] :
         /\ blob[req[d].artifact] = "good"
         /\ reading' = [reading EXCEPT ![c] = @ \ {d}]
    /\ UNCHANGED <<clock, callVars, claimVars, findingVars, misread>>

\* LedgerIntegrityError: the blob is missing, larger than the bound it is read
\* with, or damaged.
Refuse(c) ==
    /\ pc[c] = "verify"
    /\ \E d \in reading[c] : blob[req[d].artifact] # "good"
    /\ reading' = [reading EXCEPT ![c] = {}]
    /\ End(c)
    /\ UNCHANGED <<clock, claimVars, findingVars, misread>>

\* ... or is there and could not be opened or read.
ReadFails(c) ==
    /\ "read" \in Faults
    /\ pc[c] = "verify"
    /\ \E d \in reading[c] : blob[req[d].artifact] # "none"
    /\ reading' = [reading EXCEPT ![c] = {}]
    /\ misread' = misread \cup {c}
    /\ End(c)
    /\ UNCHANGED <<clock, claimVars, findingVars>>

Serve(c) ==
    /\ pc[c] = "verify" /\ reading[c] = {}
    /\ End(c)
    /\ UNCHANGED <<clock, claimVars, findingVars, findVars>>

-----------------------------------------------------------------------------

CallStep(c) ==
    \/ Begin(c) \/ LockFails(c) \/ Submit(c) \/ Release(c)
    \/ StoreBlob(c) \/ WriteIndex(c) \/ WriteFails(c)
    \/ Collect(c) \/ CollectFails(c) \/ Return(c) \/ Crash(c)
    \/ ReadIndex(c) \/ Verify(c) \/ Refuse(c) \/ ReadFails(c) \/ Serve(c)

Next ==
    \/ \E c \in Calls : CallStep(c)
    \/ \E a \in Artifacts : Damage(a)

Spec == Init /\ [][Next]_vars

-----------------------------------------------------------------------------
(* Properties *)

\* Agents see each other: of two claims in the index that overlap and are not
\* one agent's own, one was reported to the call that made the other, also
\* when neither caller has an id.  (_find_overlaps, #845)
OverlapIsReported ==
    \A c, d \in claims :
        /\ c # d /\ ~SameAgent(req[c].agent, req[d].agent)
        /\ req[c].topics \cap req[d].topics # {}
        => c \in overlaps[d] \/ d \in overlaps[c]

Expired(d) == stamp[d] + req[d].ttl =< clock

\* A claim leaves the index only when it has expired, when somebody entitled
\* released it, or when ClaimCap newer ones were made: no lost update, and no
\* release of another agent's claim by a common symbol.
ClaimsLeaveOnlyWhenDue ==
    \A d \in claimed \ claims :
        \/ Expired(d)
        \/ d \in released
        \/ Cardinality({e \in claimed : stamp[e] > stamp[d]}) >= ClaimCap

\* The same for findings, which leave by age, count or bytes.
FindingsLeaveOnlyWhenDue ==
    \A d \in recorded \ findings :
        \/ Expired(d)
        \/ Cardinality({e \in recorded : stamp[e] > stamp[d]}) >= FindingCap
        \/ Bytes(ArtifactsOf({e \in recorded : stamp[e] >= stamp[d]})) > ByteCap

\* At every moment, inside the locked section and after a crash too, each
\* finding a lock-free reader can see in the index has its blob on disk.
ListedHaveBlobs == \A d \in findings : blob[req[d].artifact] # "none"

\* Disk use is bounded: a blob nobody references belongs to the call in the
\* section, or is one that the next record will collect.
NoBlobIsForgotten ==
    \A a \in OnDisk :
        \/ a \in ArtifactsOf(findings) \/ a \in leaked
        \/ lock # None /\ (a = req[lock].artifact \/ a \in todo[lock])

\* A find raises an integrity error only when a blob is damaged, grew beyond
\* the bound as it was written, or could not be read, or when a finding has
\* left the index since the find read it: never because a record in progress
\* has unlinked, or not yet written, the blob of a finding that is listed.
AlarmIsHonest ==
    [][\A c \in Calls : pc[c] = "verify" /\ pc'[c] = "done" /\ reading[c] # {} =>
           \E d \in reading[c] :
               \/ blob[req[d].artifact] \in {"bad", "large"}
               \/ d \notin findings \/ c \in misread']_vars
=============================================================================
