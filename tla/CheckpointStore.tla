-------------------------- MODULE CheckpointStore --------------------------
(***************************************************************************)
(* The on-disk checkpoint store of one root, .tensor-grep/checkpoints/:    *)
(* index.json and one directory per checkpoint (metadata.json and a copy   *)
(* of the files).  cli/checkpoint_store.py, cli/checkpoint_retention.py.   *)
(*                                                                         *)
(* Creators run create_checkpoint; each call makes one checkpoint, and the *)
(* call stands for its id.  Scanners run the discovery that rebuilds the   *)
(* index from the metadata files.  A section under index_lock is one step: *)
(* it is exclusive (module IndexLock), and all it shares with others is    *)
(* index.json, which is replaced atomically.                               *)
(***************************************************************************)
EXTENDS Integers, Sequences, FiniteSets, Functions

CONSTANTS
    Creators,     \* calls of create_checkpoint, each naming its checkpoint
    Scanners,     \* processes that run checkpoint discovery
    FullScanners, \* those that run it with --full
    Cap,           \* TG_CHECKPOINT_MAX, the retention cap
    Faults        \* the failures the environment may inject

FaultKinds == {"copy", "index", "crash", "remove"}

ASSUME FiniteAssumption == IsFiniteSet(Creators)
ASSUME CapAssumption == Cap \in Nat \ {0}
ASSUME ScannerAssumption == FullScanners \subseteq Scanners
ASSUME FaultAssumption == Faults \subseteq FaultKinds

VARIABLES
    exists,     \* index.json is on disk
    index,      \* its records, in file order
    dir,        \* the state of each checkpoint's directory
    stamp,      \* created_at, as a rank; 0 before the call stamps it
    pc,         \* where each call stands
    todo,       \* the dropped directories a call has yet to remove
    seen,       \* the records a scanner has read from the metadata files
    indexed,    \* history: checkpoints some index has listed
    stranded,   \* history: directories whose removal was cut short
    revived,    \* history: checkpoints that a rebuild has listed
    calm,       \* history: no call has run since this scanner began to read
    raced       \* history: some rebuild overlapped a call

storeVars == <<exists, index>>
historyVars == <<indexed, stranded, revived, calm, raced>>
vars == <<exists, index, dir, stamp, pc, todo, seen,
          indexed, stranded, revived, calm, raced>>

\* "part" is a directory without metadata, the copy or the removal of which has
\* not ended; "gutted" is a removal that has spared the metadata file so far.
DirStates == {"none", "part", "full", "gutted"}

Active(c) == pc[c] \in {"copying", "described", "failing", "pruning"}

Unread == <<"unread">>

\* Before a rebuild has raced with a create, the index lists a checkpoint once, so
\* that dropping a record never drops the directory of one that is retained.
TypeOK ==
    /\ exists \in BOOLEAN
    /\ index \in Seq(Creators) /\ (raced \/ IsInjective(index))
    /\ dir \in [Creators -> DirStates]
    /\ stamp \in [Creators -> 0..Cardinality(Creators)]
    /\ pc \in [Creators -> {"new", "copying", "described", "failing",
                            "pruning", "done", "failed", "crashed"}]
    /\ todo \in [Creators -> SUBSET Creators]
    /\ \A s \in Scanners : seen[s] = Unread \/ seen[s] \in Seq(Creators)
    /\ indexed \subseteq Creators /\ stranded \subseteq Creators
    /\ revived \subseteq Creators
    /\ calm \in [Scanners -> BOOLEAN]
    /\ raced \in BOOLEAN

Init ==
    /\ exists = FALSE /\ index = <<>>
    /\ dir = [c \in Creators |-> "none"]
    /\ stamp = [c \in Creators |-> 0]
    /\ pc = [c \in Creators |-> "new"]
    /\ todo = [c \in Creators |-> {}]
    /\ seen = [s \in Scanners |-> Unread]
    /\ indexed = {} /\ stranded = {} /\ revived = {}
    /\ calm = [s \in Scanners |-> FALSE]
    /\ raced = FALSE

-----------------------------------------------------------------------------
(* Retention *)

Newer(c, d) == stamp[c] > stamp[d]

Sorted(records) ==
    \A i, j \in DOMAIN records : i < j => ~Newer(records[j], records[i])

\* The records sorted by created_at, newest first.
NewestFirst(records) ==
    {sorted \in {[i \in DOMAIN records |-> records[p[i]]] :
                     p \in Bijection(DOMAIN records, DOMAIN records)} :
        Sorted(sorted)}

\* Mutants: the cut trusts the position in the file.
RetainedByPlace(records, sorted) ==
    IF Len(records) =< Cap THEN records ELSE [i \in 1..Cap |-> records[i]]

DroppedByPlace(records, sorted) ==
    {records[i] : i \in Cap + 1..Len(records)}

\* _select_retained_checkpoints: at or below the cap the file order stays as
\* it is; above it the newest Cap are kept, in order.
Retained(records, sorted) ==
    IF Len(records) =< Cap THEN records ELSE [i \in 1..Cap |-> sorted[i]]

Dropped(records, sorted) == {sorted[i] : i \in Cap + 1..Len(records)}

-----------------------------------------------------------------------------
(* create_checkpoint *)

NextStamp == Cardinality({c \in Creators : stamp[c] > 0}) + 1

\* A call that runs disturbs every rebuild in progress.
Disturb == calm' = [s \in Scanners |-> FALSE]

\* created_at is stamped, the entries are listed, the budget is checked, and
\* the snapshot directory is made.
Begin(c) ==
    /\ pc[c] = "new"
    /\ stamp' = [stamp EXCEPT ![c] = NextStamp]
    /\ dir' = [dir EXCEPT ![c] = "part"]
    /\ pc' = [pc EXCEPT ![c] = "copying"]
    /\ Disturb
    /\ UNCHANGED <<storeVars, todo, seen, indexed, stranded, revived, raced>>

\* The copy loop ends and metadata.json is written.
Describe(c) ==
    /\ pc[c] = "copying"
    /\ dir' = [dir EXCEPT ![c] = "full"]
    /\ pc' = [pc EXCEPT ![c] = "described"]
    /\ UNCHANGED <<storeVars, stamp, todo, seen, historyVars>>

\* Under index_lock: load, insert at the front, select, write.
Insert(c) ==
    /\ pc[c] = "described"
    /\ LET records == <<c>> \o index IN
         \E sorted \in NewestFirst(records) :
           /\ index' = Retained(records, sorted)
           /\ todo' = [todo EXCEPT ![c] = Dropped(records, sorted)]
    /\ exists' = TRUE
    /\ pc' = [pc EXCEPT ![c] = "pruning"]
    /\ indexed' = indexed \cup {c}
    /\ UNCHANGED <<dir, stamp, seen, stranded, revived, calm, raced>>

\* A copy or the metadata write raises.
CopyFails(c) ==
    /\ "copy" \in Faults
    /\ pc[c] = "copying"
    /\ pc' = [pc EXCEPT ![c] = "failing"]
    /\ UNCHANGED <<storeVars, dir, stamp, todo, seen, historyVars>>

\* Mutant: a failed index write raises past the cleanup.
IndexFailsUncleaned(c) ==
    /\ "index" \in Faults
    /\ pc[c] = "described"
    /\ pc' = [pc EXCEPT ![c] = "failed"]
    /\ UNCHANGED <<storeVars, dir, stamp, todo, seen, historyVars>>

\* IndexLockTimeoutError, or loading or writing the index raises.
IndexFails(c) ==
    /\ "index" \in Faults
    /\ pc[c] = "described"
    /\ pc' = [pc EXCEPT ![c] = "failing"]
    /\ UNCHANGED <<storeVars, dir, stamp, todo, seen, historyVars>>

\* rmtree removes the entries of a directory in no fixed order: metadata.json
\* may outlive the files, or go first.
Remains(d) ==
    CASE dir[d] = "full" -> {"gutted", "part"}
      [] dir[d] = "gutted" -> {"part"}
      [] OTHER -> {}

Gut(d) == \E left \in Remains(d) : dir' = [dir EXCEPT ![d] = left]

RemoveDir(d) == dir' = [dir EXCEPT ![d] = "none"]

\* The handler removes the call's own directory and raises again.
GutOwn(c) ==
    /\ pc[c] = "failing"
    /\ Gut(c)
    /\ UNCHANGED <<storeVars, stamp, pc, todo, seen, historyVars>>

RemoveOwn(c) ==
    /\ pc[c] = "failing"
    /\ RemoveDir(c)
    /\ pc' = [pc EXCEPT ![c] = "failed"]
    /\ UNCHANGED <<storeVars, stamp, todo, seen, historyVars>>

\* rmtree(ignore_errors=True) gives up on what it cannot remove and says
\* nothing: the call ends as if the directory were gone.
RemoveOwnFails(c) ==
    /\ "remove" \in Faults
    /\ pc[c] = "failing"
    /\ pc' = [pc EXCEPT ![c] = "failed"]
    /\ stranded' = stranded \cup {c}
    /\ UNCHANGED <<storeVars, dir, stamp, todo, seen, indexed, revived, calm,
                   raced>>

\* After the lock is released: the dropped directories are removed in turn.
GutDropped(c) ==
    /\ pc[c] = "pruning"
    /\ \E d \in todo[c] : Gut(d)
    /\ UNCHANGED <<storeVars, stamp, pc, todo, seen, historyVars>>

RemoveDropped(c) ==
    /\ pc[c] = "pruning"
    /\ \E d \in todo[c] : /\ RemoveDir(d)
                          /\ todo' = [todo EXCEPT ![c] = @ \ {d}]
    /\ UNCHANGED <<storeVars, stamp, pc, seen, historyVars>>

RemoveDroppedFails(c) ==
    /\ "remove" \in Faults
    /\ pc[c] = "pruning"
    /\ \E d \in todo[c] : /\ todo' = [todo EXCEPT ![c] = @ \ {d}]
                          /\ stranded' = stranded \cup {d}
    /\ UNCHANGED <<storeVars, dir, stamp, pc, seen, indexed, revived, calm,
                   raced>>

\* The result is returned to the caller.
Return(c) ==
    /\ pc[c] = "pruning" /\ todo[c] = {}
    /\ pc' = [pc EXCEPT ![c] = "done"]
    /\ UNCHANGED <<storeVars, dir, stamp, todo, seen, historyVars>>

\* The directories call c was removing.
Removing(c) == IF pc[c] = "failing" THEN {c} ELSE todo[c]

\* The process dies; what it had on disk stays.
Crash(c) ==
    /\ "crash" \in Faults
    /\ Active(c)
    /\ pc' = [pc EXCEPT ![c] = "crashed"]
    /\ todo' = [todo EXCEPT ![c] = {}]
    /\ stranded' = stranded \cup {d \in Removing(c) : dir[d] # "none"}
    /\ UNCHANGED <<storeVars, dir, stamp, seen, indexed, revived, calm, raced>>

-----------------------------------------------------------------------------
(* _rebuild_index_from_checkpoint_metadata *)

Described == {c \in Creators : dir[c] \in {"full", "gutted"}}

\* The records of a set of checkpoints, newest first.
Listings(described) ==
    {records \in Bijection(1..Cardinality(described), described) :
        Sorted(records)}

\* Every metadata file is read, outside the lock.  A bounded discovery does so
\* only when index.json is missing; --full does so for every root.
Scan(s) ==
    /\ seen[s] = Unread
    /\ s \in FullScanners \/ ~exists
    /\ Described # {}
    /\ \E records \in Listings(Described) : seen' = [seen EXCEPT ![s] = records]
    /\ calm' = [calm EXCEPT ![s] = \A c \in Creators : ~Active(c)]
    /\ UNCHANGED <<storeVars, dir, stamp, pc, todo, indexed, stranded, revived,
                   raced>>

\* Mutant: the records read are put before those of the index.
PublishBefore(s) ==
    /\ seen[s] # Unread
    /\ index' = seen[s] \o index
    /\ exists' = TRUE
    /\ indexed' = indexed \cup Range(seen[s])
    /\ raced' = (raced \/ ~calm[s])
    /\ revived' = revived \cup Range(seen[s])
    /\ seen' = [seen EXCEPT ![s] = Unread]
    /\ UNCHANGED <<dir, stamp, pc, todo, stranded, calm>>

\* The records read are written over the index, under the lock.
Publish(s) ==
    /\ seen[s] # Unread
    /\ index' = seen[s]
    /\ exists' = TRUE
    /\ indexed' = indexed \cup Range(seen[s])
    /\ raced' = (raced \/ ~calm[s])
    /\ revived' = revived \cup Range(seen[s])
    /\ seen' = [seen EXCEPT ![s] = Unread]
    /\ UNCHANGED <<dir, stamp, pc, todo, stranded, calm>>

-----------------------------------------------------------------------------

CreatorStep(c) ==
    \/ Begin(c) \/ Describe(c) \/ Insert(c) \/ CopyFails(c) \/ IndexFails(c)
    \/ GutOwn(c) \/ RemoveOwn(c) \/ RemoveOwnFails(c)
    \/ GutDropped(c) \/ RemoveDropped(c) \/ RemoveDroppedFails(c)
    \/ Return(c) \/ Crash(c)

Next ==
    \/ \E c \in Creators : CreatorStep(c)
    \/ \E s \in Scanners : Scan(s) \/ Publish(s)

Spec == Init /\ [][Next]_vars

-----------------------------------------------------------------------------
(* Properties *)

Listed == Range(index)

\* Every checkpoint the index lists can be restored: its directory is whole.
\* The exception is a ruin, whose removal a crash or an error of rmtree has cut
\* short: only a rebuild, which trusts metadata.json, ever lists one again.
ListedAreWhole ==
    raced \/ \A c \in Listed : dir[c] = "full" \/ c \in stranded \cap revived

\* Retention loses no checkpoint that is among the Cap newest, whatever the
\* order in which the calls got the lock.  (_select_retained_checkpoints, M8)
NewestAreKept ==
    raced \/ \A c \in indexed \ Listed :
                 Cardinality({d \in indexed : Newer(d, c)}) >= Cap

\* A failure of a create leaves nothing behind (#178): a directory belongs to
\* a listed checkpoint, to a running call that made or drops it, or to a call
\* that died; one that nobody will ever remove is left only where a crash or an
\* error of rmtree has cut its removal short.
NoDirectoryIsForgotten ==
    raced \/ \A c \in Creators : dir[c] # "none" =>
                 \/ c \in Listed \/ Active(c) \/ pc[c] = "crashed"
                 \/ c \in stranded
                 \/ \E d \in Creators : pc[d] = "pruning" /\ c \in todo[d]
=============================================================================
