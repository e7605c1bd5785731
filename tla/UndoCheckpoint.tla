-------------------------- MODULE UndoCheckpoint --------------------------
(***************************************************************************)
(* undo_checkpoint of cli/checkpoint_store.py: bringing the working tree   *)
(* back to a checkpoint, in the phases the code names.  Pre-flight reads   *)
(* only, staging copies the snapshot aside, commit mutates the tree, and a *)
(* commit that raises is reverted from the bytes saved on the way.         *)
(*                                                                         *)
(* A path holds no file (Absent) or one of a few contents.  Retention may  *)
(* remove the snapshot, and another agent may edit the tree, meanwhile.    *)
(***************************************************************************)

CONSTANTS
    Files,      \* paths of the checkpoint's scope
    Faults      \* the failures the environment may inject

FaultKinds == {"unreadable", "unlink", "copy", "torn", "revert",
               "interrupt", "lost", "edit", "undated", "stat"}

ASSUME FaultAssumption == Faults \subseteq FaultKinds

\* "old" is what the snapshot holds, "new" what the user wrote since, "edit"
\* what another agent writes during the undo, "torn" half a copy.
Absent == "absent"
Contents == {"old", "new", "edit", "torn"}
NotSaved == "not saved"

VARIABLES
    scope,      \* "file" or "tree": metadata["scope"]
    entries,    \* what the metadata records of each path
    sources,    \* the snapshot files still on disk
    tree,       \* the working tree
    newer,      \* paths whose mtime is later than created_at
    phase,
    extras,     \* paths in the tree and not in the metadata, when scanned
    staged,     \* paths copied to the staging directory
    handled,    \* paths the commit phase is done with
    saved,      \* bytes saved for the revert
    dated,      \* the metadata's created_at can be parsed
    diverged,   \* the result's diverged_paths
    unchecked,  \* the result's divergence_unchecked_paths
    start,      \* history: the tree the undo began with
    hit         \* history: paths torn, not restored by a revert, or edited

inputs == <<scope, entries, dated, start>>
reported == <<diverged, unchecked>>
vars == <<scope, entries, sources, tree, newer, phase, extras, staged,
          handled, saved, dated, diverged, unchecked, start, hit>>

Recorded == {f \in Files : entries[f] # "unrecorded"}
ToRestore == {f \in Files : entries[f] = "present"}
ToDelete == {f \in Files : entries[f] = "deleted"}

Phases == {"preflight", "staging", "removing", "deleting", "swapping",
           "reverting", "done", "aborted", "interrupted"}
CommitPhases == {"removing", "deleting", "swapping"}

TypeOK ==
    /\ scope \in {"file", "tree"}
    /\ entries \in [Files -> {"present", "deleted", "unrecorded"}]
    /\ sources \subseteq Files
    /\ tree \in [Files -> Contents \cup {Absent}]
    /\ newer \subseteq Files
    /\ phase \in Phases
    /\ extras \subseteq Files /\ staged \subseteq Files
    /\ handled \subseteq Files
    /\ dated \in BOOLEAN
    /\ diverged \subseteq Files /\ unchecked \subseteq Files
    /\ saved \in [Files -> Contents \cup {NotSaved}]
    /\ start \in [Files -> Contents \cup {Absent}]
    /\ hit \subseteq Files

\* Any checkpoint, of one path or of the tree, and any tree to undo; what the
\* user changed since is newer.
Init ==
    /\ scope \in {"file", "tree"}
    /\ entries \in [Files -> {"present", "deleted", "unrecorded"}]
    /\ scope = "file" => \E f \in Files : Recorded = {f}
    /\ tree \in [Files -> {"old", "new", Absent}]
    /\ start = tree
    /\ newer = {f \in Files : tree[f] = "new"}
    /\ sources = ToRestore
    /\ phase = "preflight"
    /\ extras = {} /\ staged = {} /\ handled = {}
    /\ dated \in IF "undated" \in Faults THEN BOOLEAN ELSE {TRUE}
    /\ diverged = {} /\ unchecked = {}
    /\ hit = {}
    /\ saved = [f \in Files |-> NotSaved]

-----------------------------------------------------------------------------
(* Pre-flight and staging: nothing in the tree is touched *)

\* Mutant: only the files that will be restored are looked at.
ModifiedRestored(paths) ==
    {f \in paths \cap ToRestore : tree[f] # Absent /\ f \in newer}

\* The paths whose mtime is later than the checkpoint's.
ModifiedSince(paths) == {f \in paths : tree[f] # Absent /\ f \in newer}

\* _paths_modified_since_checkpoint, of the recorded paths: without a date it
\* says nothing, and the paths it cannot stat are reported apart.
Sample ==
    \E hidden \in SUBSET Recorded :
        /\ hidden # {} => dated /\ "stat" \in Faults
        /\ diverged' = IF dated THEN ModifiedSince(Recorded \ hidden) ELSE {}
        /\ unchecked' = hidden

\* Mutant: the tree is scanned for a checkpoint of a single file too.
PreflightOfTree ==
    /\ phase = "preflight"
    /\ ToRestore \subseteq sources
    /\ phase' = "staging"
    /\ Sample
    /\ extras' = {f \in Files : tree[f] # Absent} \ Recorded
    /\ UNCHANGED <<inputs, hit, sources, tree, newer, staged, handled, saved>>

\* Divergence is sampled, every source is verified, and the tree is scanned
\* unless the checkpoint is of a single file.
Preflight ==
    /\ phase = "preflight"
    /\ ToRestore \subseteq sources
    /\ phase' = "staging"
    /\ Sample
    /\ extras' = IF scope = "file" THEN {}
                 ELSE {f \in Files : tree[f] # Absent} \ Recorded
    /\ UNCHANGED <<inputs, hit, sources, tree, newer, staged, handled, saved>>

\* CheckpointCorruptError: no working-tree file was modified.
PreflightFails ==
    /\ phase = "preflight"
    /\ ~(ToRestore \subseteq sources)
    /\ phase' = "aborted"
    /\ UNCHANGED <<inputs, hit, sources, tree, newer, extras, staged, handled,
                   saved, reported>>

Stage(f) ==
    /\ phase = "staging" /\ f \in (ToRestore \cap sources) \ staged
    /\ staged' = staged \cup {f}
    /\ UNCHANGED <<inputs, hit, sources, tree, newer, phase, extras, handled,
                   saved, reported>>

\* A source verified before is gone now: copy2 raises, staging is cleaned up.
StageFails ==
    /\ phase = "staging"
    /\ ~(ToRestore \subseteq (sources \cup staged))
    /\ phase' = "aborted"
    /\ UNCHANGED <<inputs, hit, sources, tree, newer, extras, staged, handled,
                   saved, reported>>

\* Mutant: the commit begins while copies are still missing.
StagingCutShort ==
    /\ phase = "staging"
    /\ phase' = "removing"
    /\ UNCHANGED <<inputs, hit, sources, tree, newer, extras, staged, handled,
                   saved, reported>>

StagingEnds ==
    /\ phase = "staging" /\ staged = ToRestore
    /\ phase' = "removing"
    /\ UNCHANGED <<inputs, hit, sources, tree, newer, extras, staged, handled,
                   saved, reported>>

-----------------------------------------------------------------------------
(* Commit *)

\* The paths each loop of the commit phase goes through.
Work == CASE phase = "removing" -> extras
          [] phase = "deleting" -> ToDelete
          [] phase = "swapping" -> staged
          [] OTHER -> {}

Left == Work \ handled

NextPhase == CASE phase = "removing" -> "deleting"
               [] phase = "deleting" -> "swapping"
               [] phase = "swapping" -> "done"

\* Mutant: nothing tells a path that had no file from one that had.
SaveAlways(f) == tree[f]

\* What the revert will put back at f.
Save(f) == IF tree[f] = Absent THEN NotSaved ELSE tree[f]

\* Mutant: the path is remembered without its bytes.
RemoveUnsaved(f) ==
    /\ phase \in {"removing", "deleting"} /\ f \in Left
    /\ tree' = [tree EXCEPT ![f] = Absent]
    /\ handled' = handled \cup {f}
    /\ UNCHANGED <<inputs, hit, sources, newer, phase, extras, staged, saved,
                   reported>>

\* Read the bytes, unlink the file, remember the bytes; or find no file.
RemoveFile(f) ==
    /\ phase \in {"removing", "deleting"} /\ f \in Left
    /\ saved' = [saved EXCEPT ![f] = Save(f)]
    /\ tree' = [tree EXCEPT ![f] = Absent]
    /\ handled' = handled \cup {f}
    /\ UNCHANGED <<inputs, hit, sources, newer, phase, extras, staged, reported>>

\* Read the bytes of the target if there is one, copy the staged file over
\* it with its old mtime, remember the bytes.
Swap(f) ==
    /\ phase = "swapping" /\ f \in Left
    /\ saved' = [saved EXCEPT ![f] = Save(f)]
    /\ tree' = [tree EXCEPT ![f] = "old"]
    /\ newer' = newer \ {f}
    /\ handled' = handled \cup {f}
    /\ UNCHANGED <<inputs, hit, sources, phase, extras, staged, reported>>

\* A loop ends.
LoopEnds ==
    /\ phase \in CommitPhases /\ Left = {}
    /\ phase' = NextPhase
    /\ UNCHANGED <<inputs, hit, sources, tree, newer, extras, staged, handled,
                   saved, reported>>

\* Reading (_bytes_or_abort_undo), unlinking, or opening the copy raises
\* before f was touched.
CommitFails(f) ==
    /\ \/ "unreadable" \in Faults /\ phase \in CommitPhases /\ tree[f] # Absent
       \/ "unlink" \in Faults /\ phase \in {"removing", "deleting"}
                              /\ tree[f] # Absent
       \/ "copy" \in Faults /\ phase = "swapping"
    /\ f \in Left
    /\ phase' = "reverting"
    /\ UNCHANGED <<inputs, hit, sources, tree, newer, extras, staged, handled,
                   saved, reported>>

\* The copy raises half way: the target was truncated, its bytes are not in
\* committed_overwrites yet.
CopyTears(f) ==
    /\ "torn" \in Faults
    /\ phase = "swapping" /\ f \in Left
    /\ tree' = [tree EXCEPT ![f] = "torn"]
    /\ hit' = hit \cup {f}
    /\ phase' = "reverting"
    /\ UNCHANGED <<inputs, sources, newer, extras, staged, handled, saved,
                   reported>>

\* KeyboardInterrupt or a crash: except Exception does not see it.
Interrupt ==
    /\ "interrupt" \in Faults
    /\ phase \in CommitPhases \cup {"reverting"}
    /\ phase' = "interrupted"
    /\ UNCHANGED <<inputs, hit, sources, tree, newer, extras, staged, handled,
                   saved, reported>>

\* The handler puts the saved bytes back, one path at a time.
Revert(f) ==
    /\ phase = "reverting" /\ saved[f] # NotSaved
    /\ tree' = [tree EXCEPT ![f] = saved[f]]
    /\ saved' = [saved EXCEPT ![f] = NotSaved]
    /\ newer' = newer \cup {f}
    /\ UNCHANGED <<inputs, hit, sources, phase, extras, staged, handled, reported>>

\* A restore raises OSError, which is swallowed.
RevertFails(f) ==
    /\ "revert" \in Faults
    /\ phase = "reverting" /\ saved[f] # NotSaved
    /\ saved' = [saved EXCEPT ![f] = NotSaved]
    /\ hit' = hit \cup {f}
    /\ UNCHANGED <<inputs, sources, tree, newer, phase, extras, staged,
                   handled, reported>>

\* ... and raises the exception again.
RevertEnds ==
    /\ phase = "reverting" /\ \A f \in Files : saved[f] = NotSaved
    /\ phase' = "aborted"
    /\ UNCHANGED <<inputs, hit, sources, tree, newer, extras, staged, handled,
                   saved, reported>>

-----------------------------------------------------------------------------
(* Environment *)

\* Retention removes the checkpoint, file by file; once everything is staged
\* that is of no consequence.
Lose(f) ==
    /\ "lost" \in Faults
    /\ phase \in {"preflight", "staging"}
    /\ f \in sources
    /\ sources' = sources \ {f}
    /\ UNCHANGED <<inputs, hit, tree, newer, phase, extras, staged, handled,
                   saved, reported>>

\* Another agent writes a file.
Edit(f) ==
    /\ "edit" \in Faults
    /\ phase \notin {"done", "aborted", "interrupted"} /\ tree[f] # "edit"
    /\ tree' = [tree EXCEPT ![f] = "edit"]
    /\ hit' = hit \cup {f}
    /\ newer' = newer \cup {f}
    /\ UNCHANGED <<inputs, sources, phase, extras, staged, handled, saved,
                   reported>>

\* The undo has returned, raised or been killed.
Over ==
    /\ phase \in {"done", "aborted", "interrupted"}
    /\ UNCHANGED vars

Next ==
    \/ Preflight \/ PreflightFails \/ StageFails \/ StagingEnds
    \/ LoopEnds \/ Interrupt \/ RevertEnds \/ Over
    \/ \E f \in Files :
         \/ Stage(f) \/ RemoveFile(f) \/ Swap(f) \/ CommitFails(f)
         \/ CopyTears(f) \/ Revert(f) \/ RevertFails(f) \/ Lose(f) \/ Edit(f)

Spec == Init /\ [][Next]_vars

-----------------------------------------------------------------------------
(* Properties *)

\* "The one outcome undo exists to prevent" (_bytes_or_abort_undo, task #297):
\* after an undo that failed, every file it took away or overwrote is back,
\* unless its copy was torn, its restore failed or another agent wrote it.
AbortLosesNothing ==
    phase = "aborted" =>
        \A f \in Files \ hit : start[f] # Absent => tree[f] = start[f]

\* Staging "ensures that a crash or error mid-copy cannot leave a partially
\* restored tree": the undo touches no file before the whole snapshot is safe
\* in the staging directory, even if retention removes it meanwhile.
NoMutationBeforeStaged ==
    (\E f \in Files : tree[f] \notin {start[f], "edit"}) => staged = ToRestore

\* What the snapshot says f should be; a tree checkpoint says it of every path.
Restored(f) == CASE entries[f] = "present" -> "old"
                 [] entries[f] = "deleted" -> Absent
                 [] OTHER -> IF scope = "file" THEN start[f] ELSE Absent

\* An undo that returns has restored the snapshot, and touched nothing that
\* is out of its scope; another agent's edit during the undo may survive.
DoneMeansRestored ==
    phase = "done" => \A f \in Files : tree[f] \in {Restored(f), "edit"}

\* "What did I just lose?" (_paths_modified_since_checkpoint, task #308): of a
\* checkpoint that has a date, a recorded path that the user had written later,
\* by its mtime, and that the undo discarded is named as diverged, or as one
\* that could not be checked; and no path is named as diverged ("a fabricated
\* entry") that nobody had written.  An edit during the undo is no part of this.
LossIsDisclosed ==
    phase = "done" =>
        /\ dated => \A f \in Recorded : start[f] = "new" /\ tree[f] # "new" =>
                                         f \in diverged \cup unchecked
        /\ \A f \in diverged : start[f] = "new" \/ f \in hit
=============================================================================
