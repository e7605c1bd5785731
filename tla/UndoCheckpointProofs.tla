------------------------ MODULE UndoCheckpointProofs ------------------------
(***************************************************************************)
(* What undo_checkpoint promises, for any set of paths, any checkpoint,    *)
(* any working tree and any combination of failures: an undo that fails    *)
(* loses nothing, it touches nothing before everything is staged, and an   *)
(* undo that returns has restored the snapshot and disclosed the loss.     *)
(***************************************************************************)
EXTENDS UndoCheckpoint, TLAPS

Quiet == {"preflight", "staging"}
Moving == CommitPhases \cup {"reverting"}

\* What the undo knows of a path: untouched until it is handled, and from
\* then on either saved or back, unless there was nothing to save.
SavedInv ==
    /\ phase \in Quiet => handled = {}
    /\ phase = "aborted" => \A f \in Files : saved[f] = NotSaved
    /\ \A f \in Files \ handled : saved[f] = NotSaved
    /\ \A f \in Files \ hit :
         /\ f \notin handled => tree[f] = start[f]
         /\ saved[f] # NotSaved => saved[f] = start[f]
         /\ tree[f] = start[f] \/ start[f] = Absent \/ saved[f] = start[f]

\* A path that is not handled holds what it held or what another agent put
\* there, and the commit phase runs on a complete staging directory.
StagedInv ==
    /\ phase \in Quiet => handled = {}
    /\ phase \in Moving \cup {"done"} => staged = ToRestore
    /\ staged \subseteq ToRestore
    /\ phase \in Quiet => \A f \in Files : tree[f] \in {start[f], "edit"}
    /\ NoMutationBeforeStaged

\* How far each loop of the commit phase has come, and what it leaves behind.
RestoredInv ==
    /\ phase \in {"staging", "done"} \cup CommitPhases =>
         \A f \in Files :
             /\ f \in handled => tree[f] \in {Restored(f), "edit"}
             /\ f \in extras => f \notin Recorded /\ scope = "tree"
             /\ f \notin Recorded /\ f \notin extras =>
                    tree[f] \in {Restored(f), "edit"}
    /\ phase \in {"deleting", "swapping", "done"} => extras \subseteq handled
    /\ phase \in {"swapping", "done"} => ToDelete \subseteq handled
    /\ phase = "done" => staged \subseteq handled

\* What the user wrote since the checkpoint is newer until it is sampled, and
\* reported afterwards; what is newer was written by the user or an agent.
DisclosedInv ==
    /\ phase = "preflight" => \A f \in Files :
           start[f] = "new" => f \in newer /\ tree[f] # Absent
    /\ phase = "preflight" => \A f \in newer : start[f] = "new" \/ f \in hit
    /\ phase \in {"staging", "done"} \cup Moving /\ dated =>
           \A f \in Recorded : start[f] = "new" => f \in diverged \cup unchecked
    /\ \A f \in diverged : start[f] = "new" \/ f \in hit

-----------------------------------------------------------------------------
(* Type correctness *)

\* Every step keeps every variable in its type.
LEMMA TypeStep ==
    ASSUME TypeOK, [Next]_vars
    PROVE  TypeOK'
<1>1. CASE Preflight
  BY <1>1 DEF Preflight, Sample, ModifiedSince, Recorded, TypeOK, inputs,
            reported, Phases, Contents
<1>2. CASE PreflightFails
  BY <1>2 DEF PreflightFails, TypeOK, inputs, reported, Phases, Contents
<1>3. CASE StageFails
  BY <1>3 DEF StageFails, TypeOK, inputs, reported, Phases, Contents
<1>4. CASE StagingEnds
  BY <1>4 DEF StagingEnds, TypeOK, inputs, reported, Phases, Contents
<1>5. CASE LoopEnds
  BY <1>5 DEF LoopEnds, NextPhase, CommitPhases, TypeOK, inputs, reported,
            Phases, Contents
<1>6. CASE Interrupt
  BY <1>6 DEF Interrupt, CommitPhases, TypeOK, inputs, reported, Phases,
            Contents
<1>7. CASE RevertEnds
  BY <1>7 DEF RevertEnds, TypeOK, inputs, reported, Phases, Contents
<1>8. CASE Over
  BY <1>8 DEF Over, vars, TypeOK, inputs, reported, Phases, Contents
<1>9. ASSUME NEW f \in Files, Stage(f)
      PROVE  TypeOK'
  BY <1>9 DEF Stage, ToRestore, TypeOK, inputs, reported, Phases, Contents
<1>10. ASSUME NEW f \in Files, RemoveFile(f)
      PROVE  TypeOK'
  BY <1>10 DEF RemoveFile, Left, Work, Save, TypeOK, inputs, reported, Phases,
            Contents
<1>11. ASSUME NEW f \in Files, Swap(f)
      PROVE  TypeOK'
  BY <1>11 DEF Swap, Save, Left, Work, ToRestore, TypeOK, inputs, reported,
            Phases, Contents
<1>12. ASSUME NEW f \in Files, CommitFails(f)
      PROVE  TypeOK'
  BY <1>12 DEF CommitFails, CommitPhases, Left, Work, TypeOK, inputs, reported,
            Phases, Contents
<1>13. ASSUME NEW f \in Files, CopyTears(f)
      PROVE  TypeOK'
  BY <1>13 DEF CopyTears, Left, Work, TypeOK, inputs, reported, Phases, Contents
<1>14. ASSUME NEW f \in Files, Revert(f)
      PROVE  TypeOK'
  BY <1>14 DEF Revert, NotSaved, TypeOK, inputs, reported, Phases, Contents
<1>15. ASSUME NEW f \in Files, RevertFails(f)
      PROVE  TypeOK'
  BY <1>15 DEF RevertFails, TypeOK, inputs, reported, Phases, Contents
<1>16. ASSUME NEW f \in Files, Lose(f)
      PROVE  TypeOK'
  BY <1>16 DEF Lose, TypeOK, inputs, reported, Phases, Contents
<1>17. ASSUME NEW f \in Files, Edit(f)
      PROVE  TypeOK'
  BY <1>17 DEF Edit, TypeOK, inputs, reported, Phases, Contents
<1>18. CASE UNCHANGED vars
  BY <1>18 DEF vars, inputs, reported, TypeOK, Phases, Contents
<1> QED BY <1>1, <1>2, <1>3, <1>4, <1>5, <1>6, <1>7, <1>8, <1>9, <1>10, <1>11,
        <1>12, <1>13, <1>14, <1>15, <1>16, <1>17, <1>18 DEF Next

\* Type correctness of undo_checkpoint.
THEOREM TypeCorrect == Spec => []TypeOK
<1>1. Init => TypeOK
  BY DEF Init, TypeOK, Phases, Contents, ToRestore
<1>2. TypeOK /\ [Next]_vars => TypeOK'
  BY TypeStep
<1> QED BY <1>1, <1>2, PTL DEF Spec

-----------------------------------------------------------------------------
(* An undo that fails loses nothing *)

\* Whatever happens, a path is untouched, saved, or back.
LEMMA SavedStep ==
    ASSUME TypeOK, SavedInv, [Next]_vars
    PROVE  SavedInv'
<1>1. CASE Preflight
  BY <1>1 DEF Preflight, TypeOK, SavedInv, Quiet, inputs, reported
<1>2. CASE PreflightFails
  BY <1>2 DEF PreflightFails, TypeOK, SavedInv, Quiet, inputs, reported
<1>3. CASE StageFails
  BY <1>3 DEF StageFails, TypeOK, SavedInv, Quiet, inputs, reported
<1>4. CASE StagingEnds
  BY <1>4 DEF StagingEnds, TypeOK, SavedInv, Quiet, inputs, reported
<1>5. CASE LoopEnds
  BY <1>5 DEF LoopEnds, NextPhase, CommitPhases, TypeOK, SavedInv, Quiet,
            inputs, reported
<1>6. CASE Interrupt
  BY <1>6 DEF Interrupt, CommitPhases, TypeOK, SavedInv, Quiet, inputs, reported
<1>7. CASE RevertEnds
  BY <1>7 DEF RevertEnds, TypeOK, SavedInv, Quiet, inputs, reported
<1>8. CASE Over
  BY <1>8 DEF Over, vars, TypeOK, SavedInv, Quiet, inputs, reported
<1>9. ASSUME NEW f \in Files, Stage(f)
      PROVE  SavedInv'
  BY <1>9 DEF Stage, TypeOK, SavedInv, Quiet, inputs, reported
<1>10. ASSUME NEW f \in Files, RemoveFile(f)
      PROVE  SavedInv'
  <2>1. /\ f \notin handled /\ handled' = handled \cup {f}
        /\ UNCHANGED <<phase, hit, start>>
        /\ phase \notin Quiet \cup {"aborted"}
    BY <1>10 DEF RemoveFile, Left, Quiet, inputs, reported
  <2>2. /\ saved'[f] = Save(f) /\ tree'[f] = Absent
        /\ \A g \in Files \ {f} : saved'[g] = saved[g] /\ tree'[g] = tree[g]
    BY <1>10 DEF RemoveFile, TypeOK
  <2> QED BY <2>1, <2>2 DEF SavedInv, Save
<1>11. ASSUME NEW f \in Files, Swap(f)
      PROVE  SavedInv'
  <2>1. /\ f \notin handled /\ handled' = handled \cup {f}
        /\ UNCHANGED <<phase, hit, start>>
        /\ phase \notin Quiet \cup {"aborted"}
    BY <1>11 DEF Swap, Left, Quiet, inputs, reported
  <2>2. /\ saved'[f] = Save(f)
        /\ \A g \in Files \ {f} : saved'[g] = saved[g] /\ tree'[g] = tree[g]
    BY <1>11 DEF Swap, TypeOK
  <2> QED BY <2>1, <2>2 DEF SavedInv, Save
<1>12. ASSUME NEW f \in Files, CommitFails(f)
      PROVE  SavedInv'
  BY <1>12 DEF CommitFails, CommitPhases, TypeOK, SavedInv, Quiet, inputs,
            reported
<1>13. ASSUME NEW f \in Files, CopyTears(f)
      PROVE  SavedInv'
  BY <1>13 DEF CopyTears, Left, Work, TypeOK, SavedInv, Quiet, inputs, reported
<1>14. ASSUME NEW f \in Files, Revert(f)
      PROVE  SavedInv'
  BY <1>14 DEF Revert, NotSaved, TypeOK, SavedInv, Quiet, inputs, reported
<1>15. ASSUME NEW f \in Files, RevertFails(f)
      PROVE  SavedInv'
  BY <1>15 DEF RevertFails, NotSaved, TypeOK, SavedInv, Quiet, inputs, reported
<1>16. ASSUME NEW f \in Files, Lose(f)
      PROVE  SavedInv'
  BY <1>16 DEF Lose, TypeOK, SavedInv, Quiet, inputs, reported
<1>17. ASSUME NEW f \in Files, Edit(f)
      PROVE  SavedInv'
  BY <1>17 DEF Edit, TypeOK, SavedInv, Quiet, inputs, reported
<1>18. CASE UNCHANGED vars
  BY <1>18 DEF vars, inputs, reported, TypeOK, SavedInv, Quiet
<1> QED BY <1>1, <1>2, <1>3, <1>4, <1>5, <1>6, <1>7, <1>8, <1>9, <1>10, <1>11,
        <1>12, <1>13, <1>14, <1>15, <1>16, <1>17, <1>18 DEF Next

\* The promise of task #297, for every failure the model knows.
THEOREM AbortIsLossless == Spec => []AbortLosesNothing
<1>1. Init => SavedInv
  BY DEF Init, SavedInv, Quiet
<1>2. TypeOK /\ SavedInv /\ [Next]_vars => SavedInv'
  BY SavedStep
<1>3. TypeOK /\ SavedInv => AbortLosesNothing
  BY DEF TypeOK, SavedInv, AbortLosesNothing, Contents, NotSaved, Absent
<1> QED BY <1>1, <1>2, <1>3, TypeCorrect, PTL DEF Spec

-----------------------------------------------------------------------------
(* Nothing is touched before everything is staged *)

\* The commit phase starts on a complete staging directory and keeps it.
LEMMA StagedStep ==
    ASSUME TypeOK, StagedInv, [Next]_vars
    PROVE  StagedInv'
<1>1. CASE Preflight
  BY <1>1 DEF Preflight, TypeOK, StagedInv, NoMutationBeforeStaged, Quiet,
            Moving, CommitPhases, inputs, reported, ToRestore
<1>2. CASE PreflightFails
  BY <1>2 DEF PreflightFails, TypeOK, StagedInv, NoMutationBeforeStaged,
            Quiet, Moving, CommitPhases, inputs, reported, ToRestore
<1>3. CASE StageFails
  BY <1>3 DEF StageFails, TypeOK, StagedInv, NoMutationBeforeStaged, Quiet,
            Moving, CommitPhases, inputs, reported, ToRestore
<1>4. CASE StagingEnds
  BY <1>4 DEF StagingEnds, TypeOK, StagedInv, NoMutationBeforeStaged, Quiet,
            Moving, CommitPhases, inputs, reported, ToRestore
<1>5. CASE LoopEnds
  BY <1>5 DEF LoopEnds, NextPhase, TypeOK, StagedInv, NoMutationBeforeStaged,
            Quiet, Moving, CommitPhases, inputs, reported, ToRestore
<1>6. CASE Interrupt
  BY <1>6 DEF Interrupt, TypeOK, StagedInv, NoMutationBeforeStaged, Quiet,
            Moving, CommitPhases, inputs, reported, ToRestore
<1>7. CASE RevertEnds
  BY <1>7 DEF RevertEnds, TypeOK, StagedInv, NoMutationBeforeStaged, Quiet,
            Moving, CommitPhases, inputs, reported, ToRestore
<1>8. CASE Over
  BY <1>8 DEF Over, vars, TypeOK, StagedInv, NoMutationBeforeStaged, Quiet,
            Moving, CommitPhases, inputs, reported, ToRestore
<1>9. ASSUME NEW f \in Files, Stage(f)
      PROVE  StagedInv'
  BY <1>9 DEF Stage, TypeOK, StagedInv, NoMutationBeforeStaged, Quiet, Moving,
            CommitPhases, inputs, reported, ToRestore
<1>10. ASSUME NEW f \in Files, RemoveFile(f)
      PROVE  StagedInv'
  BY <1>10 DEF RemoveFile, TypeOK, StagedInv, NoMutationBeforeStaged, Quiet,
            Moving, CommitPhases, inputs, reported, ToRestore
<1>11. ASSUME NEW f \in Files, Swap(f)
      PROVE  StagedInv'
  BY <1>11 DEF Swap, TypeOK, StagedInv, NoMutationBeforeStaged, Quiet, Moving,
            CommitPhases, inputs, reported, ToRestore
<1>12. ASSUME NEW f \in Files, CommitFails(f)
      PROVE  StagedInv'
  BY <1>12 DEF CommitFails, TypeOK, StagedInv, NoMutationBeforeStaged, Quiet,
            Moving, CommitPhases, inputs, reported, ToRestore
<1>13. ASSUME NEW f \in Files, CopyTears(f)
      PROVE  StagedInv'
  BY <1>13 DEF CopyTears, TypeOK, StagedInv, NoMutationBeforeStaged, Quiet,
            Moving, CommitPhases, inputs, reported, ToRestore
<1>14. ASSUME NEW f \in Files, Revert(f)
      PROVE  StagedInv'
  BY <1>14 DEF Revert, TypeOK, StagedInv, NoMutationBeforeStaged, Quiet,
            Moving, CommitPhases, inputs, reported, ToRestore
<1>15. ASSUME NEW f \in Files, RevertFails(f)
      PROVE  StagedInv'
  BY <1>15 DEF RevertFails, TypeOK, StagedInv, NoMutationBeforeStaged, Quiet,
            Moving, CommitPhases, inputs, reported, ToRestore
<1>16. ASSUME NEW f \in Files, Lose(f)
      PROVE  StagedInv'
  BY <1>16 DEF Lose, TypeOK, StagedInv, NoMutationBeforeStaged, Quiet, Moving,
            CommitPhases, inputs, reported, ToRestore
<1>17. ASSUME NEW f \in Files, Edit(f)
      PROVE  StagedInv'
  BY <1>17 DEF Edit, TypeOK, StagedInv, NoMutationBeforeStaged, Quiet, Moving,
            CommitPhases, inputs, reported, ToRestore
<1>18. CASE UNCHANGED vars
  BY <1>18 DEF vars, inputs, reported, TypeOK, StagedInv,
            NoMutationBeforeStaged, Quiet, Moving, CommitPhases, ToRestore
<1> QED BY <1>1, <1>2, <1>3, <1>4, <1>5, <1>6, <1>7, <1>8, <1>9, <1>10, <1>11,
        <1>12, <1>13, <1>14, <1>15, <1>16, <1>17, <1>18 DEF Next

\* Staging protects the tree from a snapshot that retention removes.
THEOREM NothingTouchedBeforeStaged == Spec => []NoMutationBeforeStaged
<1>1. Init => StagedInv
  BY DEF Init, StagedInv, NoMutationBeforeStaged, Quiet, Moving, CommitPhases
<1>2. TypeOK /\ StagedInv /\ [Next]_vars => StagedInv'
  BY StagedStep
<1>3. StagedInv => NoMutationBeforeStaged
  BY DEF StagedInv
<1> QED BY <1>1, <1>2, <1>3, TypeCorrect, PTL DEF Spec

-----------------------------------------------------------------------------
(* An undo that returns has restored the snapshot *)

\* Each loop leaves its paths as the snapshot says.
LEMMA RestoredStep ==
    ASSUME TypeOK, StagedInv, RestoredInv, [Next]_vars
    PROVE  RestoredInv'
<1>1. CASE Preflight
  BY <1>1 DEF Preflight, TypeOK, StagedInv, RestoredInv, Quiet, Moving,
            CommitPhases, inputs, reported, Restored, Recorded, ToRestore,
            ToDelete
<1>2. CASE PreflightFails
  BY <1>2 DEF PreflightFails, TypeOK, StagedInv, RestoredInv, Quiet, Moving,
            CommitPhases, inputs, reported, Restored, Recorded, ToRestore,
            ToDelete
<1>3. CASE StageFails
  BY <1>3 DEF StageFails, TypeOK, StagedInv, RestoredInv, Quiet, Moving,
            CommitPhases, inputs, reported, Restored, Recorded, ToRestore,
            ToDelete
<1>4. CASE StagingEnds
  BY <1>4 DEF StagingEnds, TypeOK, StagedInv, RestoredInv, Quiet, Moving,
            CommitPhases, inputs, reported, Restored, Recorded, ToRestore,
            ToDelete
<1>5. CASE LoopEnds
  BY <1>5 DEF LoopEnds, NextPhase, Left, Work, TypeOK, StagedInv, RestoredInv,
            Quiet, Moving, CommitPhases, inputs, reported, Restored, Recorded,
            ToRestore, ToDelete
<1>6. CASE Interrupt
  BY <1>6 DEF Interrupt, TypeOK, StagedInv, RestoredInv, Quiet, Moving,
            CommitPhases, inputs, reported, Restored, Recorded, ToRestore,
            ToDelete
<1>7. CASE RevertEnds
  BY <1>7 DEF RevertEnds, TypeOK, StagedInv, RestoredInv, Quiet, Moving,
            CommitPhases, inputs, reported, Restored, Recorded, ToRestore,
            ToDelete
<1>8. CASE Over
  BY <1>8 DEF Over, vars, TypeOK, StagedInv, RestoredInv, Quiet, Moving,
            CommitPhases, inputs, reported, Restored, Recorded, ToRestore,
            ToDelete
<1>9. ASSUME NEW f \in Files, Stage(f)
      PROVE  RestoredInv'
  BY <1>9 DEF Stage, TypeOK, StagedInv, RestoredInv, Quiet, Moving,
            CommitPhases, inputs, reported, Restored, Recorded, ToRestore,
            ToDelete
<1>10. ASSUME NEW f \in Files, RemoveFile(f)
      PROVE  RestoredInv'
  BY <1>10 DEF RemoveFile, Left, Work, TypeOK, StagedInv, RestoredInv, Quiet,
            Moving, CommitPhases, inputs, reported, Restored, Recorded,
            ToRestore, ToDelete
<1>11. ASSUME NEW f \in Files, Swap(f)
      PROVE  RestoredInv'
  BY <1>11 DEF Swap, Left, Work, TypeOK, StagedInv, RestoredInv, Quiet, Moving,
            CommitPhases, inputs, reported, Restored, Recorded, ToRestore,
            ToDelete
<1>12. ASSUME NEW f \in Files, CommitFails(f)
      PROVE  RestoredInv'
  BY <1>12 DEF CommitFails, TypeOK, StagedInv, RestoredInv, Quiet, Moving,
            CommitPhases, inputs, reported, Restored, Recorded, ToRestore,
            ToDelete
<1>13. ASSUME NEW f \in Files, CopyTears(f)
      PROVE  RestoredInv'
  BY <1>13 DEF CopyTears, TypeOK, StagedInv, RestoredInv, Quiet, Moving,
            CommitPhases, inputs, reported, Restored, Recorded, ToRestore,
            ToDelete
<1>14. ASSUME NEW f \in Files, Revert(f)
      PROVE  RestoredInv'
  BY <1>14 DEF Revert, TypeOK, StagedInv, RestoredInv, Quiet, Moving,
            CommitPhases, inputs, reported, Restored, Recorded, ToRestore,
            ToDelete
<1>15. ASSUME NEW f \in Files, RevertFails(f)
      PROVE  RestoredInv'
  BY <1>15 DEF RevertFails, TypeOK, StagedInv, RestoredInv, Quiet, Moving,
            CommitPhases, inputs, reported, Restored, Recorded, ToRestore,
            ToDelete
<1>16. ASSUME NEW f \in Files, Lose(f)
      PROVE  RestoredInv'
  BY <1>16 DEF Lose, TypeOK, StagedInv, RestoredInv, Quiet, Moving,
            CommitPhases, inputs, reported, Restored, Recorded, ToRestore,
            ToDelete
<1>17. ASSUME NEW f \in Files, Edit(f)
      PROVE  RestoredInv'
  BY <1>17 DEF Edit, TypeOK, StagedInv, RestoredInv, Quiet, Moving,
            CommitPhases, inputs, reported, Restored, Recorded, ToRestore,
            ToDelete
<1>18. CASE UNCHANGED vars
  BY <1>18 DEF vars, inputs, reported, TypeOK, StagedInv, RestoredInv, Quiet,
            Moving, CommitPhases, Restored, Recorded, ToRestore, ToDelete
<1> QED BY <1>1, <1>2, <1>3, <1>4, <1>5, <1>6, <1>7, <1>8, <1>9, <1>10, <1>11,
        <1>12, <1>13, <1>14, <1>15, <1>16, <1>17, <1>18 DEF Next

\* What a caller may rely on when undo_checkpoint returns.
THEOREM DoneIsRestored == Spec => []DoneMeansRestored
<1>1. Init => StagedInv /\ RestoredInv
  BY DEF Init, StagedInv, RestoredInv, NoMutationBeforeStaged, Quiet, Moving,
         CommitPhases
<1>2. /\ TypeOK /\ StagedInv /\ RestoredInv
      /\ [Next]_vars
      => StagedInv' /\ RestoredInv'
  BY StagedStep, RestoredStep
<1>3. TypeOK /\ StagedInv /\ RestoredInv => DoneMeansRestored
  <2> SUFFICES ASSUME TypeOK, StagedInv, RestoredInv, phase = "done",
                      NEW f \in Files
               PROVE  tree[f] \in {Restored(f), "edit"}
    BY DEF DoneMeansRestored
  <2>1. f \in Recorded \cup extras => f \in handled
    BY DEF TypeOK, StagedInv, RestoredInv, Recorded, ToRestore, ToDelete,
           Moving
  <2> QED BY <2>1 DEF RestoredInv
<1> QED BY <1>1, <1>2, <1>3, TypeCorrect, PTL DEF Spec

-----------------------------------------------------------------------------
(* ... and has disclosed the loss *)

\* Divergence is sampled while it can still be seen, and kept.
LEMMA DisclosedStep ==
    ASSUME TypeOK, DisclosedInv, [Next]_vars
    PROVE  DisclosedInv'
<1>1. CASE Preflight
  BY <1>1 DEF Preflight, Sample, ModifiedSince, TypeOK, DisclosedInv, Moving,
            CommitPhases, inputs, reported, Recorded
<1>2. CASE PreflightFails
  BY <1>2 DEF PreflightFails, TypeOK, DisclosedInv, Moving, CommitPhases,
            inputs, reported, Recorded
<1>3. CASE StageFails
  BY <1>3 DEF StageFails, TypeOK, DisclosedInv, Moving, CommitPhases, inputs,
            reported, Recorded
<1>4. CASE StagingEnds
  BY <1>4 DEF StagingEnds, TypeOK, DisclosedInv, Moving, CommitPhases, inputs,
            reported, Recorded
<1>5. CASE LoopEnds
  BY <1>5 DEF LoopEnds, NextPhase, TypeOK, DisclosedInv, Moving, CommitPhases,
            inputs, reported, Recorded
<1>6. CASE Interrupt
  BY <1>6 DEF Interrupt, TypeOK, DisclosedInv, Moving, CommitPhases, inputs,
            reported, Recorded
<1>7. CASE RevertEnds
  BY <1>7 DEF RevertEnds, TypeOK, DisclosedInv, Moving, CommitPhases, inputs,
            reported, Recorded
<1>8. CASE Over
  BY <1>8 DEF Over, vars, TypeOK, DisclosedInv, Moving, CommitPhases, inputs,
            reported, Recorded
<1>9. ASSUME NEW f \in Files, Stage(f)
      PROVE  DisclosedInv'
  BY <1>9 DEF Stage, TypeOK, DisclosedInv, Moving, CommitPhases, inputs,
            reported, Recorded
<1>10. ASSUME NEW f \in Files, RemoveFile(f)
      PROVE  DisclosedInv'
  BY <1>10 DEF RemoveFile, TypeOK, DisclosedInv, Moving, CommitPhases, inputs,
            reported, Recorded
<1>11. ASSUME NEW f \in Files, Swap(f)
      PROVE  DisclosedInv'
  BY <1>11 DEF Swap, TypeOK, DisclosedInv, Moving, CommitPhases, inputs,
            reported, Recorded
<1>12. ASSUME NEW f \in Files, CommitFails(f)
      PROVE  DisclosedInv'
  BY <1>12 DEF CommitFails, TypeOK, DisclosedInv, Moving, CommitPhases,
            inputs, reported, Recorded
<1>13. ASSUME NEW f \in Files, CopyTears(f)
      PROVE  DisclosedInv'
  BY <1>13 DEF CopyTears, TypeOK, DisclosedInv, Moving, CommitPhases, inputs,
            reported, Recorded
<1>14. ASSUME NEW f \in Files, Revert(f)
      PROVE  DisclosedInv'
  BY <1>14 DEF Revert, TypeOK, DisclosedInv, Moving, CommitPhases, inputs,
            reported, Recorded
<1>15. ASSUME NEW f \in Files, RevertFails(f)
      PROVE  DisclosedInv'
  BY <1>15 DEF RevertFails, TypeOK, DisclosedInv, Moving, CommitPhases,
            inputs, reported, Recorded
<1>16. ASSUME NEW f \in Files, Lose(f)
      PROVE  DisclosedInv'
  BY <1>16 DEF Lose, TypeOK, DisclosedInv, Moving, CommitPhases, inputs,
            reported, Recorded
<1>17. ASSUME NEW f \in Files, Edit(f)
      PROVE  DisclosedInv'
  BY <1>17 DEF Edit, Absent, TypeOK, DisclosedInv, Moving, CommitPhases,
            inputs, reported, Recorded
<1>18. CASE UNCHANGED vars
  BY <1>18 DEF vars, inputs, reported, TypeOK, DisclosedInv, Moving,
            CommitPhases, Recorded
<1> QED BY <1>1, <1>2, <1>3, <1>4, <1>5, <1>6, <1>7, <1>8, <1>9, <1>10, <1>11,
        <1>12, <1>13, <1>14, <1>15, <1>16, <1>17, <1>18 DEF Next

\* diverged_paths answers "what did I just lose?" for recorded paths.
THEOREM LossDisclosed == Spec => []LossIsDisclosed
<1>1. Init => DisclosedInv
  BY DEF Init, DisclosedInv, Moving, CommitPhases, Absent
<1>2. TypeOK /\ DisclosedInv /\ [Next]_vars => DisclosedInv'
  BY DisclosedStep
<1>3. DisclosedInv => LossIsDisclosed
  BY DEF DisclosedInv, LossIsDisclosed
<1> QED BY <1>1, <1>2, <1>3, TypeCorrect, PTL DEF Spec
=============================================================================
