---------------------------- MODULE TrigramIndex ----------------------------
(***************************************************************************)
(* The trigram index of one root, rust_core/src/index.rs, and the searches *)
(* that load, check, rebuild, save and query it, rust_core/src/main.rs:    *)
(* with --index, or without when a fresh index happens to be there.        *)
(*                                                                         *)
(* One pattern is searched for.  A hit is a line number with a text the    *)
(* pattern matches; what else the files contain does not matter, and a     *)
(* posting stands for the postings of all trigrams of the pattern on that  *)
(* line.  A tree is walked, read and fingerprinted in separate steps, with *)
(* edits in between.  A search that dies has saved the whole index or      *)
(* nothing, so it is one that takes no further step.                       *)
(***************************************************************************)
EXTENDS Integers, FiniteSets, Sequences, Functions

CONSTANTS
    Calls,        \* slots for searches, used once each
    Files,        \* the paths of the tree
    Top,          \* those directly under the root that the fingerprint samples
    Hits,         \* the matching lines a file may have
    MaxEdits,     \* bound: how often the tree changes, or a walk or a read fails
    Faults,       \* the failures and the edits the environment may inject
    Nothing,      \* no index
    Alien         \* a file this root cannot use: it does not load, is of another
                  \* version, or was built for another tree

FaultKinds == {"walk", "read", "save", "swap", "spoil", "ignore"}

ASSUME TopAssumption == Top \subseteq Files
ASSUME FilesAssumption == IsFiniteSet(Files) /\ Files # {}
ASSUME MaxEditsAssumption == MaxEdits \in Nat
ASSUME FaultAssumption == Faults \subseteq FaultKinds

VARIABLES
    stat,         \* size and mtime of each file, a new number with each edit that
                  \* shows in them; 0 when there is no such file
    text,         \* the hits in each file
    ignored,      \* the files the ignore rules exclude
    disk,         \* what is at .tg_index
    pc,           \* where each search stands
    route,        \* how each search came to use the index
    mode,         \* whether it was asked for ignored files too (--no-ignore)
    ix,           \* the index it has in memory
    seen,         \* the files its walk has found, with their stat
    result,       \* the hits it has reported
    edits,        \* the number of these events
    swapped,      \* history: versions of files whose text changed under their stat
    unread,       \* history: versions of files that a build could not read
    steady,       \* history: hits that a search was to find all the time it ran
    lapsed        \* history: files that became ignored after the start

treeVars == <<stat, text, ignored, edits>>
callVars == <<pc, route, mode, ix, seen, result>>
historyVars == <<swapped, unread, steady, lapsed>>
vars == <<stat, text, ignored, disk, pc, route, mode, ix, seen, result, edits,
          swapped, unread, steady, lapsed>>

Entries == [path : Files, stat : Nat, deleted : BOOLEAN]

Running == {"check", "walk", "read", "print", "save", "query"}

Versions == Files \X Nat

-----------------------------------------------------------------------------
(* The tree *)

\* The files a walk is after.
Walked(m) == {f \in Files : stat[f] # 0 /\ (m \/ f \notin ignored)}

\* What it finds of them: entries with an error are left out, and for an index those
\* whose metadata cannot be had or whose mtime is before the epoch.
Found(m) == IF "walk" \in Faults /\ edits < MaxEdits THEN SUBSET Walked(m)
                                                     ELSE {Walked(m)}

\* Each failure of a walk or a read is an event.
Count(complete) == edits' = IF complete THEN edits ELSE edits + 1

\* compute_tree_fingerprint: stat and text of the sampled files.
Fingerprint(found) == [f \in Top \cap found |-> <<stat[f], text[f]>>]

-----------------------------------------------------------------------------
(* An index *)

\* An index of no files, which a full build extends.
EmptyIndex == [files |-> <<>>, postings |-> {}, mode |-> FALSE, print |-> <<>>]

\* The entries that are not tombstones.
Live(x) == {i \in DOMAIN x.files : ~x.files[i].deleted}

LivePaths(x) == {x.files[i].path : i \in Live(x)}

\* Mutant: only the files that were indexed are looked at.
IsStaleByEntries(x, m, found, sampled) ==
    \/ x.mode # m
    \/ \E i \in Live(x) : stat[x.files[i].path] # x.files[i].stat
    \/ x.print # Fingerprint(sampled)

\* Mutant: the mode of the build is not compared.
IsStaleAnyMode(x, m, found, sampled) ==
    \/ \E i \in Live(x) : stat[x.files[i].path] # x.files[i].stat
    \/ ~(found \subseteq LivePaths(x))
    \/ x.print # Fingerprint(sampled)

\* staleness_reason, with what its two walks have found.
IsStale(x, m, found, sampled) ==
    \/ x.mode # m
    \/ \E i \in Live(x) : stat[x.files[i].path] # x.files[i].stat
    \/ ~(found \subseteq LivePaths(x))
    \/ x.print # Fingerprint(sampled)

Deleted(x, walk) == {i \in Live(x) : x.files[i].path \notin DOMAIN walk}

Modified(x, walk) ==
    {i \in Live(x) : /\ x.files[i].path \in DOMAIN walk
                     /\ x.files[i].stat # walk[x.files[i].path]}

\* Mutant: a file that changed is taken for a new one.
AddedAgain(x, walk) ==
    {f \in DOMAIN walk :
        ~\E i \in Live(x) : x.files[i].path = f /\ x.files[i].stat = walk[f]}

Added(x, walk) == DOMAIN walk \ LivePaths(x)

\* The entries after an update: a file that is gone leaves a tombstone, a new one
\* gets the next number, in the order of the walk.
Updated(x, walk, order) ==
    [i \in 1 .. Len(x.files) + Cardinality(Added(x, walk)) |->
        IF i > Len(x.files)
        THEN [path |-> order[i - Len(x.files)],
              stat |-> walk[order[i - Len(x.files)]], deleted |-> FALSE]
        ELSE IF i \in Deleted(x, walk) THEN [x.files[i] EXCEPT !.deleted = TRUE]
        ELSE IF i \in Modified(x, walk)
             THEN [x.files[i] EXCEPT !.stat = walk[x.files[i].path]]
        ELSE x.files[i]]

\* The numbers of the entries that were read for the update.
Fresh(x, walk) == Modified(x, walk) \cup
    (Len(x.files) + 1 .. Len(x.files) + Cardinality(Added(x, walk)))

\* The index after the update: the postings of the entries that changed or went are
\* replaced.  A file that could not be read gets none.
Rebuilt(x, walk, order, failed, m) ==
    LET files == Updated(x, walk, order)
    IN  [files |-> files,
         postings |->
            {p \in x.postings : p[1] \notin Deleted(x, walk) \cup Modified(x, walk)}
            \cup {p \in Fresh(x, walk) \X Hits :
                    /\ files[p[1]].path \notin failed
                    /\ p[2] \in text[files[p[1]].path]},
         mode |-> m,
         print |-> x.print]

-----------------------------------------------------------------------------

IsIndex(x) ==
    /\ x = [files |-> x.files, postings |-> x.postings, mode |-> x.mode,
            print |-> x.print]
    /\ x.files \in Seq(Entries) /\ x.mode \in BOOLEAN
    /\ x.postings \subseteq Live(x) \X Hits
    /\ \A i, j \in Live(x) : x.files[i].path = x.files[j].path => i = j

\* Postings belong to entries that are not deleted, and no path has two such
\* entries, however often its file came and went.
TypeOK ==
    /\ stat \in [Files -> Nat] /\ text \in [Files -> SUBSET Hits]
    /\ ignored \subseteq Files
    /\ disk \in {Nothing, Alien} \/ IsIndex(disk)
    /\ pc \in [Calls -> {"new", "check", "walk", "read", "print", "save",
                         "query", "answered", "failed", "elsewhere"}]
    /\ route \in [Calls -> {"warm", "asked", "rebuilt"}]
    /\ mode \in [Calls -> BOOLEAN]
    /\ ix = [c \in Calls |-> ix[c]] /\ \A c \in Calls : IsIndex(ix[c])
    /\ seen = [c \in Calls |-> seen[c]]
    /\ \A c \in Calls : pc[c] = "read" =>
           DOMAIN seen[c] \subseteq Files /\ \A f \in DOMAIN seen[c] : seen[c][f] \in Nat
    /\ result \in [Calls -> SUBSET (Files \X Hits)]
    /\ edits \in Nat
    /\ swapped \subseteq Versions /\ unread \subseteq Versions
    /\ steady \in [Calls -> SUBSET (Files \X Hits)]
    /\ lapsed \subseteq Files

\* The index of a tree that had one file, after that file was removed.
Emptied(f) == [files |-> <<[path |-> f, stat |-> 1, deleted |-> TRUE]>>,
               postings |-> {}, mode |-> FALSE, print |-> <<>>]

\* Any tree, and no index yet or one of the time when there were no files.
Init ==
    /\ stat \in [Files -> {0, 2}] /\ edits = 0
    /\ text = [f \in Files |-> IF stat[f] = 0 THEN {} ELSE Hits]
    /\ ignored \in {{}, Files \ Top}
    /\ disk \in {Nothing, Emptied(CHOOSE f \in Files : TRUE)}
    /\ pc = [c \in Calls |-> "new"]
    /\ route = [c \in Calls |-> "asked"] /\ mode = [c \in Calls |-> FALSE]
    /\ ix = [c \in Calls |-> EmptyIndex] /\ seen = [c \in Calls |-> <<>>]
    /\ result = [c \in Calls |-> {}]
    /\ swapped = {} /\ unread = {}
    /\ steady = [c \in Calls |-> {}] /\ lapsed = {}

-----------------------------------------------------------------------------
(* A search: detect_warm_index_state, handle_index_search, run_index_query *)

Goto(c, l) == pc' = [pc EXCEPT ![c] = l]

\* History: the hits c has to find if they stay.
Due(m) == {fh \in Files \X Hits : /\ fh[1] \in Walked(m) /\ fh[2] \in text[fh[1]]
                                  /\ <<fh[1], stat[fh[1]]>> \notin unread}

\* TrigramIndex::load and root_servability_reason.  Without an index it can use a
\* search leaves for another engine, or builds one if --index was given.
Load(c) ==
    /\ pc[c] = "new"
    /\ \E r \in {"warm", "asked"}, m \in BOOLEAN :
          /\ route' = [route EXCEPT ![c] = r]
          /\ mode' = [mode EXCEPT ![c] = m]
          /\ IF disk \in {Nothing, Alien}
             THEN Goto(c, IF r = "warm" THEN "elsewhere" ELSE "walk") /\ UNCHANGED ix
             ELSE Goto(c, "check") /\ ix' = [ix EXCEPT ![c] = disk]
          /\ steady' = [steady EXCEPT ![c] = Due(m)]
    /\ UNCHANGED <<treeVars, disk, seen, result, swapped, unread, lapsed>>

\* An entry whose stat fails only makes the index stale, as a file missed by the
\* sample does.
Check(c) ==
    /\ pc[c] = "check"
    /\ \E found, sampled \in Found(ix[c].mode) :
          /\ Count(found = Walked(ix[c].mode) /\ sampled = Walked(ix[c].mode))
          /\ IF IsStale(ix[c], mode[c], found, sampled)
             THEN /\ Goto(c, IF route[c] = "warm" THEN "elsewhere" ELSE "walk")
                  /\ UNCHANGED steady
             ELSE /\ Goto(c, "query")
                  /\ steady' = [steady EXCEPT ![c] =
                                   {fh \in @ : fh[1] \in found \cup LivePaths(ix[c])}]
    /\ UNCHANGED <<stat, text, ignored, disk, route, mode, ix, seen, result, swapped,
                   unread, lapsed>>

\* The tree is walked, and the stat of every file is taken ...
Walk(c) ==
    /\ pc[c] = "walk"
    /\ \E found \in Found(mode[c]) :
          /\ Count(found = Walked(mode[c]))
          /\ seen' = [seen EXCEPT ![c] = [f \in found |-> stat[f]]]
          /\ steady' = [steady EXCEPT ![c] = {fh \in @ : fh[1] \in found}]
    /\ route' = [route EXCEPT ![c] = "rebuilt"]
    /\ Goto(c, "read")
    /\ UNCHANGED <<stat, text, ignored, disk, mode, ix, result, swapped, unread, lapsed>>

\* ... then the files whose stat is new are read.  One that cannot be read, or is
\* over 10 MB, counts as one without trigrams.
ReadFiles(c) ==
    /\ pc[c] = "read"
    /\ LET walk == seen[c]
           added == Added(ix[c], walk)
           again == {ix[c].files[i].path : i \in Modified(ix[c], walk)}
       IN  \E order \in Bijection(1 .. Cardinality(added), added),
              failed \in SUBSET (added \cup again) :
              /\ failed # {} => "read" \in Faults /\ edits < MaxEdits
              /\ Count(failed = {})
              /\ ix' = [ix EXCEPT ![c] = Rebuilt(@, walk, order, failed, mode[c])]
              /\ unread' = unread \cup {<<f, walk[f]>> : f \in failed}
              /\ steady' = [d \in Calls |-> {fh \in steady[d] : fh[1] \in failed =>
                               d # c /\ stat[fh[1]] # walk[fh[1]]}]
    /\ Goto(c, "print")
    /\ UNCHANGED <<stat, text, ignored, disk, route, mode, seen, result, swapped, lapsed>>

\* Mutant: the stat is taken when the file has been read.
StatLate(c) ==
    /\ pc[c] = "print"
    /\ LET x == ix[c]
           restat(e) == IF e.deleted THEN e ELSE [e EXCEPT !.stat = stat[e.path]]
       IN  ix' = [ix EXCEPT ![c] =
               [x EXCEPT !.print = Fingerprint(Walked(mode[c])),
                         !.files = [i \in DOMAIN x.files |-> restat(x.files[i])]]]
    /\ seen' = [seen EXCEPT ![c] = <<>>]
    /\ Goto(c, "save")
    /\ UNCHANGED <<treeVars, disk, route, mode, result, historyVars>>

\* Last, the tree is fingerprinted.
Imprint(c) ==
    /\ pc[c] = "print"
    /\ \E sampled \in Found(mode[c]) :
          /\ Count(sampled = Walked(mode[c]))
          /\ ix' = [ix EXCEPT ![c].print = Fingerprint(sampled)]
    /\ seen' = [seen EXCEPT ![c] = <<>>]
    /\ Goto(c, "save")
    /\ UNCHANGED <<stat, text, ignored, disk, route, mode, result, historyVars>>

\* save_index_locked: the file is replaced under the lock, whatever others have
\* saved since the load.  A lock that is not got or a failed write is only a warning.
Save(c) ==
    /\ pc[c] = "save"
    /\ \/ disk' = ix[c]
       \/ "save" \in Faults /\ UNCHANGED disk
    /\ Goto(c, "query")
    /\ UNCHANGED <<treeVars, route, mode, ix, seen, result, historyVars>>

\* The lines a search looks at: those that have a posting, or all lines of the files
\* of the index if the pattern has no literal to look up.
Candidates(x, full) ==
    IF full THEN LivePaths(x) \X Hits
            ELSE {<<x.files[p[1]].path, p[2]>> : p \in x.postings}

\* The candidates are read again; one file that cannot be fails the search.
Query(c) ==
    /\ pc[c] = "query"
    /\ \E full \in BOOLEAN :
          LET candidates == Candidates(ix[c], full)
          IN  IF \E fh \in candidates : stat[fh[1]] = 0
              THEN Goto(c, "failed") /\ UNCHANGED result
              ELSE /\ Goto(c, "answered")
                   /\ result' = [result EXCEPT ![c] =
                                    {fh \in candidates : fh[2] \in text[fh[1]]}]
    /\ ix' = [ix EXCEPT ![c] = EmptyIndex]
    /\ UNCHANGED <<treeVars, disk, route, mode, seen, historyVars>>

-----------------------------------------------------------------------------
(* Others change the tree *)

\* A hit stays due if it is still there, was not in a version the index may have
\* wrong, and its search goes on.
Edit(f, s, hits) ==
    /\ edits < MaxEdits /\ edits' = edits + 1
    /\ stat' = [stat EXCEPT ![f] = s]
    /\ text' = [text EXCEPT ![f] = hits]
    /\ steady' = [c \in Calls |-> {fh \in steady[c] :
                     /\ pc[c] \in Running
                     /\ fh[1] = f => fh[2] \in hits /\ <<f, stat[f]>> \notin swapped}]
    /\ UNCHANGED <<ignored, disk, callVars, unread, lapsed>>

Write(f) ==
    /\ \E hits \in SUBSET Hits : Edit(f, edits + 3, hits)
    /\ UNCHANGED swapped

Remove(f) ==
    /\ stat[f] # 0
    /\ Edit(f, 0, {})
    /\ UNCHANGED swapped

\* The text changes under the same size and mtime.
Swap(f) ==
    /\ "swap" \in Faults
    /\ stat[f] # 0
    /\ \E hits \in SUBSET Hits \ {text[f]} : Edit(f, stat[f], hits)
    /\ swapped' = swapped \cup {<<f, stat[f]>>}

\* The ignore rules change.
Ignore(f) ==
    /\ "ignore" \in Faults
    /\ edits < MaxEdits /\ edits' = edits + 1
    /\ IF f \in ignored
       THEN ignored' = ignored \ {f} /\ UNCHANGED <<lapsed, steady>>
       ELSE /\ ignored' = ignored \cup {f}
            /\ lapsed' = lapsed \cup {f}
            /\ steady' = [c \in Calls |-> IF mode[c] THEN steady[c]
                                          ELSE {fh \in steady[c] : fh[1] # f}]
    /\ UNCHANGED <<stat, text, disk, callVars, swapped, unread>>

\* The index is removed, or replaced by one of another tree or version.
Spoil ==
    /\ "spoil" \in Faults
    /\ edits < MaxEdits /\ edits' = edits + 1
    /\ disk' \in {Nothing, Alien}
    /\ UNCHANGED <<stat, text, ignored, callVars, historyVars>>

-----------------------------------------------------------------------------

Search(c) ==
    \/ Load(c) \/ Check(c) \/ Walk(c) \/ ReadFiles(c) \/ Imprint(c)
    \/ Save(c) \/ Query(c)

Next ==
    \/ \E c \in Calls : Search(c)
    \/ \E f \in Files : Write(f) \/ Remove(f) \/ Swap(f) \/ Ignore(f)
    \/ Spoil

Spec == Init /\ [][Next]_vars

-----------------------------------------------------------------------------
(* Properties *)

Sound(f) == <<f, stat[f]>> \notin swapped \cup unread

\* While the saved index passes for fresh with a scan that finds every file, its
\* postings are what is in the files now, except in a version of a file that no build
\* could read or that changed under its stat: whatever was edited between the walk,
\* the reads and the save, and whatever the walk of the build had missed.
\* (staleness_reason, rebuild_incremental_with_options)
FreshMeansCurrent ==
    \A m \in BOOLEAN :
        /\ disk \notin {Nothing, Alien}
        /\ ~IsStale(disk, m, Walked(disk.mode), Walked(disk.mode))
        => \A f \in Walked(m) : Sound(f) =>
                \E i \in Live(disk) :
                    /\ disk.files[i].path = f
                    /\ \A h \in Hits : h \in text[f] <=> <<i, h>> \in disk.postings

\* A search reports every hit that was there all the time it ran, whoever builds,
\* saves or spoils the index meanwhile, with three exceptions: hits in a version that
\* a build has failed to read, as it does with files over 10 MB; hits in a version
\* whose text changed under its stat; and hits in a file that the search's own walk,
\* or the scan that took the index for fresh without it, has missed.  Only within
\* these is it true that "the index never introduces false negatives".
\* (select_regex_prefilter_literals)
NothingIsMissed ==
    \A c \in Calls : pc[c] = "answered" =>
        \A fh \in steady[c] : fh \in result[c] \/ <<fh[1], stat[fh[1]]>> \in swapped

\* A search that was not asked for ignored files reports none, whoever built the
\* index, unless the ignore rules came to exclude them later.  (staleness_reason:
\* "leaks gitignored content into a default query")
NothingLeaks ==
    \A c \in Calls : pc[c] = "answered" /\ ~mode[c] =>
        \A fh \in result[c] : fh[1] \in ignored => fh[1] \in lapsed

\* A search that has found the index stale and rebuilt it reports the hits of a
\* sampled file that was swapped before: the fingerprint is for that.
\* (staleness_reason: "a wholesale same-path swap [...] is caught here")
SwapIsRepaired ==
    \A c \in Calls :
        pc[c] = "answered" /\ route[c] = "rebuilt" /\ (\A d \in Calls : ~mode[d]) =>
            \A fh \in steady[c] : fh[1] \in Top => fh \in result[c]
=============================================================================
