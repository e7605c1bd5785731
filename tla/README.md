# tensor-grep: specifications and proofs

TLA+ models of the parts of tensor-grep (`tg`) where several processes or
several fallible steps have to agree, the TLC runs that check them, and the
theorems TLAPS proves about them. Paths are relative to the repository;
`cli/` is `src/tensor_grep/cli/`.

## 1. Inventory

`tg` is a command line, an MCP server and a warm daemon over a search and
code-analysis engine, in Python (`src/tensor_grep`) and Rust
(`rust_core/src`). A query is computed from files and forgotten. What outlives a
query are small JSON stores under `.tensor-grep/`, which any number of `tg`
processes, daemons and coding agents share with no server between them. There is
the concurrency, and most of what can go wrong without a test noticing.

| component | state | operations | interacts through | hard behaviour | correct when |
|---|---|---|---|---|---|
| index lock (`cli/_index_lock.py`; twin `rust_core/src/index_lock.rs`) | the lock file, its token and mtime; a heartbeat thread per holder | acquire, poll, reclaim a stale lock, beat, release | every store wraps its read-modify-write in it | crashes, late threads, reclaimers racing, failing I/O | one holder; a live holder is never reclaimed; a wait ends; a time-out is honest |
| checkpoint store (`cli/checkpoint_store.py`, `checkpoint_retention.py`) | `index.json`, a directory per checkpoint | create, prune, rebuild the index from metadata, list, `--last` | index lock; undo reads its directories; discovery rebuilds its index | creates out of order, failures half way, rebuild against create, crash before prune | what is listed can be restored; the newest are kept; nothing leaks |
| checkpoint undo (`undo_checkpoint`) | working tree, staging directory, bytes saved for the revert | pre-flight, stage, commit, revert | reads a checkpoint that retention may remove; writes a tree that others write | failure at any step, torn copies, interrupts | all or nothing; never loses content; discloses what it discards |
| ledger (`cli/ledger_store.py`) | claims, findings, content-addressed blobs | claim, release, list, record, find, collect blobs | index lock; agents read it without the lock | eviction at a cap, expiry, blob collection against readers | a recorded entry is found until it expires or is evicted; overlaps are reported |
| session store (`cli/session_store.py`) | session index, payloads, serve cache | open, refresh, get, prune | index lock; the daemon's threads share the cache | refresh against prune, build against snapshot, crash while pruning | a session served as fresh matches the files |
| session daemon (`cli/session_daemon.py`) | `daemon.json`, start lock, child process, implicit sessions | start, autostart, probe, stop, idle shutdown | spawns a process and finds it again through a file | start races, stale metadata, shutdown against publish | one daemon is found; every start returns or raises |
| external LSP provider (`cli/lsp_external_provider.py`) | child process, pending requests, reader thread | start, request, cancel, restart, stop | pipes and threads | late answers, time-outs, a dying child | each request is answered once or fails |
| trigram index (`rust_core/src/index.rs`, `main.rs`) | `.tg_index`: entries with stat, postings, a fingerprint of the tree | load, staleness check, full and incremental build, locked save, query | the Rust lock; the files it indexes | edits between walk, read and save; two builds at once; ignore rules | no hit is missed, no ignored file shown, an index that passes for fresh is current |
| routing (`rust_core/src/routing.rs`, `core/pipeline.py`) | none | choose a backend | flags, measurements | overlapping conditions | explicit choices are obeyed |
| search backends, GPU, ranking, repository map, capsules, structural scan, rewrite, evidence, MCP, CLI | none that is shared | scan, score, print | call the above | size of data, not order of steps | output equals a reference |

Data-parallel scans, scores, parsers, signatures and output formats are outside
what TLC can say anything about. They are listed in `PROJECT.json` as
`not_modelled` with the reason. `PROJECT.json` also lists the hazards, each at
its line with the properties that guard it; one that has none yet says why.

## 2. Modules

| module | models |
|---|---|
| `IndexLock` | `index_lock`, `_heartbeat_loop`, `_release_lock`, `_token_for_lock` |
| `Mutex` | what `index_lock` promises; `IndexLock` implements it |
| `CheckpointStore` | `create_checkpoint`, `_select_retained_checkpoints`, `_rebuild_index_from_checkpoint_metadata` |
| `UndoCheckpoint` | `undo_checkpoint`, `_paths_modified_since_checkpoint`, `_bytes_or_abort_undo` |
| `Ledger` | `submit_claim`, `release_claim`, `record_finding`, `find_findings`, `_evict_findings_over_cap`, `_gc_orphaned_blobs` |
| `SessionStore` | `open_session`, `refresh_session`, `_prune_session_records`, `_SessionServeCache` and the requests served through it |
| `SessionDaemon` | `start_session_daemon`, its nonblocking twin, `stop_session_daemon`, the start lock, `daemon.json`, the lifecycle monitor |
| `LspClient` | `ExternalLSPClient`: `start`, `request`, `stop`, the reader thread |
| `TrigramIndex` | `TrigramIndex::load`, `staleness_reason`, `rebuild_incremental_with_options`, `save_index_locked`, `handle_index_search`, `run_index_query` |
| `IndexLockProofs`, `CheckpointStoreProofs`, `UndoCheckpointProofs`, `LedgerProofs`, `SessionStoreProofs`, `SessionDaemonProofs`, `LspClientProofs`, `TrigramIndexProofs` | inductive invariants and theorems |
| `MC...` | symmetry sets and bounds for TLC |

The stores stand on the lock: each treats a section under `index_lock` as
exclusive (`lock = None` as a guard, or one step), which is what `Mutex`
promises and `IndexLock` is shown to give until a lock file is abandoned.
`SessionDaemon` decides which process answers, `SessionStore` what it answers.

The action comments name the calls they stand for, and `map` in `PROJECT.json`
gives the lines. Definitions whose comment begins with *Mutant* are not part of
any specification: each is a plausible mistake in the definition after it, and
putting it in that definition's place makes TLC report the property that
`PROJECT.json` pairs it with. Variables whose comment begins with *history* are
read by properties only.

### IndexLock

A member of `Calls` is a slot for one call of `index_lock`. The lock file is
`by` (who made the file that the path names now), `signed` (its token has been
written) and `age` (since its mtime). `pc` follows the code: `try` (the `O_EXCL`
open), `stat`, `reclaim` (about to unlink a file judged stale), `deadline`,
`refused` (the deadline test reached after an error of the system: a
`PermissionError` of the open, with or without a lock file there, or an `OSError`
of the stat), `sign` (the file made, the token not yet written), `held`,
`readtoken`, `unlink`. `hb` is the heartbeat thread: waiting, or past its token check and
about to touch. Every file operation is a step of its own, so every window in
the code is a window in the model: judged stale but not unlinked, created but
not signed, token read but not unlinked, beat checked but not touched. Unlink
and touch go by path, so they hit whichever file is there.

Time is a `Tick` that ages the file and the waits. A live thread takes a step
that is due at most `Lag` ticks late (`late`, `quiet`); that is the only
scheduling assumption, and the theorems say how large `Lag` may be. Failures are
switched on by `Faults`: a process dies, an unlink, the token write, the
heartbeat's read or its touch fails, the system refuses an open or a stat
(`denied`).

The history variables are used in properties only. `abandoned` becomes true when a
lock file is left behind by a call that has ended (a crash, a failed unlink, a
lock without token). `witnessed[p]` says that p, during its present wait, has
seen the lock created, signed, touched, released or reclaimed by another live
call.

`ImplementsMutex` is the refinement: a user of `Mutex` is inside from the
creation of its lock file to the end of its release, and `forsaken` is `abandoned`.

### CheckpointStore

The index is a sequence of checkpoints in file order. A directory is `none`, `part`
(no metadata yet), `full` or `gutted`: `rmtree` goes through a directory in no fixed
order, so the metadata file may go first or last, and while it is there a rebuild
takes the ruin for a checkpoint. `rmtree` runs with `ignore_errors=True`: with the
fault `remove` it gives up silently, having removed nothing, the metadata or all but
the metadata, and the call goes on. What a crash or such an error leaves is recorded
as `stranded`, what a rebuild has listed as `revived`; `ListedAreWhole` exempts what
is both. `stamp` is the rank of `created_at`, taken before the lock is. The section
under `index_lock` is one step: the other writers of `index.json` take the same
lock, and the file is replaced atomically. What this leaves out are executions in
which the lock itself fails, which IndexLock is about. Scanners read every metadata
file outside the lock (`Scan`) and overwrite the index under it (`Publish`).

Sorting is modelled by what it does: `NewestFirst` is the set of rearrangements of
the records in which no later one is newer, and `Insert` takes any of them. While
records are listed once there is one such rearrangement, for dates are distinct
(two calls that got the same `created_at` would be a tie the stable sort breaks by
file order, which the model leaves out).

A rebuild that overlaps a create breaks most of what the store promises
(findings below). `raced` records that one has, and the invariants are claimed up
to then; `BeforeRace` stops exploring there. A rebuild that overlaps no create
is part of the checked behaviour.

### UndoCheckpoint

One call of `undo_checkpoint`, from every combination of checkpoint (each path
recorded as present, as deleted or not at all; the whole tree, or one path; with a
`created_at` that parses, `dated`, or not) and working tree. Paths are handled one
at a time and in any order within a loop; the code's order is one of these, and no
property depends on it. Reading the old bytes and unlinking is one step, and so is
copying, except when it fails half way (`CopyTears`). Meanwhile retention may remove
the snapshot (`Lose`), another agent may edit a file (`Edit`), and a file may be
unreadable, not removable, not writable, or not restorable. `hit` records the paths
a torn copy, a failed restore or another agent's edit has touched. `Sample` is
`_paths_modified_since_checkpoint`: without a date it returns nothing, and a path
whose stat raises goes to `unchecked` instead of `diverged`. So `LossIsDisclosed`
claims the disclosure for dated checkpoints only, by either of the two lists; what
is written after the sampling is not part of the claim. (The `stat` fault is an
`OSError` of `is_file` or `stat`; from Python 3.14 on `is_file` swallows it, and the
path is in neither list.) Deadlock checking is on: the undo never stops but at its
end.

### Ledger

A call of the ledger also names the record it makes, so the indexes are sets of
calls. Claims and findings have a lock each. A section that writes one file is
one step; `record_finding` writes a blob, then the index, then unlinks orphans,
and `find_findings` reads the index and the blobs without the lock, so there each
file operation is a step. The clock moves with the calls, for only they compare
times; `stamp` is taken before the lock is waited for, as in the code, so records
may enter the index out of order. A claim may be made under the default id, which
the code treats as the absence of one. A blob is not its artifact: the artifact is
measured as compact JSON and written with `indent=2`, so some (`Inflated`) come to
exceed the bound the blob is read with (`large`) and weigh more than the byte cap
was floored for. Faults: the lock times out, the index write fails, the process
dies in the section, an unlink fails, something spoils a blob, a read of a blob
fails. `claimed`, `recorded`, `released`, `leaked` and `misread` are history.

### SessionStore

A file is its revision, a new number with each edit; a map gives the revision of
each file that was parsed, a snapshot the revision each had when it was
fingerprinted. Parsing and the snapshot are separate steps, and so are payload
write, cache change, unlinks and index write. A request of the daemon loads from
cache or file, fills the cache without its lock, checks the snapshot against the
tree and, when stale, refreshes once (`retried`). An unlink that fails is passed
over by a prune (`UnlinkFails`) and ends the removal of an implicit session, whose
record then stays listed (`RemovalFails`); a call whose own write raises ends where
it stands, as by a crash. Payload files that such a failure leaves without a record
are `stranded`. `torn` in a payload is history: the files the map may be wrong
about, because they changed between parse and snapshot or a deadline left them out.
`AnswersAreCurrent` says that nothing else is ever served wrongly as fresh.

### SessionDaemon

`daemon.json` is the daemon it names. A client reads it, pings, and decides; a
removal reads, compares, then unlinks. The start lock is unlinked by path by whoever
judged it stale, and by its releaser without a look at its owner. The loop that
takes it has two attempts: `age` and `reclaim` are the first one's staleness test
and unlink, after which the open is tried again (`relock`); `reage` and `rereclaim`
are the second one's, which unlinks a stale file too and then gives up. A daemon has
an idle limit, an uptime limit, both or none (`IdleLimit`, `UptimeLimit`); with none
its monitor returns at once. A request may hang for ever (`wedged`). `slow` lets any
bounded wait of the code run out, which is also how a live owner's lock comes to be
old. `unaware` is history: the clients and daemons about to act on a look that is
older than the daemon now in `daemon.json`, or that got no answer from it.

### LspClient

One client object, shared by threads. `pc` follows `start` (the fast check, the
lock, the second check, the spawn, the tables' reset, the nested `initialize`
request), `request` and `stop`. A stop sends `shutdown`, which takes an id and a
slot like any request (`shutdown`, `shutting`), then `exit` and the signals, then
clears the tables (`clean`). A failed `initialize` begins the cooldown and stops
what was started. What `_lock` guards is one step, except that a write to the
server's stdin may block: `writer` is who holds `_lock` meanwhile, a call or a reader that
answers a request of its server, and whatever else needs the lock waits.

A slot is a queue of one, and `slot` says which slots are full and of what. A reader
skips a full slot; a stop does not: `put_nowait` raises `queue.Full`
(`CleanRaises`), whoever registered later is not told (`untold`), and the tables
stay. A response that a reader has read and not yet dispatched is `inhand`, so
readers of earlier servers may deliver late; a reader ends with its server or by a
message it cannot parse (`Garble`). `stuck` is a thread that waits for the plain
lock it holds. `early` marks the calls that registered while a start had its server
and had still to replace the tables.

### TrigramIndex

One pattern; a hit is a matching line, and one posting stands for the postings of
all the pattern's trigrams on that line. A file has a `stat` (size and mtime) and a
`text`; a `Swap` changes the text under the stat. A walk or a scan may miss a file
that is there (fault `walk`, `Found`), as `collect_file_entries` does when the walk,
the metadata or the mtime gives an error; a read may fail (`unread`), as it always
does for files over 10 MB. A search walks, reads, fingerprints, saves and queries in
separate steps, with edits in between and other searches saving meanwhile. The
staleness check is one step. A search that dies has saved all or nothing, so a crash
is a search that takes no further step. `steady` is history: the hits a search was
to find all the time it ran. `NothingIsMissed` has three exemptions: versions no
build could read, versions that changed under their stat, and files missed by the
search's own walk or by the scan that took the index for fresh.

## 3. Runs

| run | checks | bounds |
|---|---|---|
| `IndexLock_Safe` | types, `StaleVerdictIsRight`, `ExclusiveUntilAbandoned`, `TimeoutMeansContentionOrRefusal`, `ImplementsMutex` | 3 calls, threshold 4, time-out 6, beat 1, lag 1; crash, unlink, write and denied faults |
| `IndexLock_Live` | `EveryWaitEnds` | 2 calls, same times; crash, write, denied and both heartbeat faults |
| `IndexLock_DoubleReclaim` | `MutualExclusion` is violated | 3 calls, crash |
| `CheckpointStore_Safe` | types, `ListedAreWhole`, `NewestAreKept`, `NoDirectoryIsForgotten` | 4 creates, cap 2, one full discovery, all faults |
| `UndoCheckpoint_Safe` | types, `AbortLosesNothing`, `NoMutationBeforeStaged`, `DoneMeansRestored`, `LossIsDisclosed` | 3 paths, all faults |
| `Ledger_Safe` | types, `OverlapIsReported`, `ClaimsLeaveOnlyWhenDue`, `FindingsLeaveOnlyWhenDue`, `ListedHaveBlobs`, `NoBlobIsForgotten`, `AlarmIsHonest` | 4 calls, an agent with an id and one without, 1 topic, 2 artifacts, one of them inflated, lifetimes 2 and 9, caps 2 and 2, bytes for 2, all faults |
| `SessionStore_Safe` | types, `PayloadsLeaveOnlyWhenDue`, `SessionsLeaveOnlyWhenDue`, `PayloadsAreAccounted`, `AnswersAreCurrent` | 3 calls, 2 files, 1 session kept, 2 edits, all faults |
| `SessionDaemon_Safe` | types, `ExclusiveUntilRobbed`, `HealthyMetadataIsKept`, `EveryOrphanEnds` | 2 clients, 4 daemons, two of another version, with an idle limit, an uptime limit or none; slow, crash, die, wedge |
| `LspClient_Safe` | types, `NoServerIsOrphaned`, `AnswersMatch`, `WaitersAreReachable`, `EveryCallEnds` | 2 threads, one of which may stop, 2 servers, 2 ids; die, slow, stall, garble |
| `LspClient_SelfWait` | `NeverWaitsForItself` is violated | 1 thread, 1 server, die |
| `TrigramIndex_Safe` | types, `FreshMeansCurrent`, `NothingIsMissed`, `NothingLeaks` | 2 searches, a sampled and a nested file, 1 hit, 2 events, all faults |
| `TrigramIndex_Swap` | `SwapIsRepaired` is violated | the same, swap only |

Why these bounds are enough:

* *Lock*: three calls give a holder and two racing reclaimers; the times are the
  smallest that satisfy the assumptions with equality (1 + 3 = 4), where an
  off-by-one shows. `age` and `elapsed` are capped where no comparison tells
  larger values apart. The theorems remove all these bounds.
* *Checkpoints*: four creates at cap 2 let two be dropped by different calls while
  others are in flight. `BeforeRace` stops exploring where a rebuild has
  overlapped a create.
* *Undo* treats paths alike and relates them only through sets, so three paths
  hold one handled, one failing and one untouched, or one diverged, one that
  cannot be checked and one unchanged.
* *Ledger*: four calls are two records that fill a cap, one that overflows it and
  a reader or a release. Of the lifetimes one runs out within the run and one does
  not. Files and symbols overlap alike, so one topic is enough. The inflated
  artifact alone meets the byte cap, and with the other exceeds it.
* *Sessions*: at one kept session every open prunes; three calls are an open, a
  second one that evicts the first, and a refresh or request that meets the
  eviction half way. `MaxEdits` allows an edit before and one during a refresh.
* *Daemon*: two clients race for the start lock. The daemons are two outdated ones
  to begin with, of which one has an idle limit and one no limit, a first of the
  clients' version with an uptime limit and its replacement with an idle limit, so
  each excuse of `EveryOrphanEnds` and each way to end occurs. The theorems
  hold for any number of clients and daemons.
* *LSP client*: two threads, a server and its successor, and an id for each of two
  requests, which is the smallest instance in which an old reader meets a new
  request. `MaxId` bounds when calls begin, not the ids: a start needs one more, and
  so does a stop. With two threads a stop that raises leaves nobody unreachable, so
  the run does not need the excuse `untold`; three threads and five ids do (TLC
  finds the behaviour in a few minutes), and the theorem is for any number.
* *Trigram index*: two searches race to save; one file is sampled by the
  fingerprint and one is not. `MaxEdits` counts edits, missed walks, failed reads,
  spoiled indexes and changed ignore rules together, so a run has any two of them.

The safety runs that pass have between 0.3 and 4.9 million distinct states, the
liveness run of the lock 39 thousand.

Symmetry is used in safety runs only, over values the specification does not tell
apart. `CHECK_DEADLOCK FALSE` is set where the modelled process stops when
all its calls have returned; the lock's and the undo's runs check deadlock.

Fairness is assumed where a liveness property is checked, and nowhere else.

* `IndexLock!FairSpec`: live threads run (`CallStep`, `HeartbeatStep`) and time
  passes (`Tick`). A crash ends the obligation, and nothing obliges a body to end,
  so `EveryWaitEnds` also covers a holder that never leaves. The unlink of a stale
  file is assumed to work: see the observations.
* `SessionDaemon!FairSpec`: the monitor thread of a daemon polls and its shutdown
  goes on (`Lifecycle`), and its handler threads finish (`Handle`) unless their
  request is wedged. Clients owe nothing. A limit that is not positive is
  disabled (`session_daemon.py:95-97`), and with both disabled the monitor returns at
  once (2046-2047): such a daemon never ends by itself, and `EveryOrphanEnds` says
  so, as it says that a request that never ends keeps a daemon without an uptime
  limit.
* `LspClient!FairSpec`: the threads of calls and readers run, weakly fair and only
  while no write blocks: `Moves` is false while somebody holds `_lock` in a write to
  a server that is up, for nothing ends that write but the server.
  `EveryCallEnds` therefore claims something of executions in which `_lock` is in
  the end held by no blocked write (`<>[](writer = Nobody)`); every other wait of
  the code has a time-out, which is a step of the call. It claims nothing of a
  call that waits for `_start_lock` for ever while others take it again and again
  (`Overtaken`): Python's lock knows no turns.

### Findings

* **Two holders after one crash** (`IndexLock_DoubleReclaim`). Two waiters that
  found the same dead lock stale both unlink by path; the second unlinks the lock
  the first has just made. A comment in a test says only one thread can re-create
  the lock, and the test retries the mismatches as scheduling jitter.
* **A start that waits for itself** (`LspClient_SelfWait`). `_start_locked` sends
  `initialize` through `request`, which calls `start` again. When the server has
  ended by then, the thread waits for the plain lock it holds, and so does every later
  start of this client. The comment on `_start_lock` says the locks are separate
  to avoid just that. `EveryCallEnds` excuses the calls that end up behind it.
* **A swap is detected and not repaired** (`TrigramIndex_Swap`). A swap that
  keeps names, sizes and mtimes changes the fingerprint, so the index is stale;
  but the incremental update reads no file whose stat is the old one and records
  the new fingerprint. The search, and all later ones, answer from the old
  postings.

### Observations

What writing and checking the models showed, and no run is kept for. Lines are in
the files named in section 1.

* Lock: when a stale lock cannot be unlinked, `continue` skips the deadline and
  the sleep (`_index_lock.py:228`), and the wait does not end. A directory that may
  not be written to gives `IndexLockTimeoutError` after the full wait, though nobody
  holds the lock (231-237).
* Checkpoints: a rebuild that overlaps a create forgets the checkpoint that was
  published between its reads and its write, or lists one twice
  (`checkpoint_store.py:614`). `--last` takes the first record (1104), which below
  the cap is in lock-arrival order. A torn copy is not reverted, since the saved
  bytes are remembered only after the copy has returned (1365). A rolled-back undo
  leaves the files it had created (1366). `rmtree(..., ignore_errors=True)` (870, 874)
  may leave a directory, whole or in part, that no index lists and nobody removes
  again; if its metadata survived, a rebuild lists the ruin. A `created_at` that does
  not parse makes an undo report no divergence at all (1182-1185).
* Ledger: a blob can exceed the bound of its own read (`ledger_store.py:1002`), since
  the bound was applied to the compact form and the file is indented (1303); every
  find that meets it raises `LedgerIntegrityError` for a finding that is listed and
  undamaged. A transient error of the read (1000-1001) raises the same. The comment
  on the floor of the byte cap (1165-1173) says a record never evicts itself, but an
  inflated blob can exceed the floor.
* Sessions: the docstring of `_prune_session_records` (`session_store.py:458-460`)
  says the index never references a removed payload. It does after a crash, or a
  failed index write, between unlink and write, and when a refresh lists a session
  again whose payload has just been unlinked. No property claims it: what
  `PayloadsAreAccounted` claims is the converse. Payloads of a call that failed
  before the index was written are not collected by anyone. A refresh may list a
  session above the cap until the next prune, and an implicit session may be removed
  while another request has just been given its id (`session_daemon.py:1249`). A
  refresh by another process is not seen by the daemon's payload cache
  (`session_store.py:901`) until a tracked file changes, though
  `docs/CONTRACTS.md:100` describes refresh as the way to see added files. A session
  with an empty snapshot is fresh for ever (549). A refresh cut by the daemon's
  deadline loses the mark of being partial (`repo_map.py:4470`).
* Daemon: the comment on clearing `daemon.json` (`session_daemon.py:721`) does not
  hold after an autostart has released the lock. `stop` reads `daemon.json` again
  after a failed probe (866) and may kill a replacement; a failed stop still
  reports stopped. A healthy daemon that answers a ping late is replaced. The
  monitor counts requests once and shuts down later (2066), so one accepted in
  between is cut off.
* LSP client: `stop` does not catch `queue.Full`
  (`lsp_external_provider.py:617-618`), as the reader does (1083-1087), so a slot
  that is full already cuts its cleanup short. A request whose write fails stays
  registered. A write to stdin holds `_lock` and has no time-out (668-672, 725-726):
  a server that does not read blocks its caller, then its reader and every stop. The
  request tables are replaced without their lock (513), so a thread that registered
  with the new server waits for its time-out; another thread may send before
  `initialized`; the end of an old reader closes requests to the new server. The
  readiness flags are never reset (1016).
* Trigram index: a file over 10 MB or unreadable during a build has no postings and
  passes for indexed (`index.rs:866`). A file that a walk misses (1464-1485) is
  missed by that search. One with an mtime before the epoch is found by the scan of
  the staleness check and dropped by every build, so its hits are missed and the
  index is always stale. A nested file that was ignored after it had been indexed is
  still reported, as is one indexed by a build that ran before the rules changed
  (`lapsed`). A swap between the reads and the fingerprint cannot be detected.
  Tombstones are never compacted.

## 4. Proofs

Every theorem holds for all values of the constants that satisfy the assumptions
of its module: any number of calls, threads, files or daemons, and every
combination of the faults.

`IndexLockProofs` (time is any natural numbers):

* `TypeCorrect`.
* `StaleVerdictCorrect`, `MutualExclusionUntilAbandoned`, for heartbeats whose own
  I/O works (`HeartbeatIOWorks`). `StaleVerdictIsRight` speaks of the file's age
  only. The strengthening `FileInv` bounds the age of a live call's file by how
  long ago its thread last acted: by `late` before it signs, by `quiet` while the
  heartbeat runs, and by one and two more lags in the two steps of the release.
  The sum is `BeatEvery + 3 * Lag`, which is the `HeartbeatAssumption`; with one
  lag less the proof fails, so the bound is what the protocol needs. `OwnerInv`
  adds that, until a file is abandoned, the file on disk is the holder's and no
  waiter stands before an unlink.
* `TimeoutHonest`: `WaitInv` says that a waiter that saw no use of the lock looks
  at a file at least as old as its wait, which would have become stale first; so it
  gives up only where the system has refused its last open or stat.
* `LockFileImplementsMutex`, the refinement: under `FileInv` and `OwnerInv` the
  creation of the lock file is `Enter`, what ends a hold is `Exit`, all else
  stutters. It too is for heartbeats whose own I/O works.

The production values are 10 s, 12 s and a 3.3 s interval, so the theorems hold
when every step is less than 2 s late. That figure is the whole content of the
"practically unreachable" residual in the docstring of `_release_lock`.

`UndoCheckpointProofs`:

* `TypeCorrect`.
* `AbortIsLossless`: `SavedInv` says a path the undo has not handled is as it was,
  and one it has handled is as it was, had nothing to lose, or is saved.
* `NothingTouchedBeforeStaged`, from `StagedInv`.
* `DoneIsRestored`: `RestoredInv` follows each of the three loops.
* `LossDisclosed`: `DisclosedInv` says what the user wrote is newer until it is
  sampled and from then on, if the checkpoint has a date, in `diverged_paths` or
  `divergence_unchecked_paths`.

`CheckpointStoreProofs` (`Creators` finite; any cap of at least 1):

* `TypeCorrect`. It holds also after a rebuild has raced with a create; that the
  index lists a checkpoint once holds up to then, as do the three invariants below.
* `ListedCanBeRestored`, `DirectoriesAreAccounted`: `DirOf` gives each state of a
  directory the calls that can have left it so, and `ListInv` says that a listed
  checkpoint is one whose call has written the index, and that what a call has yet
  to remove was listed once and is not listed now. A directory whose removal was cut
  short or swallowed its errors is a case of its own (`stranded`). With this a
  removal never hits a directory whose record stays. `CalmOf` says that what an
  undisturbed rebuild has read is still what is there, because no call runs: so
  `Publish` puts back no record that was dropped (`PublishAtRest`), and needs the
  removals to have ended, which is why `raced` counts calls that only prune.
* `NewestStay`: the index alone does not say why a checkpoint left, so `KeptInv`
  counts the newer ones among all that were ever listed. `DroppedAreOld` says the
  cut drops records with `Cap` newer ones before them; it rests on `CutPartition`
  and on dates being distinct (`StampInv`).

`LedgerProofs` (`Calls` finite, so that records can be counted):

* `TypeCorrect`. The clock stays within the number of calls because it counts
  those that have begun (`ClockInv`).
* `BlobsOutliveListings`, `BlobsAreCollected`: `SectionInv` ties the call in the
  section to what it has on disk and to what it has yet to unlink, none of which is
  listed; `Accounted` gives each blob on disk an owner. They rest on `LockInv` (the
  section is exclusive) and `RecordInv` (a record never changes).
* `OverlapsAreReported`: a claim enters the index in the step that looks at all
  that are live, so of two that are listed the later one has seen the earlier.
* `ClaimsLeaveWhenDue`, `FindingsLeaveWhenDue`: `DueStaysDue` and `HistoryGrows`
  say that the three excuses, once true of a record, stay true; for bytes, more
  records weigh no less (`FewerBytes`).
* `AlarmsAreHonest`: `ReadingInv` says a find verifies findings that were in the
  index, so with `ListedHaveBlobs` a missing blob means one that has left it; any
  other alarm is about a blob that is damaged, too large or unread.

`SessionStoreProofs` (`Calls` finite; any files, any number of sessions kept):

* `TypeCorrect`.
* `PayloadsAreSafe`, `SessionsAreSafe`: neither is inductive, for a payload is
  unlinked before the index that drops its session is written, and a
  crash may come between. `SectionInv` says that whatever the call in the section
  has yet to unlink may go (`MayGo`: it was removed as implicit, or `SessionMax` newer
  ones have a date) and is not in the index the call will write. What may go may go
  ever after (`MayGoStays`), because dates are given once and in order. `DueInv` is the
  retention properties for every session with a date, listed or not yet: an open
  may find its own new session among the oldest.
* `NoPayloadIsLost`: `GoneInv` says that what the section drops is on its list until
  its payload is unlinked, and that a payload found there afterwards was left by a
  failure (`StrandedStays`) or written by a refresh that has yet to list the
  session. `AccountedStep` draws the conclusion for the step that writes the index.
* `AnswersHold`, an action property: `FaithfulInv` says of every map, on disk, in the
  daemon's cache or in the memory of a call, that it has the revisions of the snapshot
  beside it except for the torn files. `MakingInv` is what makes that so across the
  edits between parse and snapshot: a file that a refresh has not found changed is
  as the old snapshot has it, or was edited since the call looked (`moved`). The
  step that serves compares the snapshot with the tree, so the map has the tree.

`SessionDaemonProofs`:

* `TypeCorrect`.
* `OneStarterUntilRobbed`: `OwnerInv` says that until a lock file is unlinked under
  its owner, in either attempt or by a release, whoever has the lock is whom the file
  names.
* `HealthyMetadataKept`: `LookInv` says that whoever stands before a removal
  has seen the daemon of `daemon.json` or is in `unaware`.

`LspClientProofs`:

* `TypeCorrect`.
* `NoOrphans`: `LockInv` gives the steps of a start to the holder of `_start_lock`;
  `StopInv` says a stop has ended its victim when it forgets it, also when it
  raises, and that a start spawns over no process.
* `AnswersAreMatched`: `IdInv` says ids are not used again and that an id leads to one
  call, in the tables, in flight or in a slot, across restarts and with the
  registrations failed writes have left.
* `WaitersStayReachable`: a step that replaces or clears the tables would lose the
  calls registered in them, so `WaitInv` adds to the property that while a start may
  be about to replace them (`Exposed`) every waiting call is `Settled`: its slot is
  full, or it is one of the two kinds the property names.

`TrigramIndexProofs` (any finite set of files, any order in which they are walked):

* `TypeCorrect`, from lemmas on what an update makes of an index (`UpdatedEntries`,
  `RebuiltIsIndex`).
* `FreshIsCurrent`: `StatInv` says of every index, saved or in memory, that an entry
  whose stat is the file's has the postings of its text, or the version was swapped
  or unread. It is inductive because a stat is never used again and is taken
  before the text is read. A scan that finds every file then finds what the walks of
  the builds have missed; without that premise the claim would be false.
* `IgnoredIsNotReported`: `LeakInv` says an index built without ignored files holds
  none but those ignored later, and that a search queries one of its own mode.
* `NoFalseNegative`: `DueInv` follows the hits a search owes through its steps: after
  the check (`CheckStep`) and the walk (`WalkStep`) those in files that were found, after
  the reads those in versions that could be read, up to the fingerprint
  (`ImprintStep`) and the query.

Every invariant, action property and refinement that a passing run checks is stated
by a theorem. Model-checked only are the three liveness properties, `EveryWaitEnds`,
`EveryOrphanEnds` and `EveryCallEnds`: liveness under fairness is beyond the prover.
The violation runs need no proof. No module that is proved about uses a recursive
operator. TLC checked each inductive invariant of the two stores on the instance of
their run before it was proved.

## 5. Not modelled

Of the modelled components:

* Lock: the retries of `replace_with_retry` (one atomic replace), the Rust twin's
  silent token failure.
* Checkpoints: the disk budget (an early return before anything is written),
  discovery caches and listing (read-only), path containment and symlink refusal
  (before the first phase), pruning of empty directories after an undo, an interrupt
  inside the locked section of a create.
* Ledger: scopes and revisions of the working tree, which are attributes of a
  record that no operation compares; `list`, a read.
* Sessions: the daemon's response cache, which is keyed by the payload a response
  was computed from, the scan limit, unreadable files.
* Daemon: errors of the start lock's `os.open` other than `FileExistsError`, which
  end the call, the token, demand metrics, and the protocol of a request beyond being in
  flight.
* LSP client: open documents, the readiness gate, requests of the server, the
  cache of clients.
* Trigram index: serialisation, choice of literals, case folding, display paths.

Other components, which `PROJECT.json` lists with their reasons, are computations
over data: scans, scores, parsers and graph builders, rewrites, signatures, output.
They keep no shared state and take no steps that interleave; what could go wrong in
them is a wrong result for an input, which needs a reference result more than a
state space. They are by far the larger part of the code, so the models cover a small
share of its lines, and most of the lines in which processes and threads meet.

## 6. Plan

Done: `IndexLock`, `Mutex` and the refinement, `CheckpointStore`, `UndoCheckpoint`,
`Ledger`, `SessionStore`, `SessionDaemon`, `LspClient`, `TrigramIndex`, and the proofs of
section 4. Left, in this order:

1. `CheckpointStore` with its locked section split into the file operations and
   composed with `Mutex`, so that what two holders do to the store is explored, and
   so is an interrupt between the index write and the release.
2. The daemon's response cache on top of `SessionStore`.
3. The readiness gate and the documents of the LSP client, across restarts.
4. Operators checked against reference definitions over bounded inputs: routing,
   rank fusion.

Each store has one passing run with all its faults, so that the number of runs
stays small; violation runs are kept for what contradicts a document.
