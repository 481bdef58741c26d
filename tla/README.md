# TLA+ models of sqtree

sqtree is a compressed skip quadtree in C, with a serial implementation
(`src/lib/serial/Quadtree.c`) and a parallel one on read-log-update
(`src/lib/parallel-rlu/Quadtree.c` over `src/lib/rlu.c`), and a benchmark driver
that runs both. This directory models the parts of it that carry its own logic,
checks them with TLC on small instances and proves some of their properties with
TLAPS for all instances.

## 1. The system

| part | source | state | operations | depends on |
|---|---|---|---|---|
| RLU, fine-grained mode | `lib/rlu.c`, `lib/rlu.h` | two global version counters; per object a copy pointer, which is also its lock; per thread a run counter, versions, flags, a ring of write sets with three counters, a wait table, a free list | `rlu_reader_lock`, `rlu_reader_unlock`, `rlu_abort`, `RLU_DEREF`, `rlu_try_lock`, `rlu_assign_pointer`, `rlu_alloc`, `rlu_free`, `rlu_sync_checkpoint`, `rlu_thread_init`, `rlu_thread_finish` | shared memory only |
| RLU, coarse-grained mode | `lib/rlu.c` | `g_rlu_writer_locks`, the writer locks listed in a write set | `rlu_try_writer_lock`, `rlu_lock` | the above |
| RLU thread registry | `lib/rlu.c` | `g_rlu_threads`, `g_rlu_cur_threads`; per thread `uniq_id` | `rlu_thread_init`, the walks of every sync | used by quiescence, stealing, sync requests |
| serial skip quadtree | `lib/serial/Quadtree.c` | nodes: square or point, centre, length, parent, up, down, 2^D children | init, search, add, remove, free | geometry, random numbers |
| parallel skip quadtree | `lib/parallel-rlu/Quadtree.c` | the same nodes, each an RLU object | the same, each one RLU section; add retries ten times | RLU, geometry, random numbers |
| geometry | `lib/Quadtree.h`, `lib/Point.[ch]` | none | `in_range`, `get_quadrant`, `get_new_center`, `Point_equals`, `Point_compare`, `Point_copy` | - |
| random numbers | `lib/util.[ch]` | two 32-bit words per thread | `Marsaglia_rand`, `Marsaglia_random`, seeds | - |
| tests | `lib/test.[ch]`, `lib/assertions.h` | counters | test cases | everything |
| benchmark driver | `benchmark/benchmark.[ch]` | `STARTED`, `ACTIVE`, per worker a packet and a ring of points | start, run, stop | tree, RLU registry |

How they interact. A tree operation of the parallel tree is one RLU section: it
dereferences nodes, locks the ones it rewrites (`TRY_OR_FAIL`), assigns pointers in
its private copies, and commits or aborts. RLU threads interact through the copy
pointers of objects, through the two version counters, through each other's
`run_counter`, `local_version` and `writer_version`, and through `is_sync`
requests. The driver's threads interact with each other only through the tree,
through `STARTED`/`ACTIVE`, and by registering with RLU.

What is hard. Version counters that are loaded and incremented in separate steps;
pointers that are loaded, and used after a version check; write sets that are
reused while a reader may still be in them; objects that are written back and
unlocked one at a time; aborts, and sections that go on after a failed lock; nodes
freed while readers may still reach them; writers that wait for each other; in the
tree, relations between levels that every insertion and every cascading removal
has to keep. `PROJECT.json` lists these hazards with their lines.

What makes each part correct:

- RLU: a section reads one snapshot and keeps it; committed writes are not lost and
  aborted ones do not show; an object has one owner; a write set is not reused
  while anybody can look at it; freed memory cannot be reached; asserts hold; waits
  end.
- tree: the set of points is what the answers of add, remove and search say; every
  pointer has its counterpart (parent/child, up/down); levels are nested; nothing
  is freed that is still linked; no square is left that a compressed tree would not
  have.
- geometry: the quadrants partition a square, and agree with `in_range`.
- driver: every worker stops, and a point read from the ring was written there.

## 2. Modules

| module | what it is |
|---|---|
| `Rlu` | the library, one action per access to shared memory, with an unrestricted client |
| `RluTxn` | composes `Rlu` with a client whose sections are transactions on groups of objects |
| `RluReclaim` | composes `Rlu` with a client that allocates, links, unlinks and frees nodes as the parallel tree does |
| `RluProofs` | types, locks, logs and the ring of `Rlu`, proved |
| `RluViewProofs` | the pointers of sections, and versions, proved for any client of `Rlu` |
| `RluVersionProofs` | lemmas about versions and committed copies that the two modules below share |
| `RluTxnProofs` | `RluTxn`: it implements `Rlu`, nothing is lost, no assertion fails, sections read snapshots, proved |
| `RluReclaimProofs` | `RluReclaim`: no freed node is used or freed again, proved |
| `QuadtreeNodes` | what both trees share: points, squares, nodes, their pointers, and the insertion of one node |
| `PointSet` | what the serial tree promises: a set of points and one call at a time |
| `SkipQuadtree` | the serial tree on all its levels; implements `PointSet` |
| `SkipTreeProofs` | how squares and quadrants lie to each other and to `in_range`, what a skip quadtree is, and that the operations on pointers keep it one, proved |
| `SkipProofs` | all that the run `tree` checks of `SkipQuadtree` but for `CallsReturn`: the invariant of the calls, and `PointSet` implemented, proved |
| `SharedSet` | what the parallel tree promises: a set that the threads change one at a time |
| `ParallelQuadtree` | the parallel tree on all its levels, its calls as sections of a reduced RLU; implements `SharedSet` |
| `Benchmark` | the driver: start, stop and join of the workers, and their rings |
| `RluThreads` | composes `Benchmark` with the registry of threads of RLU |
| `RluThreadsProofs` | the driver's safety for any number of workers; `RluThreads` implements `Benchmark`, and no sync misses a section; proved |
| `MCRlu`, `MCRluTxn`, `MCRluReclaim`, `MCSkipQuadtree`, `MCParallelQuadtree`, `MCRluThreads` | instances for TLC |

### Rlu and the code

Each variable is a field: `gWriter`, `gCommit` the global versions; `actual`,
`copyOf` an object and its header; `run`, `localV`, `steal`, `check`, `writeDet`,
`isSync`, `wver` the thread's `run_counter`, `local_version`, `is_steal`,
`is_check_locks`, `is_write_detected`, `is_sync`, `writer_version`; `head`, `wb`,
`tail` the three counters of the ring; `log` the contents of the write sets;
`qrun` and `qi` the wait table and the loop index of the quiescence functions;
`freeList` the nodes to free. `pc` and `ret` say where a thread is and where its
call of `rlu_sync_and_writeback` returns; `arg`, `ptr`, `ver` are locals that live
across steps. `view` is the pointer the client has got for an object in this
section. `shape` remembers a write-set header that has no copy behind it: the
sizes and addresses in the buffer are otherwise abstracted to "which object has
which copy in which log".

A call is cut where another thread can tell the difference:

| call | actions |
|---|---|
| `rlu_reader_lock` | `ReaderLock` (checkpoint), `Register`, `RegVersion`, `RegCommit` |
| `RLU_DEREF` | `Deref` (header), `DerefCheck` (owner's version) |
| `rlu_try_lock` | `TryLockHeld`, `SendSyncRequest`; or `TryLockFree`, `TryLockCas` |
| `rlu_reader_unlock` | `ReaderUnlock`, perhaps a sync, `Checkpoint` |
| `rlu_abort` | `Abort`, `UnlockObj` per object, `ResetAborted`, `Checkpoint` |
| `rlu_sync_and_writeback` | `SyncEnter`, `Publish`, `BumpWriter`, `InitQuiescence` and `WaitQuiescence` per thread, `ResetSets`, `WriteBack` per object, `Retract`, `BumpCommit`, `ProcessFree` |
| `rlu_thread_finish` | `ThreadFinish`, sync, `ThreadFinish`, sync |
| `rlu_assign_pointer` | `Write` |
| `rlu_alloc`, `rlu_free` | `Alloc`, `Free`, used by `RluReclaim` |

A failed `RLU_ASSERT` ends the process: `pc` becomes `"crashed"` and nothing moves
any more. Fields that are dead between sections are cleared on leaving, which
merges states that no step distinguishes.

`RluTxn`: the objects come in groups; a section that locks one object of a group
has to lock and increment all of them before it commits. So members of a group are
equal in every consistent state, a torn read shows as two different values, and the
value counts the commits. `TolerateFailure` chooses whether a section aborts after a
failed lock (`Quadtree_add`) or goes on (`Quadtree_remove`).

`RluReclaim`: a parent with one child slot. Adders lock the parent and link a fresh
node; removers lock the child, check the slot, lock the parent, clear the slot and
free the child; readers follow the slot.

### QuadtreeNodes, SkipQuadtree and the code

`QuadtreeNodes` has the geometry (`in_range`, `get_quadrant`, `get_new_center`,
`Point_equals`), the names of nodes, and as functions from heaps to heaps what the two
files have in common: `Stack` (a new level), `WithPoint` and `WithSquare` (the two
cases of `Quadtree_add_helper`), `NextGap`, `FirstSquare` (a quadrant as a square; a turn
of the loop that halves a square until two points part) and `Split` (the whole of that
loop). The serial model applies them a step at a time, the parallel one to the copies of a
section.

`heap` maps every allocated node to its `parent`, `up`, `down` and `child` pointers.
A node is named by what never changes while it is linked (square or point, centre,
side length) and a copy number, so `malloc` is the least unused number; the length of
a point is left out because nothing reads it. The other variables of `SkipQuadtree` are the locals of
the call in progress: `cur` the node it looks at, `gap` the `gap_depth`, `frames` the
squares and gaps that the recursive calls of `Quadtree_add_helper` still have to
insert into, `sq` the centre and length of its `square` while it is halved, `low` its
`down_node`, `pending` the nodes on which
`Quadtree_remove_node` and `Quadtree_free_helper` still have to recurse, in the order
of the code. `call.was`, `lost` are history.

| code | actions |
|---|---|
| up to the top level | `GoUp`, `AtTop` |
| `Quadtree_search_helper` | `SearchStep` per call |
| `Quadtree_add`, coin flips | `Climb` (makes a missing level), `StopClimbing` |
| `Quadtree_add_helper`, going down | `AddEnter` (range), `Walk` (turn of the do loop), `WalkEnds` (duplicate, next level) |
| `Quadtree_add_helper`, coming back | `SkipLevel`, `InsertInEmptySlot`; `StartSquare`, `HalveSquare` (turn of the loop that halves the square), `SplitBottom`; `SplitUpper`, `FindDown` (turn of the loop for the down square), `FoundDown`; `AddDone` |
| `Quadtree_remove_helper` | `Locate` per call |
| `Quadtree_remove_node` | `RemoveNode` per call: checks, unlinking, free, and the nodes to recurse on; `RemoveDone` |
| `Quadtree_free`, `Quadtree_free_helper` | `FreeLevel`, `FreeNode`, `FreeDone` |

At the end of a call the model forgets nodes that no pointer chain from the caller's
root reaches (the code leaks them) and notes in `lost` what they were: that keeps the
state space finite without a bound on the number of calls. `Finish` follows the pointers
as many steps as there are nodes; that this is far enough is an induction the prover
cannot do, so `Finish` asks whether the result is closed and would forget nothing if it
were not.

Coordinates are integers in a unit of the model's choice. `LengthsAssumption` says what the
lengths of squares are: the root's, halved down to `Finest`, exactly and with `PRECISION`
below half of the finest. In the code they are doubles, and halving is exact until it
underflows. `PointsAssumption` says what points are asked for: none is left of an edge
of a possible square by `PRECISION` or less (where the tree does go wrong, section 6), and two
of them are in different cells of half the finest length, so that the halving of a square
ends at `Finest` at the latest. The run uses 32, 16, 8 and 4 and `PRECISION` 1. The
recursion is a stack in the state, not a recursive operator, so that the module can be
proved about.

`IsASet` maps `points` to the points of the lowest level at every step of a call, also
in the middle: add changes it when the lowest level is linked, remove when the last
copy goes, and the answer must agree with the change.

### ParallelQuadtree and the code

Composed with `Rlu` the tree would be far out of TLC's reach, so of RLU this module
keeps what `Rlu` and `RluTxn` are shown to give (while no two writers take one version,
section 5): a section reads one snapshot, `base`, which is the published tree `heap`
under the write sets `kept` its own thread has committed and not published; its copies
are `own`; `log` are the nodes a thread has locked, which stay locked until the abort or
the write-back; a lock that is held fails and sets `is_sync` of both threads; a sync
publishes, waits for the sections that run, writes back and unlocks node by node, and
frees.

Because a snapshot does not change, the other threads decide nothing in a section but
which of its locks fail. So a section is cut at its calls of `rlu_try_lock` only: what it
reads, and what it will lock in which order, is computed when it starts (`plan`), and
then each lock is a step. That the copy that a lock makes at that later time is of what
the section has seen is not assumed: `AsSeen` checks it.

| code | actions |
|---|---|
| `rlu_reader_lock` | `Begin` (checkpoint), `Start` (snapshot) |
| `Quadtree_search`, `_helper` | `Found` in `Start`; `SearchEnds` |
| `Quadtree_add`, coin flips and descent | `WithLevels`, `Frames`, `Adding` in `Start`: the locks the attempt takes |
| `TRY_OR_FAIL` | `Lock`, `LockFails` |
| end of an attempt | `AddEnds` (commit or abort), `UnlockNode`, `Retry`, `Again` |
| `Quadtree_remove_helper` | `Located` in `Start` |
| `Quadtree_remove_node` | `RemoveNode` (checks, and the locks it takes), `Lock` (each with what is assigned after it), `KeepNode`, `FreeNode` (free, and the nodes to recurse on) |
| `Quadtree_remove` | `RemoveEnds`: commits whatever has happened |
| `rlu_commit_write_set`, `rlu_sync_and_writeback` | `Return`, `Publish`, `WriteBack`, `EndSync` |
| `rlu_thread_finish` | `ThreadFinish` |

Three details of the code that the model keeps. The remover looks at a child square
without `RLU_DEREF` (line 433); the memory of a square that has been split more than once
still has its first centre and length until it is written back, so `draft` says which
squares those are and `Raw` what is read. The answer of an add of which no attempt has
got as far as the assignment of `success` may be either (line 283; `assigned`). A remove
goes on after a lock has failed; if it had changed something by then, `torn` becomes
true.

`IsSharedSet` maps `points` to the points of the lowest level of the tree with all
committed write sets. Each call changes them at one step, its commit, and as its answer
says; a call that answers FALSE may have given up.

### Benchmark, RluThreads and the code

`main` and `pc` are the places of the main thread (`test_random`) and of the workers
(`execute`); `STARTED`, `ACTIVE`, `ready`, `head`, `tail` are the code's. `written` is
the set of entries of `pbuffer` a worker has stored to, also past its end, `inRlu` whether it has
registered. The calls of the tree change nothing in this module. That nobody calls
before all have registered (`StartTogether`) is the assumption under which `Rlu` starts
with a fixed set of threads.

`RluThreads` puts under the driver what RLU does with its table of threads: `cur` is
`g_rlu_cur_threads`, `table` is `g_rlu_threads`, `uniq_id` and `self` the number of each
worker and the block its thread data is in. `TakeId` and `Register` are the two halves of
`rlu_thread_init`; `EnterSection` and `LeaveSection` the sections in a call; `Publish`,
`LookAt` and `WaitFor` a sync with one step per entry in each of its two loops;
`FinishSync` and `Finish` the two syncs of `rlu_thread_finish` and the `free`. The main
thread has registered as 0, filled the tree and finished before the workers exist, so
its entry points to freed memory from the start, and a worker may get that memory
again. Once it has, the entry stands for the worker. Until then a read of it is
undefined: `Odd` takes the run counter for anything, so that the sync may mark the entry
and later find it changed, and `ReadFreed` has the outcomes after which nothing more
comes of the sync (`"hung"`: the value it waits to see changed never changes) or of the
process (`"crashed"`: the page is gone). Versions, logs and rings are in `Rlu`; whether a
call commits and ends in a sync is left to chance here, but that only a thread that has
committed something syncs (`committed`). `older` is history: the sections that were
running when the sync published.

## 3. What is checked

Bounds are constants of the configurations: `NThreads`, `Objs`, `MaxSections`
(sections a thread may start), `MaxWriteSets` and `MaxActiveSets` (200 and the number
of threads plus one in the code). `MaxVersion` (99) stands for `LONG_MAX-1`: the
versions reached are below 20. Objects are symmetric where nothing names one of
them.

| run | instance | shows |
|---|---|---|
| `any_client` | 2 threads, 1 object, 2 sections each, a ring of 2, any calls | `TypeOK`; `LocksMatchLogs`: the copy pointer names the log that holds the lock; `RingFresh`, `ViewsLive`: write sets are reused only when nobody can look at them; `FinishedUnreferenced`: why a thread ends with two syncs |
| `deferred_sync` | 2 threads, a pair and a single object, 2 sections each, ring of 4, up to 2 sets pending: write-backs are deferred, syncs are requested by the other thread, locks conflict, sections abort | `SnapshotUnlessRaced`, `StableReads`: a section reads one snapshot and keeps it; `ViewsLive`, `NoLostUpdate`, `NoAssertFails`, `FinishedUnreferenced`; `RequestsServed`: a request for a sync is taken back only when no lock is held any more |
| `progress` | 2 threads writing one object, 2 sections each, ring of 4, up to 2 sets pending, fair | `QuiescenceReached`: every sync gets through its wait; `LocksReleased`: a lock that a commit leaves held is given back |
| `reclaim` | 2 threads, a parent and one node, 2 sections each | `NoUseAfterFree`, `FreesOnce` |
| `tree` | 2 dimensions, root of length 32; 3 points (two in one small square, one of them on its edge, one that shares a larger square with them) and 1 outside; up to 4 levels, any calls without end, fair | `PointersAlive`, `Linked`, `LevelsNested`, `Compressed`, `OnlyLevelsLost`, `SearchFindsOnOneLevel`; `IsASet`: the tree implements `PointSet`; `CallsReturn` |
| `parallel` | 2 threads, 1 dimension, root of length 32, 2 points that share a square of a quarter of it, the first of them in the tree on one level or two; 2 calls each: add one, remove either, search the other; 2 attempts, write sets of up to 2 calls pending | `AsSeen`, `NoDangling`, `Linked`, `DownSquareFound`: no insertion looks in vain for the square below its own; `FreesUnlocked`, `SearchAgrees`; `IsSharedSet`: the tree implements `SharedSet` |
| `benchmark` | 2 workers with rings of 2, a table of 4 threads, fair | `StartTogether`, `TreeOutlivesWorkers`, `SectionsWaitedFor`, types; `RunEnds`: the run ends, unless a sync is lost in freed data |
| `search_misses` | 3 points on a line, 2 levels | a statement of the tree's code that its behaviour does not keep (section 5) |
| `remove_stays` | as `parallel`, from the tree with two levels | one of the parallel tree's (section 5) |
| `ring_overrun` | as `benchmark` | one of the driver's (section 5) |
| `steal`, `tolerate` | 3 threads: two writers of different groups and a reader; two threads that write one pair in one section each and go on after a failed lock | two of RLU's (section 5) |

Why these bounds are enough to be interesting: two sections per thread make the
ring of two write sets come round and let a sync meet readers that started before
and after it; three threads are the least for two syncs and an independent reader
(`steal`);
two pending sets in a ring of four exercise all three ring counters. Each property
has a mutant of the code model that violates it under the same configuration, so
the instances are large enough to tell.

For RLU's locks two sets pending are the least with a lock that outlives its commit; the
code allows one more than there are threads (`benchmark.c:196`). With two objects the fair
graph of `progress` is too large for TLC, so its threads compete for one; their syncs still
meet, since the second sync of a thread that ends has no lock to write back.

For the tree, four levels are the least with a gap that `NextGap` does not count down (3
becomes 0), and have levels that are neither top nor bottom;
two points in one small square and a third near them give squares inside squares, so
that a removal splices a square out at one level and not at another; calls go on until
no new state appears, so every order of additions, removals, failed additions and
coin flips of these points is covered. `MaxLevels` bounds only the coin flips.

`reclaim` has the constraint `Unraced`: its two properties have the proviso that no two writers
have taken one version, and what comes after that is not followed.

For the parallel tree, two calls of two threads are the least with an add in one thread
that uses what the same thread has committed and not published while the other removes
it, and with a write set of two calls that is freed by one sync. `Attempts` is 2 for ten:
the attempts differ only in the coin flips and in what syncs have done in between, so that
the second is like the later ones. Threads are symmetric. `Whole` is a constraint: the run
ends where a lock has cut a removal short, since what the tree is then is no longer what
anybody states of it (section 5); all properties but `FreesUnlocked` say so
themselves by `torn`. `CHECK_DEADLOCK FALSE` is there because the threads stop when their
calls are made. For the driver, two workers are the least for which a walk over the table
meets an entry above its own and one below, and three entries besides one that is
never used cover the main thread's and a counted one that is not yet entered.

Fairness. The tree's `FairSpec` assumes that the caller's thread keeps running, and the
driver's (`RegistrySpec`) that the main thread and every worker do: all are
threads of the operating system that never block but in loops of their own. For RLU,
`FairSpec` assumes weak fairness of each thread's library steps (a running thread is scheduled), strong
fairness of leaving a section: a section of this program makes finitely many calls and
then commits or aborts, but the client model lets it repeat reads for ever, which
strong fairness rules out; and weak fairness of a thread between sections, which enters
another one or calls `rlu_thread_finish`, as the driver's loop does (`benchmark.c:78-134`).
`LocksReleased` needs the last: with write sets pending, the locks of a thread that did
neither would stay. Nothing is assumed about who wins a lock.

`ParallelQuadtree` has no fairness and no liveness property. An action that tells whether
a step of a thread is enabled has to compute whole attempts, which TLC does once for
every action and state when it checks fairness and does not finish. What there is to
wait for in it is what `Rlu` waits for, in `progress`; that a call takes finitely many
steps is bounded by `Attempts` and, for the recursion on nodes, checked in `tree`.

## 4. What is proved

`RluProofs`: `TypeCorrect`, `Spec => []TypeOK`, by one lemma per action (the inductive
form `TypeInv` adds that a thread in the middle of a dereference or a try-lock knows its
operand); and `LocksMatch` and `RingIsFresh`, that is `Spec => []LocksMatchLogs` and
`Spec => []RingFresh`, for every number of threads, objects, values and sections and every
ring that satisfies the assertions of `rlu_init` (`ConstantsAssumption`, the only assumption
of this module). `LocksMatchLogs` is not inductive: a commit makes the current set pending
and a sync resets sets by their counters, so that the locks still match afterwards depends on
which slots the counters name. The invariant `LockInv` adds, for each thread,

- `RingOK`: head <= write-back <= tail, both windows at most `max_write_sets`, and
  outside a sync strictly less in the second;
- `EmptyOK`: a slot outside the windows and not in use is empty;
- `DetectOK`: until `is_write_detected` is set the current slot is empty;
- `TodoOK`: an abort only unlocks entries of its own set.

The arithmetic core is `ModDistinct`/`IndexDistinct`: counters less than a lap apart
name different slots, whence the current slot is fresh (`CurFresh`) and the slots a
sync resets are none of those it writes back (`PendingNotOld`); this is where
`2 * max_write_sets <= RLU_MAX_WRITE_SETS` is used. `SameInv` is the frame argument
for the threads that do not move; then each action that touches logs or locks has a
lemma of its own. The steps of the client are taken as any calls at all (`ClientStep`), so
that all of this holds in the modules that compose `Rlu` with a client of their own.
`RequestsAreServed` (`RequestsServed`) follows from `LockInv` and `WrittenBackOK`: when a sync
clears `is_sync` everything that was committed is written back, so no slot is pending, and by
`LocksMatchLogs` no object names the thread.

`RluViewProofs`: `ViewsStayLive` and `FinishedIsUnreferenced`, that is
`Spec => []ViewsLive` and `Spec => []FinishedUnreferenced`. A section steals a copy if the
owner's version is not newer than its own, and outside of a sync that version is
`MAX_VERSION`; so nothing holds unless the counters stay below it. `BoundInv` counts: the
writer version is at most the number of write sets ever filled and of syncs under way
(`SyncSet`), which gives `VersionsStayBelow` from `VersionsAssumption`,
`2 * NThreads * MaxSections < MaxVersion` (the code has `LONG_MAX - 1`). The inductive
invariant `ViewInv` says where a stolen copy is: in a log that is still to be written back, or
in one that the next sync of its owner resets, and then that sync awaits the section
(`StolenOK`, `Awaits`); and what a section may still steal when it has loaded the header and
not yet the version (`LoadedOK`).

`RluVersionProofs`: what the two modules below need of versions. A committed copy is not touched before its
write-back; a sync newer than a section waits for it (`AwaitInv`); and, as long as no two
writers have loaded the same version (`NoRace`), a section that finds the commit version equal
to the writer version may read objects without looking at their owners (`FlagsOK`), which
counts the syncs between the two counters (`ActiveOK`, `NewerOK`).

`RluTxnProofs`: `TxnImplementsRlu` (`TxnSpec => Spec`), which carries over all of the above.
`NothingLost` (`NoLostUpdate`): the value of an object is the number of committed
transactions that wrote it, or that less those whose write sets are pending, which are in a
log (`CountInv`). `NoAssertionFails` (`NoAssertFails`), under `TolerateFailure = FALSE`, by
`WholeInv`: only the last entry of a log can be a header without a copy, and then the section
has to abort. `SectionsReadSnapshots` (`SnapshotUnlessRaced`) and `ReadsAreStable`
(`StableReads`): the snapshot of a section is a function of the state (`Snap`: the number of
commits of an object, less one if the last of them is hidden from the section), no step of
another thread changes it (`SnapStep`), all that is read agrees with it, also when the two
looks of a dereference are steps apart (`SlowOK`), and a group is hidden as a whole
(`GroupsOK`). Both hold as long as no two writers have loaded the same version, which is
part of the properties.

`RluReclaimProofs`: `NothingFreedIsUsed` (`NoUseAfterFree`) and `NothingFreedTwice`
(`FreesOnce`), with the same proviso. A node is followed from the section that removes it
(`RemovingOK`) over the commit and the write-back (`GoneOK`: no copy of the parent leads to
it, and the sections that still have a way to it, `MaySee`, are older than the sync and
awaited by it) to `rlu_process_free` (`FreedOK`: out of reach). `ReclaimAssumption` says only that the
empty slot is no node.

`RluThreadsProofs`, of the driver alone: `StartsTogether`, `TreeOutlives` and `DriverTypes` (flags, places and
counters stay in their ranges) for any number of workers and any ring size. The inductive invariant `DriverInv` says what the main thread's loop
index stands for (`MainKnows`: all workers below it have reported ready, or have
ended) and what a worker's place implies (`WorkersKnow`); the two properties follow
from it in a few lines.

`RluThreadsProofs`, of the two composed: `RegistryImplementsDriver`, `RegistrySpec => Spec`, so that the
theorems about the driver hold with the registry under it; and `SectionsAreWaitedFor` for
any number of workers below the size of the table (`RegistryAssumption`). That a sync that
leaves its second loop has waited for everybody needs the inductive invariant
`RegistryInv`: numbers are given out once and are below `cur` (`NumbersOK`), a registered
worker is found under its number and shares its block with no other worker (`EntriesOK`),
sections and syncs are where the driver calls them (`PlacesOK`), and the walk (`WalksOK`):
each section older than the sync that is below the index of the first loop has been
marked, and each that the index of the second has passed is over. The first loop relies on
`StartTogether`: when a sync runs nobody is between the two halves of registration.
`NumbersOK` counts workers, for which `FiniteSetTheorems` is used.

`SkipTreeProofs`, of the geometry: for any number of dimensions and any `PRECISION`, of
squares whose lengths are divisible by four: quadrants lie in their square (`QuadrantsInside`) and share
no point (`QuadrantsDisjoint`); a point of the square is in the quadrant that
`get_quadrant` chooses for it exactly if it is not on the strip of width `PRECISION` left of
a centre (`QuadrantContains`); points that `Point_equals` takes for one have the same
quadrant unless they are within twice that width (`EqualPointsTogether`). All follow from
`InQuadrant`, one dimension of `in_range` of a quadrant. Then the squares that come from the
root by halving: they are the cells of grids (`GridSquare`), so that two of them are
disjoint, equal, or one inside a quadrant of the other (`Laminar`, `HalfOf`), and the
halving loop keeps both points inside until it parts them (`HalvesAroundBoth`).

`SkipProofs`: everything that `tree` checks of the serial tree except that calls return, that
is `Spec => []Inv` for the inductive invariant `Inv` (`InvariantHolds`), and from it
`NoDanglingPointers` (`PointersAlive`), `PointersPaired` (`Linked`), `LevelsStayNested`
(`LevelsNested`), `StaysCompressed` (`Compressed`), `NoNodeLost` (`OnlyLevelsLost`),
`FindsOnOneLevel` (`SearchFindsOnOneLevel`) and `ImplementsPointSet` (`Spec => IsASet`): for
every dimension, root, set of points, number of levels, and every sequence of calls and
coin flips that `LengthsAssumption` and `PointsAssumption` allow. None of the properties is
inductive. `Inv` has two halves.

What a tree is (`TreeOK(h, L)`, in `SkipTreeProofs`). There is a function `L` from nodes to
levels under which

- pointers come in pairs and a child is in its quadrant (`LinksOK`); a copy is the same
  place a level further down, the caller's root is on level 0, and only empty copies of the
  root that a removal has cut off are on no level, -1 (`LevelsOK`); a level has one root
  (`OneRoot`);
- the parent of a node is the least square of its level around it (`LeastOK`): this makes
  the walk along a level find what is there (`Towards`, `OnlyOnce`, `NotOnLevel`);
- where two nodes of a level are in different quadrants of some grid square, the level has
  that square (`PartedOK`). It is what the loop for the down square needs, which tests no
  pointer: the new point and its sibling have copies one level below, the two part in the
  new square, so the square is there (`SquareBelow`), and `FindDown` goes towards it.

No part alone survives an insertion or a removal: that `PartedOK` does when a square is
spliced out uses that the square has one child left, and `LeastOK` after an insertion that
the new square is around exactly the two. `NewRoot`, `InsertPoint`, `InsertSquareIs`,
`CutTree` and the `Cut` lemmas after it take the operations on pointers one at a time; `L`
is a witness that every step names again, not a variable of the model.

Where the calls are (`Located(L)`): the squares an insertion still has to enter are where
the walks of their levels ended, one level after the other, with no copy of the point
above a level of the gap (`FramesOK`); `low` is the copy just below, so that the new node
gets a copy of itself as down node; a removal takes the copies of its point from the
highest down, and what else is pending has a reason to stay or to leave (`PendingOK`,
`StaysIn`, `Leaving`), which is why no node is visited after it has been freed; a search
and a removal stand on a square that is above whatever copy there is (`Searching`,
`Locating`). `Quadtree_free` takes a tree apart, so it has an invariant of its own
(`Freeing`): what is left is closed, level by level and from the leaves up.

Each action has a lemma that proves `Inv'` and, at once, that the step is one of
`PointSet` or leaves its state alone (`Sim`); `EveryStep` collects them.

Not provable here and left to TLC: the liveness properties (`QuiescenceReached`, `LocksReleased`, `CallsReturn`,
`RunEnds`). Not proved: everything about
`ParallelQuadtree`. What its recursive functions compute (`Frames`, `Adding`, `ReachedIn`)
needs induction over data, which is out of the prover's reach as well. The properties of the
runs of section 5 do not hold, so there is nothing to prove of them.

## 5. Where the code and its own statements differ

- `steal`: `rlu_sync_and_writeback` computes its version from a load and increments
  the counter in the next statement (`rlu.c:563-564`). Two threads there at once
  publish the same version, and after the first increment a reader takes both as
  published, against the comment at `rlu.c:837`. Consequences seen in these models: a
  torn snapshot (a section that reads one member of a pair old and one new), hence
  `SnapshotUnlessRaced`; and a reader that starts between the two increments is waited
  for by neither sync, so a node can be freed under it, hence the same proviso, `raced`,
  in `NoUseAfterFree` and `FreesOnce`.
- `tolerate`: a failed compare-and-swap in `rlu_try_lock` leaves a header in the
  write set, and a section that commits nevertheless, as `Quadtree_remove` does
  (`parallel-rlu/Quadtree.c:460`), fails the assertion at `rlu.c:353`.
- `search_misses`: `Quadtree_search_helper` enters a child square without `in_range`
  (`serial/Quadtree.c:96`; the parallel search does the same) and answers false at once
  if the point is not in it. With two levels, and a square on the upper one that covers
  part of a quadrant, points of the rest of the quadrant that are only on the lower
  level are not found. `Quadtree_remove_helper` has the missing test. So `PointSet`
  leaves open what a false answer of a search means.
- `remove_stays`: `Quadtree_remove_node` ignores the result of the recursion on the copy
  below (`parallel-rlu/Quadtree.c:395-396`). If another thread holds the lock of the square
  that is the parent of that copy, which the recursion takes at line 366 (the copy itself
  has been locked by the call above it, line 377), the copy above is gone, the point stays,
  and the answer is TRUE.
- `ring_overrun`: a worker's `head` equals `npoints` after the initial fill, and the first
  insertion with room in the ring stores to `pbuffer[npoints]`, under the comment "within
  buffer" (`benchmark.c:99-101`).

Met while modelling, and not the question of a run of their own:

- Nothing takes the entry of a thread that has finished out of `g_rlu_threads`, and its data
  is freed, the main thread's before the workers exist (`benchmark.c:210`). Every sync that
  has something to write back reads it (`rlu.c:486`), may take what it finds for a running thread,
  against the comment at `rlu.c:489`, and then waits for that memory to change. The model has all
  these outcomes (`Odd`, `ReadFreed`): `SectionsWaitedFor` holds whatever is read, and `RunEnds`
  excepts the runs in which a read ends the process, or its sync for good.
- `goto add_abort` (lines 262 and 266) jumps over the initialisation of `success` (line 283).
  When no attempt has got further than the coin flips, `Quadtree_add` returns a value that
  was never assigned; `ParallelQuadtree` takes either. An add that answers TRUE then breaks
  `AnswersHold`, like the removal of `remove_stays`.
- `(gap_depth > 0) & (gap_depth - 1)` is a bitwise and (`serial/Quadtree.c:158`, `NextGap`), so a
  gap of 3 becomes 0 and a gap of 4 becomes 1 at the next level, and points stand on more
  levels than the coin flips chose, against the comment at line 135. It takes 4 levels, which `tree`
  has; the tree stays a set with nested levels, and by `ImplementsPointSet` and
  `LevelsStayNested` it does for any number of levels.
- A removal that goes on without a lock commits part of what it meant to do (line 460). In
  the models the tree can then have nodes that only an `up` pointer leads to, whose parent
  pointer names a freed square. `parallel` therefore ends there.
- In the serial tree an add that fails after its coin flips leaves empty levels. Removing a
  copy of the root in the middle clears the `down` of the one above, which then has
  neither parent nor down and is refused (`serial/Quadtree.c:249-257`), so it is never
  freed. Nothing else is lost: `OnlyLevelsLost` pins that.

## 6. What is not modelled, and the plan

Not modelled:

- the coarse-grained mode of RLU: nothing in the repository initialises it;
- the random number generator: the models leave every coin flip open;
- what the entries of the driver's rings hold, and the main thread's part before the workers
  exist (populating the tree) and after they have ended (the report);
- `Quadtree_free` of the parallel tree, which its comment does not let run beside other
  calls; it is the serial one's, which is modelled;
- more than `RLU_MAX_THREADS` threads: the code writes past its tables, and
  `RegistryAssumption` excludes it;
- `Point_compare`, the tests, build rules and scripts, which have no state of the system.

Modelled, but not yet the question of a run:

- `get_quadrant` is tolerant by `PRECISION`, `in_range` is not. A point just left of a
  square's edge is put beside that square and not found there again, so it can be added
  twice; the instances keep their points off that strip, and `QuadrantContains` says which
  points are on it.
- the assertion of `rlu_process_free` that a freed node is not locked (`rlu.c:450`), when
  two syncs have taken the same version.

What comes next, most important first:

1. What of `TreeOK` the parallel tree keeps: `SkipTreeProofs` is about the functions from heaps
   to heaps that both trees apply, so its lemmas can be cited for the copies of a section.
2. A model of points on the strip of `PRECISION`, which `PointsAssumption` excludes.
3. `RluWriterLocks`: the coarse-grained mode, if a program comes to use it.
