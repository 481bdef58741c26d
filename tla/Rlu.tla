-------------------------------- MODULE Rlu --------------------------------
(***************************************************************************)
(* Read-Log-Update, src/lib/rlu.c in its fine-grained mode: the library    *)
(* the parallel quadtree synchronises with.  A thread runs sections        *)
(* (rlu_reader_lock ... rlu_reader_unlock or rlu_abort).  In a section it  *)
(* dereferences objects and may lock some: a locked object's header points *)
(* to a copy in a write-set log of the locking thread, and the section     *)
(* writes the copy.  A committed write set is published by                 *)
(* rlu_sync_and_writeback, which waits for the readers that may still look *)
(* at the old objects, copies the log back and unlocks.                    *)
(*                                                                         *)
(* One action is one access to shared memory, or a run of accesses whose   *)
(* interleavings with the other threads cannot be told apart (said at the  *)
(* action).  Memory is sequentially consistent.  Every thread has called   *)
(* rlu_thread_init before the first section starts.                        *)
(***************************************************************************)
EXTENDS Integers

CONSTANTS
  NThreads,        \* threads 0 .. NThreads-1, as uniq_id
  Objs, NoObj,     \* the objects rlu_alloc can return; none of them
  Unallocated,     \* those nobody has asked for yet
  Vals, InitVal,   \* what an object holds, and holds first
  NoVal,           \* "no copy of this object in this log"
  MaxWriteSets,    \* RLU_MAX_WRITE_SETS, the number of logs of a thread
  MaxActiveSets,   \* max_write_sets, write sets kept before a sync
  MaxVersion,      \* MAX_VERSION, the writer version of a thread not in sync
  MaxSections      \* bound: sections a thread may start

(* The RLU_ASSERTs of rlu_init, and what separates the constants.          *)
ASSUME ConstantsAssumption ==
  /\ NThreads \in Nat \ {0} /\ MaxSections \in Nat /\ MaxVersion \in Nat
  /\ MaxWriteSets \in Nat /\ MaxWriteSets >= 2
  /\ MaxActiveSets \in Nat /\ MaxActiveSets >= 1
  /\ 2 * MaxActiveSets <= MaxWriteSets
  /\ Unallocated \subseteq Objs /\ NoObj \notin Objs
  /\ InitVal \in Vals /\ NoVal \notin Vals

(* MAX_VERSION is LONG_MAX - 1 (rlu.c:36), more than the number of write   *)
(* sets that all the threads together ever sync.                           *)
ASSUME VersionsAssumption == 2 * NThreads * MaxSections < MaxVersion

VARIABLES
  gWriter, gCommit,  \* g_rlu_writer_version, g_rlu_commit_version
  actual,            \* contents of the object itself
  copyOf,            \* p_obj_copy in the object's header
  freed,             \* objects whose memory is not allocated
  pc, ret,           \* where a thread is; where its call of sync returns
  arg, ptr, ver,     \* locals: operand, loaded copy pointer, loaded version
                     \* (cleared when they go out of scope)
  run,               \* run_counter: odd inside a section
  localV,            \* local_version
  steal, check,      \* is_steal, is_check_locks
  writeDet, failed,  \* is_write_detected; rlu_try_lock returned 0
  isSync,            \* is_sync # 0
  wver,              \* writer_version
  head, wb, tail,    \* ws_head_counter, ws_wb_counter, ws_tail_counter
  log,               \* obj_write_set: the copies in each log
  wsRun, shape,      \* run_counter of a log's headers; has it a header
                     \* without a copy, and where?
  qrun, qi,          \* q_threads (0: is_wait not set), loop index
  todo,              \* objects still to write back or unlock
  freeList,          \* free_nodes
  view               \* what rlu_deref or rlu_try_lock returned to the client

mem     == <<actual, copyOf, freed>>
clocks  == <<gWriter, gCommit>>
section == <<run, localV, steal, check, writeDet, failed, view>>
locals  == <<arg, ptr, ver>>
ring    == <<head, wb, tail>>
logs    == <<log, wsRun, shape>>
quiesce == <<qrun, qi>>
vars == <<mem, clocks, section, locals, ring, logs, quiesce,
          pc, ret, isSync, wver, todo, freeList>>

Threads == 0 .. NThreads - 1
Slots   == 0 .. MaxWriteSets - 1

(* Pointers.  A copy is addressed by the log it is in; which object it is  *)
(* a copy of is always known from the context.                             *)
CopyPtr(t, s) == [thread |-> t, slot |-> s]
NoCopy == [thread |-> -1, slot |-> 0]
Actual == [thread |-> -2, slot |-> 0]
Unseen == [thread |-> -3, slot |-> 0]
CopyPtrs == [thread : Threads, slot : Slots]

WsIndex(c) == c % MaxWriteSets          \* WS_INDEX
Cur(t) == WsIndex(tail[t])              \* ws_cur_id
Inside(n) == n % 2 = 1                  \* run_counter & 0x1
Locks(t, s) == {o \in Objs : log[t][s][o] # NoVal}
EmptyLog == [o \in Objs |-> NoVal]

Init ==
  /\ gWriter = 0 /\ gCommit = 0
  /\ actual = [o \in Objs |-> InitVal]
  /\ copyOf = [o \in Objs |-> NoCopy]
  /\ freed = Unallocated
  /\ pc = [t \in Threads |-> "idle"]
  /\ ret = [t \in Threads |-> "idle"]
  /\ arg = [t \in Threads |-> NoObj]
  /\ ptr = [t \in Threads |-> NoCopy]
  /\ ver = [t \in Threads |-> 0]
  /\ run = [t \in Threads |-> 0]
  /\ localV = [t \in Threads |-> 0]
  /\ steal = [t \in Threads |-> FALSE]
  /\ check = [t \in Threads |-> FALSE]
  /\ writeDet = [t \in Threads |-> FALSE]
  /\ failed = [t \in Threads |-> FALSE]
  /\ isSync = [t \in Threads |-> FALSE]
  /\ wver = [t \in Threads |-> MaxVersion]
  /\ head = [t \in Threads |-> 0]
  /\ wb = [t \in Threads |-> 0]
  /\ tail = [t \in Threads |-> 0]
  /\ log = [t \in Threads |-> [s \in Slots |-> EmptyLog]]
  /\ wsRun = [t \in Threads |-> [s \in Slots |-> 0]]
  /\ shape = [t \in Threads |-> [s \in Slots |-> "whole"]]
  /\ qrun = [t \in Threads |-> [u \in Threads |-> 0]]
  /\ qi = [t \in Threads |-> 0]
  /\ todo = [t \in Threads |-> {}]
  /\ freeList = [t \in Threads |-> {}]
  /\ view = [t \in Threads |-> [o \in Objs |-> Unseen]]

At(t, l)   == pc[t] = l
Goto(t, l) == pc' = [pc EXCEPT ![t] = l]
CallSync(t, back) == Goto(t, "sync") /\ ret' = [ret EXCEPT ![t] = back]

-----------------------------------------------------------------------------
(* rlu_reader_lock: rlu_sync_checkpoint, then register.                    *)
ReaderLock(t) ==
  /\ At(t, "idle") /\ run[t] < 2 * MaxSections
  /\ IF isSync[t] THEN CallSync(t, "register")
                  ELSE Goto(t, "register") /\ UNCHANGED ret
  /\ UNCHANGED <<mem, clocks, section, locals, ring, logs, quiesce, isSync,
                 wver, todo, freeList>>

(* rlu_reset and the FETCH_AND_ADD of rlu_register_thread.                 *)
Register(t) ==
  /\ At(t, "register") /\ Goto(t, "regversion")
  /\ run' = [run EXCEPT ![t] = @ + 1]
  /\ writeDet' = [writeDet EXCEPT ![t] = FALSE]
  /\ steal' = [steal EXCEPT ![t] = TRUE]
  /\ check' = [check EXCEPT ![t] = TRUE]
  /\ UNCHANGED <<mem, clocks, localV, failed, view, locals, ring, logs, quiesce,
                 ret, isSync, wver, todo, freeList>>

(* local_version = g_rlu_writer_version.  Load and store are one step: a   *)
(* writer polling local_version meanwhile sees the older, smaller value.   *)
RegVersion(t) ==
  /\ At(t, "regversion") /\ Goto(t, "regcommit")
  /\ localV' = [localV EXCEPT ![t] = gWriter]
  /\ UNCHANGED <<mem, clocks, run, steal, check, writeDet, failed, view,
                 locals, ring, logs, quiesce, ret, isSync, wver, todo,
                 freeList>>

(* local_commit_version = g_rlu_commit_version and the flags it decides.   *)
SyncSeen(t) == localV[t] # gCommit
RegCommit(t) ==
  /\ At(t, "regcommit") /\ Goto(t, "in")
  /\ steal' = [steal EXCEPT ![t] = SyncSeen(t)]
  /\ check' = [check EXCEPT ![t] = SyncSeen(t) \/ tail[t] # wb[t]]
  /\ UNCHANGED <<mem, clocks, run, localV, writeDet, failed, view, locals,
                 ring, logs, quiesce, ret, isSync, wver, todo, freeList>>

-----------------------------------------------------------------------------
(* The client's calls inside a section.                                    *)
See(t, o, p) == view' = [view EXCEPT ![t][o] = p]

(* RLU_DEREF up to the load of the header, and what needs nothing more: no *)
(* lock check, an unlocked object, a copy of its own, no stealing.  A copy *)
(* of another thread needs a second load (DerefCheck).                     *)
(* Mutant: the slow path takes an unlocked header for its own.             *)
OwnCopyUnchecked(t, o) == check[t] /\ copyOf[o].thread \notin Threads \ {t}
OwnCopy(t, o) == check[t] /\ copyOf[o].thread = t
Deref(t, o) ==
  /\ At(t, "in")
  /\ \/ /\ \/ ~check[t] \/ copyOf[o] = NoCopy
           \/ copyOf[o].thread # t /\ ~steal[t]
        /\ See(t, o, Actual)
        /\ UNCHANGED <<pc, arg, ptr>>
     \/ /\ OwnCopy(t, o)
        /\ See(t, o, copyOf[o])
        /\ UNCHANGED <<pc, arg, ptr>>
     \/ /\ check[t] /\ steal[t]
        /\ copyOf[o] # NoCopy /\ copyOf[o].thread # t
        /\ Goto(t, "deref")
        /\ arg' = [arg EXCEPT ![t] = o]
        /\ ptr' = [ptr EXCEPT ![t] = copyOf[o]]
        /\ UNCHANGED view
  /\ UNCHANGED <<mem, clocks, run, localV, steal, check, writeDet, failed,
                 ver, ring, logs, quiesce, ret, isSync, wver, todo, freeList>>

(* rlu_deref_slow_path: steal the copy of a writer that published before   *)
(* this section started, else keep to the object.                          *)
(* Mutant: the versions must differ.                                       *)
StealsLater(t) == wver[ptr[t].thread] < localV[t]
Steals(t) == wver[ptr[t].thread] <= localV[t]
DerefCheck(t) ==
  /\ At(t, "deref") /\ Goto(t, "in")
  /\ See(t, arg[t], IF Steals(t) THEN ptr[t] ELSE Actual)
  /\ arg' = [arg EXCEPT ![t] = NoObj] /\ ptr' = [ptr EXCEPT ![t] = NoCopy]
  /\ UNCHANGED <<mem, clocks, run, localV, steal, check, writeDet, failed,
                 ver, ring, logs, quiesce, ret, isSync, wver, todo, freeList>>

(* rlu_try_lock returns 0.  Mutant: the client is told that all is well.   *)
FailSilently(t) == UNCHANGED failed
Fail(t) == failed' = [failed EXCEPT ![t] = TRUE]

(* rlu_try_lock on an object that is locked.  By this section: return the  *)
(* copy.  By an older write set of this thread or by another thread: ask   *)
(* for a sync, perhaps after the lock has been given back, and fail.       *)
LockedHere(t, o) == copyOf[o].thread = t /\ wsRun[t][copyOf[o].slot] = run[t]
TryLockHeld(t, o) ==
  /\ At(t, "in") /\ copyOf[o] # NoCopy
  /\ \/ LockedHere(t, o) /\ See(t, o, copyOf[o]) /\ UNCHANGED <<pc, ptr>>
     \/ /\ ~LockedHere(t, o)
        /\ Goto(t, "request") /\ ptr' = [ptr EXCEPT ![t] = copyOf[o]]
        /\ UNCHANGED view
  /\ UNCHANGED <<mem, clocks, run, localV, steal, check, writeDet, failed, arg,
                 ver, ring, logs, quiesce, ret, isSync, wver, todo, freeList>>

(* is_sync++ of both: the increment is not atomic, but never leaves 0.     *)
SendSyncRequest(t) ==
  /\ At(t, "request") /\ Goto(t, "in")
  /\ isSync' = [u \in Threads |-> u \in {t, ptr[t].thread} \/ isSync[u]]
  /\ ptr' = [ptr EXCEPT ![t] = NoCopy]
  /\ Fail(t)
  /\ UNCHANGED <<mem, clocks, run, localV, steal, check, writeDet, view, arg,
                 ver, ring, logs, quiesce, ret, wver, todo, freeList>>

(* rlu_try_lock on a free object: note the write, add a header to the log. *)
TryLockFree(t, o) ==
  /\ At(t, "in") /\ copyOf[o] = NoCopy
  /\ Goto(t, "cas") /\ arg' = [arg EXCEPT ![t] = o]
  /\ writeDet' = [writeDet EXCEPT ![t] = TRUE]
  /\ check' = [check EXCEPT ![t] = @ \/ ~writeDet[t]]
  /\ wsRun' = [wsRun EXCEPT ![t][Cur(t)] = run[t]]
  /\ UNCHANGED <<mem, clocks, run, localV, steal, failed, view, ptr, ver,
                 ring, log, shape, quiesce, ret, isSync, wver, todo, freeList>>

(* TRY_CAS_PTR_OBJ_COPY and the copy into the log.  When the CAS fails the *)
(* header stays behind at the end of the log, where the next copy puts it  *)
(* inside.  Mutant: a plain store instead of the CAS.                      *)
StoreSucceeds(t) == TRUE
CasSucceeds(t) == copyOf[arg[t]] = NoCopy
TryLockCas(t) ==
  /\ At(t, "cas") /\ Goto(t, "in")
  /\ IF CasSucceeds(t)
     THEN /\ copyOf' = [copyOf EXCEPT ![arg[t]] = CopyPtr(t, Cur(t))]
          /\ log' = [log EXCEPT ![t][Cur(t)][arg[t]] = actual[arg[t]]]
          /\ See(t, arg[t], CopyPtr(t, Cur(t)))
          /\ shape' = [shape EXCEPT ![t][Cur(t)] =
                         IF @ = "end" THEN "inside" ELSE @]
          /\ UNCHANGED failed
     ELSE /\ shape' = [shape EXCEPT ![t][Cur(t)] =
                         IF @ = "whole" THEN "end" ELSE @]
          /\ Fail(t) /\ UNCHANGED <<copyOf, log, view>>
  /\ arg' = [arg EXCEPT ![t] = NoObj]
  /\ UNCHANGED <<actual, freed, clocks, run, localV, steal, check, writeDet,
                 ptr, ver, ring, wsRun, quiesce, ret, isSync, wver, todo,
                 freeList>>

(* The client writes through the pointer rlu_try_lock gave it.             *)
HoldsLock(t, o) == log[t][Cur(t)][o] # NoVal
Assign(t, o, v) == log' = [log EXCEPT ![t][Cur(t)][o] = v]
Write(t, o, v) ==
  /\ At(t, "in") /\ HoldsLock(t, o) /\ Assign(t, o, v)
  /\ UNCHANGED <<mem, clocks, section, locals, ring, wsRun, shape, quiesce,
                 pc, ret, isSync, wver, todo, freeList>>

(* What rlu_alloc and rlu_free change, for clients that reclaim objects.   *)
Alloc(o, v) ==
  /\ o \in freed /\ freed' = freed \ {o}
  /\ actual' = [actual EXCEPT ![o] = v]
  /\ copyOf' = [copyOf EXCEPT ![o] = NoCopy]
Free(t, o) == freeList' = [freeList EXCEPT ![t] = @ \cup {o}]

-----------------------------------------------------------------------------
(* Leaving a section: rlu_unregister_thread and is_write_detected = 0.  The *)
(* private flags are dead until the next section sets them: they are        *)
(* cleared, so that states that differ in them only are the same.  Others   *)
(* may still read local_version.                                            *)
LeaveSection(t) ==
  /\ run' = [run EXCEPT ![t] = @ + 1]
  /\ steal' = [steal EXCEPT ![t] = FALSE]
  /\ check' = [check EXCEPT ![t] = FALSE]
  /\ writeDet' = [writeDet EXCEPT ![t] = FALSE]
  /\ failed' = [failed EXCEPT ![t] = FALSE]
  /\ view' = [view EXCEPT ![t] = [o \in Objs |-> Unseen]]

(* rlu_reader_unlock with rlu_commit_write_set.  The counters are private  *)
(* to the thread, so unregistering and committing are one step.            *)
MustSync(t, newTail) ==
  \/ WsIndex(newTail) = WsIndex(head[t])
  \/ newTail - wb[t] >= MaxActiveSets
ReaderUnlock(t) ==
  /\ At(t, "in") /\ LeaveSection(t)
  /\ IF writeDet[t]
     THEN /\ tail' = [tail EXCEPT ![t] = @ + 1]
          /\ IF MustSync(t, tail[t] + 1)
             THEN CallSync(t, "checkpoint")
             ELSE Goto(t, "checkpoint") /\ UNCHANGED ret
     ELSE Goto(t, "checkpoint") /\ UNCHANGED <<tail, ret>>
  /\ UNCHANGED <<mem, clocks, localV, locals, head, wb, logs, quiesce, isSync,
                 wver, todo, freeList>>

(* rlu_abort: unregister, then unlock the objects one by one and reset the *)
(* log.  The free list is left as it is.  rlu_unlock_objs counts copies,   *)
(* and a header without a copy among them fails its assert.                *)
Abort(t) ==
  /\ At(t, "in") /\ LeaveSection(t)
  /\ CASE ~writeDet[t] -> Goto(t, "checkpoint") /\ UNCHANGED todo
       [] writeDet[t] /\ shape[t][Cur(t)] = "inside" ->
            Goto(t, "crashed") /\ UNCHANGED todo
       [] OTHER -> /\ Goto(t, "unlockobjs")
                   /\ todo' = [todo EXCEPT ![t] = Locks(t, Cur(t))]
  /\ UNCHANGED <<mem, clocks, localV, locals, ring, logs, quiesce, ret, isSync,
                 wver, freeList>>

UnlockObj(t) ==
  /\ At(t, "unlockobjs")
  /\ \E o \in todo[t] :
       /\ copyOf' = [copyOf EXCEPT ![o] = NoCopy]
       /\ todo' = [todo EXCEPT ![t] = @ \ {o}]
  /\ UNCHANGED <<actual, freed, clocks, section, locals, ring, logs, quiesce,
                 pc, ret, isSync, wver, freeList>>

ResetAborted(t) ==
  /\ At(t, "unlockobjs") /\ todo[t] = {} /\ Goto(t, "checkpoint")
  /\ log' = [log EXCEPT ![t][Cur(t)] = EmptyLog]
  /\ shape' = [shape EXCEPT ![t][Cur(t)] = "whole"]
  /\ UNCHANGED <<mem, clocks, section, locals, ring, wsRun, quiesce, ret,
                 isSync, wver, todo, freeList>>

(* rlu_sync_checkpoint at the end of unlock and abort.                     *)
Checkpoint(t) ==
  /\ At(t, "checkpoint")
  /\ IF isSync[t] THEN CallSync(t, "idle")
                  ELSE Goto(t, "idle") /\ UNCHANGED ret
  /\ UNCHANGED <<mem, clocks, section, locals, ring, logs, quiesce, isSync,
                 wver, todo, freeList>>

(* rlu_thread_finish syncs twice: write back, then give the logs back.     *)
(* Mutants: one sync is enough; none is needed.                            *)
FinishUnsynced(t) ==
  /\ At(t, "idle") /\ Goto(t, "finished")
  /\ UNCHANGED <<mem, clocks, section, locals, ring, logs, quiesce, ret,
                 isSync, wver, todo, freeList>>
FinishOnce(t) ==
  /\ At(t, "idle") /\ CallSync(t, "finished")
  /\ UNCHANGED <<mem, clocks, section, locals, ring, logs, quiesce, isSync,
                 wver, todo, freeList>>
ThreadFinish(t) ==
  /\ \/ At(t, "idle") /\ CallSync(t, "finish")
     \/ At(t, "finish") /\ CallSync(t, "finished")
  /\ UNCHANGED <<mem, clocks, section, locals, ring, logs, quiesce, isSync,
                 wver, todo, freeList>>

-----------------------------------------------------------------------------
(* rlu_sync_and_writeback.  Mutant: nothing pending is nothing to do.      *)
NothingPending(t) == tail[t] = wb[t]
NothingToSync(t) == tail[t] = head[t]
SyncEnter(t) ==
  /\ At(t, "sync")
  /\ IF NothingToSync(t)
     THEN Goto(t, ret[t]) /\ UNCHANGED ver
     ELSE Goto(t, "publish") /\ ver' = [ver EXCEPT ![t] = gWriter + 1]
  /\ UNCHANGED <<mem, clocks, section, arg, ptr, ring, logs, quiesce, ret,
                 isSync, wver, todo, freeList>>

(* The store of writer_version, from the value loaded a step ago.          *)
Publish(t) ==
  /\ At(t, "publish") /\ Goto(t, "clock")
  /\ wver' = [wver EXCEPT ![t] = ver[t]]
  /\ ver' = [ver EXCEPT ![t] = 0]
  /\ UNCHANGED <<mem, clocks, section, arg, ptr, ring, logs, quiesce, ret,
                 isSync, todo, freeList>>

BumpWriter(t) ==
  /\ At(t, "clock") /\ Goto(t, "initq")
  /\ gWriter' = gWriter + 1
  /\ qi' = [qi EXCEPT ![t] = 0]
  /\ UNCHANGED <<mem, gCommit, section, locals, ring, logs, qrun, ret, isSync,
                 wver, todo, freeList>>

(* rlu_init_quiescence, one thread at a time.  Mutant: not the last one.   *)
WaitsForButLast(t, u) == u # t /\ Inside(run[u]) /\ u < NThreads - 1
WaitsFor(t, u) == u # t /\ Inside(run[u])
InitQuiescence(t) ==
  /\ At(t, "initq") /\ qi[t] < NThreads
  /\ qrun' = [qrun EXCEPT ![t][qi[t]] =
                IF WaitsFor(t, qi[t]) THEN run[qi[t]] ELSE 0]
  /\ IF qi[t] + 1 < NThreads
     THEN qi' = [qi EXCEPT ![t] = @ + 1] /\ UNCHANGED pc
     ELSE qi' = [qi EXCEPT ![t] = 0] /\ Goto(t, "waitq")
  /\ UNCHANGED <<mem, clocks, section, locals, ring, logs, ret, isSync, wver,
                 todo, freeList>>

(* rlu_wait_for_quiescence: the busy wait is the guard.  Mutants: nobody   *)
(* is waited for; readers of the version before are not; only the version  *)
(* is looked at.                                                           *)
NeverWait(t, u) == TRUE
QuietTooEarly(t, u) ==
  \/ qrun[t][u] = 0
  \/ run[u] # qrun[t][u]
  \/ localV[u] >= wver[t] - 1
QuietByVersion(t, u) == qrun[t][u] = 0 \/ localV[u] >= wver[t]
Quiet(t, u) ==
  \/ qrun[t][u] = 0
  \/ run[u] # qrun[t][u]
  \/ localV[u] >= wver[t]
WaitQuiescence(t) ==
  LET u == qi[t] IN
  /\ At(t, "waitq") /\ u < NThreads
  /\ Quiet(t, u)
  /\ qrun' = [qrun EXCEPT ![t][u] = 0]
  /\ qi' = [qi EXCEPT ![t] = @ + 1]
  /\ IF u + 1 < NThreads THEN UNCHANGED pc ELSE Goto(t, "reset")
  /\ UNCHANGED <<mem, clocks, section, locals, ring, logs, ret, isSync, wver,
                 todo, freeList>>

(* rlu_writeback_write_sets_and_unlock.  First the logs of the sync before *)
(* this one are reset.  A header without a copy in a log to write back     *)
(* fails the assert that ends rlu_writeback_write_set.                     *)
SlotsOf(t, lo, hi) == {WsIndex(c) : c \in lo .. hi - 1}
(* Mutant: the last committed write set is left out.                       *)
PendingButLast(t) == SlotsOf(t, wb[t], tail[t] - 1)
Pending(t) == SlotsOf(t, wb[t], tail[t])
(* Mutant: nothing is reset.                                               *)
NoOldSets(t) == {}
OldSets(t) == SlotsOf(t, head[t], wb[t])
ResetSets(t) ==
  /\ At(t, "reset")
  /\ Goto(t, IF \A s \in Pending(t) : shape[t][s] = "whole"
             THEN "writeback" ELSE "crashed")
  /\ log' = [log EXCEPT ![t] =
               [s \in Slots |-> IF s \in OldSets(t) THEN EmptyLog ELSE @[s]]]
  /\ shape' = [shape EXCEPT ![t] =
                 [s \in Slots |-> IF s \in OldSets(t) THEN "whole" ELSE @[s]]]
  /\ head' = [head EXCEPT ![t] = wb[t]]
  /\ todo' = [todo EXCEPT ![t] = UNION {Locks(t, s) : s \in Pending(t)}]
  /\ UNCHANGED <<mem, clocks, section, locals, wb, tail, wsRun, quiesce, ret,
                 isSync, wver, freeList>>

(* memcpy of one object back and its UNLOCK, one step: between the two the *)
(* copy and the object hold the same.  The order of the log is not kept.   *)
WriteBack(t) ==
  /\ At(t, "writeback")
  /\ \E s \in Pending(t), o \in todo[t] :
       /\ log[t][s][o] # NoVal
       /\ actual' = [actual EXCEPT ![o] = log[t][s][o]]
       /\ copyOf' = [copyOf EXCEPT ![o] = NoCopy]
       /\ todo' = [todo EXCEPT ![t] = @ \ {o}]
  /\ UNCHANGED <<freed, clocks, section, locals, ring, logs, quiesce, pc, ret,
                 isSync, wver, freeList>>

(* ws_wb_counter = ws_tail_counter, then writer_version = MAX_VERSION.     *)
(* Mutant: as if there were always one write set.                          *)
OneWrittenBack(t) == wb[t] + 1
WrittenBack(t) == tail[t]
Retract(t) ==
  /\ At(t, "writeback") /\ todo[t] = {} /\ Goto(t, "commit")
  /\ wb' = [wb EXCEPT ![t] = WrittenBack(t)]
  /\ wver' = [wver EXCEPT ![t] = MaxVersion]
  /\ UNCHANGED <<mem, clocks, section, locals, head, tail, logs, quiesce, ret,
                 isSync, todo, freeList>>

BumpCommit(t) ==
  /\ At(t, "commit") /\ Goto(t, "free")
  /\ gCommit' = gCommit + 1
  /\ UNCHANGED <<mem, gWriter, section, locals, ring, logs, quiesce, ret,
                 isSync, wver, todo, freeList>>

(* is_sync = 0 and rlu_process_free.                                       *)
ProcessFree(t) ==
  /\ At(t, "free") /\ Goto(t, ret[t])
  /\ isSync' = [isSync EXCEPT ![t] = FALSE]
  /\ freed' = freed \cup freeList[t]
  /\ freeList' = [freeList EXCEPT ![t] = {}]
  /\ UNCHANGED <<actual, copyOf, clocks, section, locals, ring, logs, quiesce,
                 ret, wver, todo>>

-----------------------------------------------------------------------------
(* Steps of the library itself, which no client decides about.             *)
LibraryStep(t) ==
  \/ Register(t) \/ RegVersion(t) \/ RegCommit(t)
  \/ DerefCheck(t) \/ SendSyncRequest(t) \/ TryLockCas(t)
  \/ UnlockObj(t) \/ ResetAborted(t) \/ Checkpoint(t)
  \/ SyncEnter(t) \/ Publish(t) \/ BumpWriter(t)
  \/ InitQuiescence(t) \/ WaitQuiescence(t)
  \/ ResetSets(t) \/ WriteBack(t) \/ Retract(t) \/ BumpCommit(t)
  \/ ProcessFree(t)

(* Any client whose objects live as long as the program.                   *)
ClientCall(t) ==
  \/ ReaderLock(t) \/ ReaderUnlock(t) \/ Abort(t) \/ ThreadFinish(t)
  \/ \E o \in Objs : Deref(t, o) \/ TryLockHeld(t, o) \/ TryLockFree(t, o)
  \/ \E o \in Objs, v \in Vals : Write(t, o, v)

(* All threads have finished, or an RLU_ASSERT has ended the process.      *)
Finished == \A t \in Threads : At(t, "finished")
Crashed  == \E t \in Threads : At(t, "crashed")
Terminated == (Finished \/ Crashed) /\ UNCHANGED vars

Next ==
  \/ ~Crashed /\ \E t \in Threads : LibraryStep(t) \/ ClientCall(t)
  \/ Terminated
Spec == Init /\ [][Next]_vars

-----------------------------------------------------------------------------
Labels == {"idle", "register", "regversion", "regcommit", "in", "deref",
           "cas", "request", "unlockobjs", "checkpoint", "sync", "publish",
           "clock", "initq", "waitq", "reset", "writeback", "commit", "free",
           "finish", "finished", "crashed"}
Returns == {"idle", "register", "checkpoint", "finish", "finished"}

(* Every variable has its C type: versions and counters are naturals, a    *)
(* header is empty or points into some thread's log.                       *)
TypeOK ==
  /\ gWriter \in Nat /\ gCommit \in Nat
  /\ actual \in [Objs -> Vals] /\ copyOf \in [Objs -> CopyPtrs \cup {NoCopy}]
  /\ freed \subseteq Objs
  /\ pc \in [Threads -> Labels] /\ ret \in [Threads -> Returns]
  /\ arg \in [Threads -> Objs \cup {NoObj}]
  /\ ptr \in [Threads -> CopyPtrs \cup {NoCopy}]
  /\ ver \in [Threads -> Nat]
  /\ run \in [Threads -> Nat] /\ localV \in [Threads -> Nat]
  /\ steal \in [Threads -> BOOLEAN] /\ check \in [Threads -> BOOLEAN]
  /\ writeDet \in [Threads -> BOOLEAN] /\ failed \in [Threads -> BOOLEAN]
  /\ isSync \in [Threads -> BOOLEAN] /\ wver \in [Threads -> Nat]
  /\ head \in [Threads -> Nat] /\ wb \in [Threads -> Nat]
  /\ tail \in [Threads -> Nat]
  /\ log \in [Threads -> [Slots -> [Objs -> Vals \cup {NoVal}]]]
  /\ wsRun \in [Threads -> [Slots -> Nat]]
  /\ shape \in [Threads -> [Slots -> {"whole", "end", "inside"}]]
  /\ qrun \in [Threads -> [Threads -> Nat]]
  /\ qi \in [Threads -> 0 .. NThreads]
  /\ todo \in [Threads -> SUBSET Objs] /\ freeList \in [Threads -> SUBSET Objs]
  /\ view \in [Threads -> [Objs -> CopyPtrs \cup {Actual, Unseen}]]

-----------------------------------------------------------------------------
Seen(t, o) == view[t][o] # Unseen

(* What thread t reads through the pointer it has for o.                   *)
Val(t, o) ==
  LET p == view[t][o]
  IN IF p = Actual THEN actual[o] ELSE log[p.thread][p.slot][o]

(* Between loading g_rlu_writer_version and incrementing it, which is not  *)
(* atomic: two threads that are there together load the same version.      *)
TakingVersion(t) == pc[t] \in {"publish", "clock"}
Races == \E t, u \in Threads : t # u /\ TakingVersion(t)' /\ TakingVersion(u)'

(* What the library promises every client.                                 *)
InSection(t) == pc[t] \in {"in", "deref", "cas", "request"}

(* The objects that log s of thread t keeps locked: those of a committed   *)
(* write set until they are written back, those of the section until it    *)
(* commits or its abort unlocks them.                                      *)
Held(t, s) ==
  {o \in Locks(t, s) :
     \/ s \in Pending(t) /\ (At(t, "writeback") => o \in todo[t])
     \/ s = Cur(t) /\ \/ InSection(t)
                      \/ At(t, "unlockobjs") /\ o \in todo[t]}

(* An object's header points into a log exactly while that log holds the   *)
(* object locked, so an object has one owner, a write-back and an abort    *)
(* unlock only what is theirs, and nothing stays locked by nobody: the     *)
(* asserts of rlu_writeback_write_set (the owner is this thread) and       *)
(* rlu_unlock_objs (the copy is the one in this log).                      *)
LocksMatchLogs == ~Crashed =>
  \A o \in Objs, t \in Threads, s \in Slots :
    copyOf[o] = CopyPtr(t, s) <=> o \in Held(t, s)

(* The ring of logs never comes round to a log that is still pending or    *)
(* that readers may still look at: outside a sync the log for the next     *)
(* section is none of those and is empty (the asserts that end             *)
(* rlu_commit_write_set).                                                  *)
RingFresh ==
  \A t \in Threads :
    pc[t] \in {"idle", "register", "regversion", "regcommit"} =>
      /\ Cur(t) \notin SlotsOf(t, head[t], tail[t])
      /\ Locks(t, Cur(t)) = {} /\ shape[t][Cur(t)] = "whole"

(* Nobody holds a pointer into a log that has been reset or is being       *)
(* filled again: "The other thread is going to wait for this thread to     *)
(* finish before reusing the write-set log" (rlu.c:839).                   *)
ViewsLive ==
  \A t \in Threads, o \in Objs :
    LET p == view[t][o]
    IN p \in CopyPtrs =>
         /\ log[p.thread][p.slot][o] # NoVal
         /\ p.thread # t /\ InSection(p.thread) => p.slot # Cur(p.thread)

(* After rlu_thread_finish the thread's data may go away: it has no object *)
(* locked and nobody has a pointer into its logs, which takes both syncs.  *)
FinishedUnreferenced ==
  \A t \in Threads : At(t, "finished") =>
    \A o \in Objs : /\ copyOf[o].thread # t
                    /\ \A u \in Threads \ {t} : view[u][o].thread # t

(* A request for a sync (rlu_send_sync_request) is only taken back when     *)
(* the thread has no object locked any more, whether its sync began before  *)
(* the request came or after it (rlu.c:578-580): a section that has failed  *)
(* for want of a lock has not asked in vain.                               *)
RequestsServed ==
  [][\A t \in Threads : isSync[t] /\ ~isSync'[t] =>
       \A o \in Objs : copyOf'[o].thread # t]_vars
=============================================================================
