--------------------------- MODULE RluViewProofs ---------------------------
(***************************************************************************)
(* TLAPS proves that the pointers a section holds stay good: a copy stolen *)
(* from another thread stays in that thread's log until the section is     *)
(* over, although logs are reused.  For any number of threads, objects and *)
(* write sets, and for any client.                                         *)
(*                                                                         *)
(* A section steals from a thread whose version is not newer than its own. *)
(* That says something only while the version of a thread outside of a     *)
(* sync is newer than every section, so the versions have to stay below    *)
(* MAX_VERSION: BoundInv counts them, one for each write set ever synced   *)
(* and each counter of the ring.  ViewInv then says where a stolen copy    *)
(* is: in a log that is pending, or in one that the next sync of its owner *)
(* is going to reset, and then that sync awaits the section.               *)
(***************************************************************************)
EXTENDS RluProofs, FiniteSetTheorems

(* A section is running: run_counter is odd.                               *)
Running(t) == pc[t] \in {"regversion", "regcommit"} \/ InSection(t)

(* writer_version holds a version (rlu.c:563-576).                         *)
Published(w) == pc[w] \in {"clock", "initq", "waitq", "reset", "writeback"}

(* rlu_sync_and_writeback is running with something to do.                 *)
InSync(w) == At(w, "publish") \/ Published(w)

(* The version of the sync of w, loaded or published already.              *)
SyncVersion(w) == IF At(w, "publish") THEN ver[w] ELSE wver[w]

(* The sync of w has not got past t, and cannot: it found the section of t *)
(* running, or will, and it is of an older version.                        *)
Awaits(w, t) ==
  /\ ~At(w, "reset") /\ ~At(w, "writeback")
  /\ InSync(w) => localV[t] < SyncVersion(w)
  /\ At(w, "initq") /\ t < qi[w] => qrun[w][t] = run[t]
  /\ At(w, "waitq") => qi[w] <= t /\ qrun[w][t] = run[t]

(* t has stolen a copy from a log of w: the log is still in the ring, and  *)
(* when the next sync of w is going to reset it, that sync awaits t.       *)
StolenOK(t, w) ==
  \A o \in Objs, s \in Slots : view[t][o] = CopyPtr(w, s) =>
    /\ o \in Locks(w, s)
    /\ ~At(w, "crashed") => \/ s \in Pending(w)
                            \/ s \in OldSets(w) /\ Awaits(w, t)

(* t is about to compare the version of w with its own (rlu.c:833): if it  *)
(* is going to steal, the copy it has loaded is of a set that the sync     *)
(* under way writes back.                                                  *)
LoadedOK(t, w) ==
  \A s \in Slots :
    /\ At(t, "deref") /\ ptr[t] = CopyPtr(w, s)
    /\ InSync(w) /\ SyncVersion(w) <= localV[t]
    => s \in Pending(w) /\ arg[t] \in Locks(w, s)

(* A section's own copies, and no views outside of sections.               *)
OwnOK(t) ==
  /\ \A o \in Objs, s \in Slots : view[t][o] = CopyPtr(t, s) => o \in Locks(t, s)
  /\ ~InSection(t) => \A o \in Objs : view[t][o] = Unseen
  /\ At(t, "deref") => ptr[t].thread # t

(* Versions, and the two syncs of rlu_thread_finish.                       *)
LocalOK(t) ==
  /\ localV[t] <= gWriter
  /\ ~Published(t) /\ ~At(t, "crashed") => wver[t] = MaxVersion
  /\ pc[t] \in {"commit", "free", "finish"} => wb[t] = tail[t]
  /\ InSync(t) \/ At(t, "sync") => (ret[t] = "finished" => wb[t] = tail[t])
  /\ pc[t] \in {"writeback", "commit", "free"} =>
        (ret[t] = "finished" => head[t] = tail[t])
  /\ At(t, "finished") => head[t] = tail[t]

ViewInv ==
  /\ LockInv
  /\ \A t \in Threads : OwnOK(t) /\ LocalOK(t)
  /\ \A t, w \in Threads : t # w => StolenOK(t, w) /\ LoadedOK(t, w)

(* What t has added to the writer version, at least: one for each set it   *)
(* has synced, for each of the two counters that have passed it.           *)
Synced(t) ==
  CASE pc[t] \in {"initq", "waitq", "reset"} -> wb[t] + tail[t]
    [] pc[t] \in {"writeback", "crashed"} -> head[t] + tail[t]
    [] OTHER -> head[t] + wb[t]

(* A section of t is still to start, after a sync perhaps.                 *)
Starting(t) ==
  \/ At(t, "register")
  \/ ret[t] = "register" /\ (InSync(t) \/ pc[t] \in {"sync", "commit", "free"})

(* A write set takes a section, and a section two steps of run_counter; a  *)
(* sync that publishes has something to sync.                              *)
Bound(t) ==
  /\ Running(t) <=> Inside(run[t])
  /\ 2 * tail[t] <= run[t] /\ run[t] <= 2 * MaxSections
  /\ Starting(t) => run[t] < 2 * MaxSections
  /\ pc[t] \in {"publish", "clock"} => head[t] # tail[t]

SyncIds == Threads \X (1 .. 2 * MaxSections)
SyncSet == {p \in SyncIds : p[2] <= Synced(p[1])}
BoundInv == ~Crashed =>
  (\A t \in Threads : Bound(t)) /\ gWriter <= Cardinality(SyncSet)
VersionsBounded == ~Crashed => gWriter < MaxVersion

-----------------------------------------------------------------------------
(* What a step of another thread leaves alone.                             *)
Same(x) ==
  /\ pc'[x] = pc[x] /\ ret'[x] = ret[x]
  /\ arg'[x] = arg[x] /\ ptr'[x] = ptr[x] /\ ver'[x] = ver[x]
  /\ run'[x] = run[x] /\ localV'[x] = localV[x] /\ view'[x] = view[x]
  /\ head'[x] = head[x] /\ wb'[x] = wb[x] /\ tail'[x] = tail[x]
  /\ log'[x] = log[x] /\ wver'[x] = wver[x]
  /\ qrun'[x] = qrun[x] /\ qi'[x] = qi[x]
Others(u) == \A x \in Threads \ {u} : Same(x)

(* The functions a step may change, for the provers.                       *)
LEMMA Functions ==
  ASSUME TypeOK
  PROVE /\ pc \in [Threads -> Labels] /\ ret \in [Threads -> Returns]
        /\ arg \in [Threads -> Objs \cup {NoObj}]
        /\ ptr \in [Threads -> CopyPtrs \cup {NoCopy}]
        /\ ver \in [Threads -> Nat] /\ run \in [Threads -> Nat]
        /\ localV \in [Threads -> Nat] /\ wver \in [Threads -> Nat]
        /\ head \in [Threads -> Nat] /\ wb \in [Threads -> Nat]
        /\ tail \in [Threads -> Nat]
        /\ log \in [Threads -> [Slots -> [Objs -> Vals \cup {NoVal}]]]
        /\ qrun \in [Threads -> [Threads -> Nat]]
        /\ qi \in [Threads -> 0 .. NThreads]
        /\ view \in [Threads -> [Objs -> CopyPtrs \cup {Actual, Unseen}]]
        /\ gWriter \in Nat
  BY DEF TypeOK

(* A thread changes its own data only.                                     *)
LEMMA OwnDataOnly ==
  ASSUME TypeOK, NEW u \in Threads, LibraryStep(u) \/ ClientStep(u)
  PROVE Others(u)
<1> USE Functions DEF mem, clocks, section, locals, ring, logs, quiesce,
        Goto, CallSync, Others, Same
<1>1. CASE \/ ReaderLock(u) \/ Register(u) \/ RegVersion(u) \/ RegCommit(u)
           \/ Checkpoint(u) \/ ThreadFinish(u)
  BY <1>1 DEF ReaderLock, Register, RegVersion, RegCommit, Checkpoint,
              ThreadFinish
<1>2. CASE DerefCheck(u) \/ SendSyncRequest(u)
  BY <1>2 DEF DerefCheck, SendSyncRequest, See
<1>3. CASE ReaderUnlock(u) \/ Abort(u)
  <2>1. /\ UNCHANGED <<arg, ptr, ver, localV, head, wb, log, wver, qrun, qi>>
        /\ run' = [run EXCEPT ![u] = run[u] + 1]
        /\ view' = [view EXCEPT ![u] = [o \in Objs |-> Unseen]]
    BY <1>3 DEF ReaderUnlock, Abort, LeaveSection
  <2>2. /\ \E l : pc' = [pc EXCEPT ![u] = l]
        /\ ret' = ret \/ \E l : ret' = [ret EXCEPT ![u] = l]
        /\ tail' = tail \/ tail' = [tail EXCEPT ![u] = tail[u] + 1]
    BY <1>3 DEF ReaderUnlock, Abort
  <2> QED
    BY <2>1, <2>2
<1>4. CASE UnlockObj(u) \/ ResetAborted(u) \/ WriteBack(u)
  BY <1>4 DEF UnlockObj, ResetAborted, WriteBack
<1>5. CASE \/ SyncEnter(u) \/ Publish(u) \/ BumpWriter(u) \/ BumpCommit(u)
           \/ ProcessFree(u) \/ Retract(u)
  BY <1>5 DEF SyncEnter, Publish, BumpWriter, BumpCommit, ProcessFree, Retract
<1>6. CASE InitQuiescence(u) \/ WaitQuiescence(u)
  BY <1>6 DEF InitQuiescence, WaitQuiescence
<1>7. CASE ResetSets(u)
  BY <1>7 DEF ResetSets
<1>8. CASE TryLockCas(u)
  BY <1>8 DEF TryLockCas, See, Fail
<1>9. CASE \E o \in Objs : Deref(u, o) \/ TryLockHeld(u, o)
  BY <1>9 DEF Deref, TryLockHeld, See
<1>10. CASE \E o \in Objs : TryLockFree(u, o)
  BY <1>10 DEF TryLockFree
<1>11. CASE \E o \in Objs, v \in Vals : Assigns(u, o, v)
  BY <1>11 DEF Assigns, Assign
<1> QED
  BY <1>1, <1>2, <1>3, <1>4, <1>5, <1>6, <1>7, <1>8, <1>9, <1>10, <1>11
     DEF LibraryStep, ClientStep

-----------------------------------------------------------------------------
(* Counting in twos.                                                       *)
LEMMA Parity ==
  ASSUME NEW n \in Nat, NEW m \in Nat
  PROVE /\ Inside(n + 1) <=> ~Inside(n)
        /\ Inside(n) /\ n <= 2 * m => n + 1 <= 2 * m
        /\ Inside(n) /\ 2 * m <= n => 2 * (m + 1) <= n + 1
  BY DEF Inside

(* Between distinct counters in order there is at least one set.           *)
LEMMA Passed ==
  ASSUME NEW h \in Nat, NEW m \in Nat, NEW l \in Nat, h <= m, m <= l, h # l
  PROVE h + 1 <= l
  OBVIOUS

(* A thread that is not at its end has counters in order.                  *)
LEMMA RingOrder ==
  ASSUME LockInv, NEW u \in Threads, ~At(u, "crashed")
  PROVE /\ head[u] \in Nat /\ wb[u] \in Nat /\ tail[u] \in Nat
        /\ run[u] \in Nat /\ gWriter \in Nat
        /\ head[u] <= wb[u] /\ wb[u] <= tail[u]
        /\ At(u, "writeback") => head[u] = wb[u]
  BY Functions DEF LockInv, TypeInv, ThreadInv, RingOK

(* Where a thread is decides which of the counters have passed which sets. *)
LEMMA BoundStep ==
  ASSUME LockInv, ~Crashed, NEW u \in Threads, Bound(u),
         LibraryStep(u) \/ ClientStep(u), ~At(u, "crashed")'
  PROVE /\ Bound(u)' /\ Synced(u)' >= Synced(u)
        /\ BumpWriter(u) => Synced(u)' >= Synced(u) + 1
<1> USE Functions DEF mem, clocks, section, locals, ring, logs, quiesce, At
<1>1. /\ TypeOK /\ MaxSections \in Nat
      /\ head[u] \in Nat /\ wb[u] \in Nat /\ tail[u] \in Nat
      /\ run[u] \in Nat /\ ret[u] \in Returns
      /\ head[u] <= wb[u] /\ wb[u] <= tail[u]
      /\ pc[u] = "writeback" => head[u] = wb[u]
  BY RingOrder, ConstantsAssumption DEF LockInv, TypeInv, Crashed
<1> USE DEF Bound, Synced, Running, Starting, InSync, Published, InSection
<1>2. CASE ReaderLock(u) \/ Checkpoint(u) \/ ThreadFinish(u)
  <2>1. UNCHANGED <<run, ring>> /\ pc[u] \in {"idle", "checkpoint", "finish"}
    BY <1>2 DEF ReaderLock, Checkpoint, ThreadFinish
  <2>2. \/ pc'[u] = "sync" /\ ret'[u] = "register" /\ run[u] < 2 * MaxSections
        \/ pc'[u] = "sync" /\ ret'[u] # "register"
        \/ pc'[u] = "register" /\ run[u] < 2 * MaxSections
        \/ pc'[u] = "idle"
    BY <1>1, <1>2 DEF ReaderLock, Checkpoint, ThreadFinish, CallSync, Goto
  <2> QED
    BY <1>1, <1>2, <2>1, <2>2 DEF BumpWriter
<1>3. CASE Register(u)
  <2>1. /\ pc[u] = "register" /\ pc'[u] = "regversion"
        /\ run'[u] = run[u] + 1 /\ UNCHANGED <<ret, ring>>
    BY <1>1, <1>3 DEF Register, Goto
  <2> QED
    BY <1>1, <2>1, Parity DEF BumpWriter
<1>4. CASE RegVersion(u) \/ RegCommit(u) \/ DerefCheck(u) \/ SendSyncRequest(u)
  <2>1. /\ UNCHANGED <<ret, run, ring>>
        /\ pc[u] \in {"regversion", "regcommit", "deref", "request"}
        /\ pc'[u] \in {"regcommit", "in"}
    BY <1>1, <1>4 DEF RegVersion, RegCommit, DerefCheck, SendSyncRequest, Goto
  <2> QED
    BY <1>1, <2>1 DEF BumpWriter
<1>5. CASE \/ TryLockCas(u)
           \/ \E o \in Objs : \/ Deref(u, o) \/ TryLockHeld(u, o)
                              \/ TryLockFree(u, o)
                              \/ \E v \in Vals : Assigns(u, o, v)
  <2>1. UNCHANGED <<ret, run, ring>> /\ pc[u] \in {"in", "cas"}
    BY <1>5 DEF TryLockCas, Deref, TryLockHeld, TryLockFree, Assigns
  <2>2. pc'[u] \in {"in", "deref", "cas", "request"}
    BY <1>1, <1>5 DEF TryLockCas, Deref, TryLockHeld, TryLockFree, Assigns, Goto
  <2> QED
    BY <1>1, <2>1, <2>2 DEF BumpWriter
<1>6. CASE ReaderUnlock(u) \/ Abort(u)
  <2>1. /\ UNCHANGED <<head, wb>> /\ run'[u] = run[u] + 1 /\ pc[u] = "in"
        /\ tail'[u] \in {tail[u], tail[u] + 1}
    BY <1>1, <1>6 DEF ReaderUnlock, Abort, LeaveSection
  <2>2. \/ pc'[u] = "sync" /\ ret'[u] = "checkpoint"
        \/ pc'[u] \in {"checkpoint", "unlockobjs"}
    <3>1. CASE ReaderUnlock(u)
      BY <1>1, <3>1 DEF ReaderUnlock, CallSync, Goto
    <3>2. CASE Abort(u)
      <4>1. \/ pc' = [pc EXCEPT ![u] = "checkpoint"]
            \/ pc' = [pc EXCEPT ![u] = "unlockobjs"]
            \/ pc' = [pc EXCEPT ![u] = "crashed"]
        BY <3>2 DEF Abort, Goto
      <4> QED
        BY <1>1, <4>1
    <3> QED
      BY <1>6, <3>1, <3>2
  <2>3. Inside(run[u]) /\ ~Inside(run'[u])
    BY <1>1, <2>1, Parity
  <2>4. /\ 2 * tail'[u] <= run'[u] /\ run'[u] <= 2 * MaxSections
    <3>1. 2 * (tail[u] + 1) <= run[u] + 1 /\ run[u] + 1 <= 2 * MaxSections
      BY <1>1, <2>3, Parity
    <3> QED
      BY <1>1, <2>1, <3>1
  <2>5. Synced(u)' = Synced(u) /\ ~BumpWriter(u)
    BY <2>1, <2>2 DEF BumpWriter
  <2>6. ~Running(u)' /\ ~Starting(u)' /\ pc'[u] \notin {"publish", "clock"}
    BY <2>2
  <2>7. Bound(u)'
    BY <2>3, <2>4, <2>6
  <2>8. Synced(u) \in Nat
    BY <1>1, <2>1
  <2> QED
    BY <2>5, <2>7, <2>8
<1>7. CASE UnlockObj(u) \/ ResetAborted(u)
  <2>1. /\ UNCHANGED <<ret, run, ring>> /\ pc[u] = "unlockobjs"
        /\ pc'[u] \in {"unlockobjs", "checkpoint"}
    BY <1>1, <1>7 DEF UnlockObj, ResetAborted, Goto
  <2> QED
    BY <1>1, <2>1 DEF BumpWriter
<1>8. CASE SyncEnter(u)
  <2>1. /\ UNCHANGED <<ret, run, ring>> /\ pc[u] = "sync"
        /\ \/ pc'[u] = ret[u]
           \/ pc'[u] = "publish" /\ head[u] # tail[u]
    BY <1>1, <1>8 DEF SyncEnter, NothingToSync, Goto
  <2> QED
    BY <1>1, <2>1 DEF BumpWriter, Returns
<1>9. CASE Publish(u) \/ BumpWriter(u) \/ BumpCommit(u)
  <2>1. /\ UNCHANGED <<ret, run, ring>>
        /\ \/ Publish(u) /\ pc[u] = "publish" /\ pc'[u] = "clock"
           \/ BumpWriter(u) /\ pc[u] = "clock" /\ pc'[u] = "initq"
           \/ BumpCommit(u) /\ pc[u] = "commit" /\ pc'[u] = "free"
    BY <1>1, <1>9 DEF Publish, BumpWriter, BumpCommit, Goto
  <2>2. Bound(u)' /\ Synced(u) \in Nat
    BY <1>1, <2>1
  <2>3. CASE pc[u] = "clock"
    <3>1. Synced(u) = head[u] + wb[u] /\ Synced(u)' = wb[u] + tail[u]
      BY <2>1, <2>3
    <3>a. head[u] # tail[u]
      BY <2>3
    <3> HIDE DEF Bound, Synced
    <3>2. head[u] + 1 <= tail[u]
      BY <1>1, <3>a, Passed
    <3> QED
      BY <1>1, <2>2, <3>1, <3>2
  <2>4. CASE pc[u] # "clock"
    <3>1. Synced(u)' = Synced(u) /\ ~BumpWriter(u)
      BY <2>1, <2>4 DEF BumpWriter
    <3> HIDE DEF Bound, Synced
    <3> QED
      BY <2>2, <3>1
  <2> QED
    BY <2>3, <2>4
<1>10. CASE InitQuiescence(u) \/ WaitQuiescence(u)
  <2>1. UNCHANGED <<ret, run, ring>> /\ pc[u] \in {"initq", "waitq"}
    BY <1>10 DEF InitQuiescence, WaitQuiescence
  <2>2. pc'[u] \in {"initq", "waitq", "reset"}
    BY <1>1, <1>10 DEF InitQuiescence, WaitQuiescence, Goto
  <2> QED
    BY <1>1, <2>1, <2>2 DEF BumpWriter
<1>11. CASE ResetSets(u)
  <2>1. UNCHANGED <<ret, run, wb, tail>> /\ pc[u] = "reset"
    BY <1>11 DEF ResetSets
  <2>2. pc'[u] \in {"writeback", "crashed"} /\ head'[u] = wb[u]
    BY <1>1, <1>11 DEF ResetSets, Goto
  <2> QED
    BY <1>1, <2>1, <2>2 DEF BumpWriter
<1>12. CASE WriteBack(u) \/ Retract(u)
  <2>1. UNCHANGED <<ret, run, head, tail>> /\ pc[u] = "writeback"
    BY <1>12 DEF WriteBack, Retract
  <2>2. \/ pc'[u] = "writeback" /\ wb'[u] = wb[u]
        \/ pc'[u] = "commit" /\ wb'[u] = tail[u]
    BY <1>1, <1>12 DEF WriteBack, Retract, WrittenBack, Goto
  <2> QED
    BY <1>1, <2>1, <2>2 DEF BumpWriter
<1>13. CASE ProcessFree(u)
  <2>1. UNCHANGED <<ret, run, ring>> /\ pc[u] = "free" /\ pc'[u] = ret[u]
    BY <1>1, <1>13 DEF ProcessFree, Goto
  <2> QED
    BY <1>1, <2>1 DEF BumpWriter, Returns
<1> QED
  BY <1>2, <1>3, <1>4, <1>5, <1>6, <1>7, <1>8, <1>9, <1>10, <1>11, <1>12,
     <1>13 DEF LibraryStep, ClientStep

(* Only one action changes the writer version.                             *)
LEMMA WriterVersion ==
  ASSUME NEW u \in Threads, LibraryStep(u) \/ ClientStep(u)
  PROVE \/ BumpWriter(u) /\ gWriter' = gWriter + 1
        \/ ~BumpWriter(u) /\ gWriter' = gWriter
<1> USE DEF clocks
<1>1. CASE BumpWriter(u)
  BY <1>1 DEF BumpWriter
<1>2. CASE ~BumpWriter(u)
  BY <1>2 DEF LibraryStep, ClientStep, ReaderLock, Register, RegVersion,
     RegCommit, Deref, DerefCheck, TryLockHeld, SendSyncRequest, TryLockFree,
     TryLockCas, Assigns, ReaderUnlock, Abort, UnlockObj, ResetAborted,
     Checkpoint, ThreadFinish, SyncEnter, Publish, InitQuiescence,
     WaitQuiescence, ResetSets, WriteBack, Retract, BumpCommit, ProcessFree
<1> QED
  BY <1>1, <1>2

(* There are finitely many syncs to count.                                 *)
LEMMA SyncIdsFinite ==
  /\ IsFiniteSet(SyncIds)
  /\ Cardinality(SyncIds) = NThreads * (2 * MaxSections)
<1>1. NThreads \in Nat /\ NThreads >= 1 /\ MaxSections \in Nat
  BY ConstantsAssumption
<1>2. IsFiniteSet(Threads) /\ Cardinality(Threads) = NThreads
  <2>1. /\ IsFiniteSet(0 .. NThreads - 1)
        /\ Cardinality(0 .. NThreads - 1)
             = IF 0 > NThreads - 1 THEN 0 ELSE NThreads - 1 - 0 + 1
    BY <1>1, FS_Interval
  <2> QED
    BY <1>1, <2>1 DEF Threads
<1>3. /\ IsFiniteSet(1 .. 2 * MaxSections)
      /\ Cardinality(1 .. 2 * MaxSections) = 2 * MaxSections
  BY <1>1, FS_Interval
<1> QED
  BY <1>2, <1>3, FS_Product DEF SyncIds

LEMMA SyncSetFinite ==
  /\ IsFiniteSet(SyncSet) /\ Cardinality(SyncSet) \in Nat
  /\ Cardinality(SyncSet) <= NThreads * (2 * MaxSections)
<1>1. SyncSet \in SUBSET SyncIds
  BY DEF SyncSet
<1> QED
  BY <1>1, SyncIdsFinite, FS_Subset, FS_CardinalityType

(* The count is a natural, and within the bound while the sets are.        *)
SyncedTypes ==
  \A t \in Threads : Synced(t) \in Nat /\ Synced(t) <= 2 * MaxSections
LEMMA SyncedInBound ==
  LockInv /\ ~Crashed /\ (\A t \in Threads : Bound(t)) => SyncedTypes
<1> SUFFICES ASSUME LockInv, ~Crashed, \A t \in Threads : Bound(t),
                    NEW u \in Threads
             PROVE Synced(u) \in Nat /\ Synced(u) <= 2 * MaxSections
  BY DEF SyncedTypes
<1>1. /\ head[u] \in Nat /\ wb[u] \in Nat /\ tail[u] \in Nat /\ run[u] \in Nat
      /\ head[u] <= wb[u] /\ wb[u] <= tail[u] /\ MaxSections \in Nat
  BY RingOrder, ConstantsAssumption DEF Crashed
<1>2. 2 * tail[u] <= 2 * MaxSections
  BY <1>1 DEF Bound
<1>3. Synced(u) \in {wb[u] + tail[u], head[u] + tail[u], head[u] + wb[u]}
  BY DEF Synced
<1> QED
  BY <1>1, <1>2, <1>3

(* Every increment of the version is one more sync counted.                *)
LEMMA BoundKept ==
  ASSUME LockInv, LockInv', BoundInv, ~Crashed, ~Crashed',
         NEW u \in Threads, LibraryStep(u) \/ ClientStep(u)
  PROVE BoundInv'
<1>1. /\ TypeOK /\ Others(u) /\ gWriter \in Nat
      /\ \A x \in Threads : ~At(x, "crashed") /\ ~At(x, "crashed")'
  BY OwnDataOnly, Functions DEF LockInv, TypeInv, Crashed, At
<1>2. ASSUME NEW x \in Threads \ {u}
      PROVE Bound(x)' /\ Synced(x)' = Synced(x)
  <2>1. Same(x) /\ Bound(x)
    BY <1>1 DEF Others, BoundInv
  <2> QED
    BY <2>1 DEF Same, Bound, Synced, Running, Starting, InSync, Published,
                InSection, At
<1>3. /\ Bound(u)' /\ Synced(u)' >= Synced(u)
      /\ BumpWriter(u) => Synced(u)' >= Synced(u) + 1
  BY <1>1, BoundStep DEF BoundInv
<1>4. SyncedTypes /\ SyncedTypes'
  <2>1. \A x \in Threads : Bound(x) /\ Bound(x)'
    BY <1>2, <1>3 DEF BoundInv
  <2>2. LockInv' /\ ~Crashed' /\ (\A t \in Threads : Bound(t))' => SyncedTypes'
    BY SyncedInBound, PTL
  <2> QED
    BY <2>1, <2>2, SyncedInBound
<1>5. SyncSet \subseteq SyncSet'
  <2>1. ASSUME NEW p \in SyncSet PROVE p \in SyncSet'
    <3>1. /\ p \in SyncIds /\ p[1] \in Threads /\ p[2] \in Int
          /\ p[2] <= Synced(p[1])
      BY DEF SyncSet, SyncIds
    <3>2. Synced(p[1])' >= Synced(p[1])
      BY <1>2, <1>3, <1>4, <3>1 DEF SyncedTypes
    <3>3. p[2] <= Synced(p[1])'
      BY <1>4, <3>1, <3>2 DEF SyncedTypes
    <3> QED
      BY <3>1, <3>3 DEF SyncSet, SyncIds
  <2> QED
    BY <2>1
<1>6. IsFiniteSet(SyncSet') /\ Cardinality(SyncSet') \in Nat
  <2>1. SyncSet' \in SUBSET SyncIds
    BY DEF SyncSet, SyncIds
  <2> QED
    BY <2>1, SyncIdsFinite, FS_Subset, FS_CardinalityType
<1>7. gWriter' <= Cardinality(SyncSet')
  <2>1. gWriter <= Cardinality(SyncSet) /\ Cardinality(SyncSet) \in Nat
    BY SyncSetFinite DEF BoundInv
  <2>2. CASE ~BumpWriter(u)
    <3>1. Cardinality(SyncSet) <= Cardinality(SyncSet')
      BY <1>5, <1>6, FS_Subset
    <3> QED
      BY <1>1, <1>6, <2>1, <2>2, <3>1, WriterVersion
  <2>3. CASE BumpWriter(u)
    <3> DEFINE new == <<u, Synced(u) + 1>>
    <3>1. Synced(u) \in Nat /\ Synced(u) + 1 <= 2 * MaxSections
          /\ Synced(u) + 1 <= Synced(u)'
      <4>1. /\ Synced(u) \in Nat /\ Synced(u)' \in Nat
            /\ Synced(u)' <= 2 * MaxSections /\ MaxSections \in Nat
        BY <1>4, ConstantsAssumption DEF SyncedTypes
      <4> QED
        BY <1>3, <2>3, <4>1
    <3>2. new \in SyncSet'
      <4>1. new \in SyncIds /\ new[1] = u /\ new[2] = Synced(u) + 1
        BY <3>1, ConstantsAssumption DEF SyncIds
      <4> HIDE DEF new
      <4> QED
        BY <3>1, <4>1 DEF SyncSet, SyncIds
    <3>3. new \notin SyncSet
      BY <3>1 DEF SyncSet
    <3> HIDE DEF new
    <3>4. Cardinality(SyncSet \cup {new}) = Cardinality(SyncSet) + 1
      BY <3>3, SyncSetFinite, FS_AddElement
    <3>5. Cardinality(SyncSet \cup {new}) <= Cardinality(SyncSet')
      BY <1>5, <1>6, <3>2, FS_Subset
    <3> QED
      BY <1>1, <1>6, <2>1, <2>3, <3>4, <3>5, WriterVersion
  <2> QED
    BY <2>2, <2>3
<1> QED
  BY <1>2, <1>3, <1>7 DEF BoundInv

(* Nothing has been synced yet.                                            *)
LEMMA InitBound == Init => BoundInv
<1> SUFFICES ASSUME Init, NEW t \in Threads
             PROVE Bound(t) /\ gWriter <= Cardinality(SyncSet)
  BY ConstantsAssumption DEF BoundInv, Threads
<1>1. /\ pc[t] = "idle" /\ run[t] = 0 /\ tail[t] = 0 /\ ret[t] = "idle"
      /\ gWriter = 0 /\ MaxSections \in Nat
  BY ConstantsAssumption DEF Init
<1>2. ~Inside(0)
  BY DEF Inside
<1>3. Bound(t)
  BY <1>1, <1>2 DEF Bound, Running, Starting, InSection, InSync, Published, At
<1> QED
  BY <1>1, <1>3, SyncSetFinite

(* The inductive invariant of the two together.                            *)
LEMMA NextBound == LockInv /\ BoundInv /\ [Next]_vars => BoundInv'
<1> SUFFICES ASSUME LockInv, BoundInv, [Next]_vars PROVE BoundInv'
  OBVIOUS
<1>1. LockInv'
  BY NextLockInv
<1>2. CASE UNCHANGED vars
  BY <1>2 DEF vars, clocks, section, ring, BoundInv, Bound, SyncSet, Synced,
     Running, Starting, InSync, Published, InSection, At, Crashed
<1>3. ASSUME NEW u \in Threads, ~Crashed, LibraryStep(u) \/ ClientStep(u)
      PROVE BoundInv'
  BY <1>1, <1>3, BoundKept DEF BoundInv
<1> QED
  BY <1>2, <1>3, CallIsStep DEF Next, Terminated

LEMMA BoundBelow == LockInv /\ BoundInv => VersionsBounded
<1> SUFFICES ASSUME LockInv, BoundInv, ~Crashed PROVE gWriter < MaxVersion
  BY DEF VersionsBounded
<1>1. /\ gWriter <= Cardinality(SyncSet) /\ gWriter \in Nat
      /\ NThreads \in Nat /\ MaxSections \in Nat /\ MaxVersion \in Nat
  BY Functions, ConstantsAssumption DEF BoundInv, LockInv, TypeInv
<1>2. NThreads * (2 * MaxSections) = 2 * NThreads * MaxSections
  BY <1>1
<1> QED
  BY <1>1, <1>2, SyncSetFinite, VersionsAssumption

(* For any number of threads and sections: the version that the next sync   *)
(* takes stays below MAX_VERSION (rlu.c:36), so the comparison that decides *)
(* whether to steal (rlu.c:833) never takes a thread that is not in a sync  *)
(* for one that is.                                                        *)
THEOREM VersionsStayBelow == Spec => []VersionsBounded
  BY InitLockInv, NextLockInv, InitBound, NextBound, BoundBelow, PTL DEF Spec

-----------------------------------------------------------------------------
(* Copy pointers tell threads and slots apart, and are none of the others. *)
LEMMA Pointers ==
  ASSUME NEW w \in Threads, NEW s \in Slots
  PROVE /\ CopyPtr(w, s) \in CopyPtrs /\ CopyPtr(w, s).thread = w
        /\ CopyPtr(w, s).slot = s
        /\ CopyPtr(w, s) \notin {Actual, Unseen, NoCopy}
        /\ \A v \in Threads, r \in Slots :
             CopyPtr(v, r) = CopyPtr(w, s) <=> v = w /\ r = s
  BY ConstantsAssumption
     DEF CopyPtr, CopyPtrs, Actual, Unseen, NoCopy, Threads

LEMMA PointerOf ==
  ASSUME NEW p \in CopyPtrs
  PROVE p.thread \in Threads /\ p.slot \in Slots /\ p = CopyPtr(p.thread, p.slot)
  BY DEF CopyPtr, CopyPtrs

(* Two threads that a step leaves alone keep what relates them.            *)
LEMMA SamePair ==
  ASSUME NEW t \in Threads, NEW w \in Threads, Same(t), Same(w)
  PROVE /\ StolenOK(t, w) => StolenOK(t, w)'
        /\ LoadedOK(t, w) => LoadedOK(t, w)'
        /\ OwnOK(t) => OwnOK(t)'
<1> USE DEF Same
<1>1. /\ \A s \in Slots : Locks(w, s)' = Locks(w, s) /\ Locks(t, s)' = Locks(t, s)
      /\ Pending(w)' = Pending(w) /\ OldSets(w)' = OldSets(w)
      /\ InSync(w)' = InSync(w) /\ SyncVersion(w)' = SyncVersion(w)
      /\ InSection(t)' = InSection(t)
  BY DEF Locks, Pending, OldSets, SlotsOf, InSync, Published, SyncVersion, At,
         InSection
<1>2. Awaits(w, t)' = Awaits(w, t)
  BY <1>1 DEF Awaits, At
<1>3. StolenOK(t, w) => StolenOK(t, w)'
  BY <1>1, <1>2 DEF StolenOK, At, CopyPtr
<1>4. LoadedOK(t, w) => LoadedOK(t, w)'
  BY <1>1 DEF LoadedOK, At, CopyPtr
<1>5. OwnOK(t) => OwnOK(t)'
  BY <1>1 DEF OwnOK, At, CopyPtr
<1> QED
  BY <1>3, <1>4, <1>5

(* A step of u is the only one.                                            *)
Moves(u) ==
  Others(u) /\ gWriter \in Nat /\ gWriter' \in Nat /\ gWriter' >= gWriter
LEMMA StepMoves ==
  ASSUME ViewInv, LockInv', NEW u \in Threads, LibraryStep(u) \/ ClientStep(u)
  PROVE Moves(u)
<1>1. TypeOK /\ gWriter \in Nat /\ gWriter' \in Nat
  BY DEF ViewInv, LockInv, TypeInv, TypeOK
<1> QED
  BY <1>1, OwnDataOnly, WriterVersion DEF Moves

(* What a step of u must keep: what relates it to the others, and its own. *)
LEMMA ViewStep ==
  ASSUME ViewInv, LockInv', NEW u \in Threads, Moves(u),
         OwnOK(u)', LocalOK(u)',
         \A t \in Threads \ {u} : StolenOK(t, u)' /\ LoadedOK(t, u)',
         \A w \in Threads \ {u} : StolenOK(u, w)' /\ LoadedOK(u, w)'
  PROVE ViewInv'
<1>1. ASSUME NEW x \in Threads \ {u} PROVE OwnOK(x)' /\ LocalOK(x)'
  <2>1. Same(x) /\ OwnOK(x) /\ LocalOK(x) /\ localV[x] \in Nat
    BY Functions DEF Moves, Others, ViewInv, LockInv, TypeInv
  <2>2. OwnOK(x)'
    BY <2>1, SamePair
  <2>3. LocalOK(x)'
    <3>1. localV[x] <= gWriter'
      BY <2>1 DEF LocalOK, Moves
    <3> QED
      BY <2>1, <3>1
         DEF Same, LocalOK, InSync, Published, At
  <2> QED
    BY <2>2, <2>3
<1>2. ASSUME NEW t \in Threads \ {u}, NEW w \in Threads \ {u}, t # w
      PROVE StolenOK(t, w)' /\ LoadedOK(t, w)'
  BY <1>2, SamePair DEF Moves, Others, ViewInv
<1> QED
  BY <1>1, <1>2 DEF ViewInv

(* Outside its syncs a thread resets no log that others may look at.        *)
LEMMA QuietWriter ==
  ASSUME ViewInv, NEW u \in Threads, Moves(u),
         ~InSync(u), ~InSync(u)', ~At(u, "crashed"),
         Pending(u) \subseteq Pending(u)', OldSets(u) \subseteq OldSets(u)',
         \A s \in Pending(u) \cup OldSets(u) : Locks(u, s) \subseteq Locks(u, s)'
  PROVE \A t \in Threads \ {u} : StolenOK(t, u)' /\ LoadedOK(t, u)'
<1> SUFFICES ASSUME NEW t \in Threads \ {u}
             PROVE StolenOK(t, u)' /\ LoadedOK(t, u)'
  OBVIOUS
<1>1. StolenOK(t, u) /\ Same(t)
  BY DEF ViewInv, Moves, Others
<1>2. Awaits(u, t)'
  BY DEF Awaits, InSync, Published, At
<1>3. StolenOK(t, u)'
  <2> SUFFICES ASSUME NEW o \in Objs, NEW s \in Slots,
                      view[t][o] = CopyPtr(u, s)
               PROVE /\ o \in Locks(u, s)'
                     /\ s \in Pending(u)' \/ s \in OldSets(u)'
    BY <1>1, <1>2 DEF StolenOK, Same, CopyPtr
  <2>1. o \in Locks(u, s) /\ (s \in Pending(u) \/ s \in OldSets(u))
    BY <1>1 DEF StolenOK
  <2> QED
    BY <2>1
<1> QED
  BY <1>3 DEF LoadedOK

(* A step that gives u no pointer into the log of another thread.          *)
LEMMA QuietReader ==
  ASSUME ViewInv, NEW u \in Threads, Moves(u), ~At(u, "deref")',
         \A o \in Objs, w \in Threads \ {u}, s \in Slots :
           view'[u][o] = CopyPtr(w, s) =>
             /\ view[u][o] = CopyPtr(w, s)
             /\ run'[u] = run[u] /\ localV'[u] = localV[u]
  PROVE \A w \in Threads \ {u} : StolenOK(u, w)' /\ LoadedOK(u, w)'
<1> SUFFICES ASSUME NEW w \in Threads \ {u}
             PROVE StolenOK(u, w)' /\ LoadedOK(u, w)'
  OBVIOUS
<1>1. StolenOK(u, w) /\ Same(w)
  BY DEF ViewInv, Moves, Others
<1>2. /\ \A s \in Slots : Locks(w, s)' = Locks(w, s)
      /\ Pending(w)' = Pending(w) /\ OldSets(w)' = OldSets(w)
      /\ InSync(w)' = InSync(w) /\ SyncVersion(w)' = SyncVersion(w)
  BY <1>1 DEF Same, Locks, Pending, OldSets, SlotsOf, InSync, Published,
              SyncVersion, At
<1>3. StolenOK(u, w)'
  <2> SUFFICES ASSUME NEW o \in Objs, NEW s \in Slots,
                      view'[u][o] = CopyPtr(w, s)
               PROVE /\ o \in Locks(w, s)'
                     /\ ~At(w, "crashed")' =>
                          \/ s \in Pending(w)'
                          \/ s \in OldSets(w)' /\ Awaits(w, u)'
    BY DEF StolenOK, CopyPtr
  <2>1. /\ view[u][o] = CopyPtr(w, s)
        /\ run'[u] = run[u] /\ localV'[u] = localV[u]
    OBVIOUS
  <2>2. Awaits(w, u)' = Awaits(w, u)
    BY <1>1, <1>2, <2>1 DEF Awaits, Same, At
  <2> QED
    BY <1>1, <1>2, <2>1, <2>2 DEF StolenOK, Same, At
<1> QED
  BY <1>3 DEF LoadedOK

(* A thread outside its sections has no pointer; what it does is up to its  *)
(* logs.                                                                    *)
LEMMA OutsideView ==
  ASSUME ViewInv, LockInv', NEW u \in Threads, Moves(u), view' = view,
         ~InSection(u), ~At(u, "deref")', LocalOK(u)',
         \A t \in Threads \ {u} : StolenOK(t, u)' /\ LoadedOK(t, u)'
  PROVE ViewInv'
<1>1. \A o \in Objs : view[u][o] = Unseen /\ view'[u][o] = Unseen
  BY DEF ViewInv, OwnOK
<1>2. \A o \in Objs, w \in Threads, s \in Slots : view'[u][o] # CopyPtr(w, s)
  BY <1>1, Pointers
<1>3. \A w \in Threads \ {u} : StolenOK(u, w)' /\ LoadedOK(u, w)'
  BY <1>2, QuietReader
<1>4. OwnOK(u)'
  BY <1>1, <1>2 DEF OwnOK, CopyPtr
<1> QED
  BY <1>3, <1>4, ViewStep

(* A step in a section that locks, or looks at the object or an own copy.   *)
LEMMA SectionView ==
  ASSUME ViewInv, LockInv', NEW u \in Threads, Moves(u),
         UNCHANGED <<localV, wver, ring>>, InSection(u), InSection(u)',
         OwnOK(u)', \A s \in Slots : Locks(u, s) \subseteq Locks(u, s)',
         \A w \in Threads \ {u} : StolenOK(u, w)' /\ LoadedOK(u, w)'
  PROVE ViewInv'
<1>1. TypeOK /\ Pending(u) \subseteq Slots /\ OldSets(u) \subseteq Slots
  BY SlotsTypes DEF ViewInv, LockInv, TypeInv
<1>2. Pending(u)' = Pending(u) /\ OldSets(u)' = OldSets(u)
  BY DEF ring, Pending, OldSets, SlotsOf
<1>3. /\ ~InSync(u) /\ ~InSync(u)' /\ ~At(u, "crashed") /\ ~At(u, "crashed")'
      /\ ~Published(u)
  BY DEF InSection, InSync, Published, At
<1>4. \A t \in Threads \ {u} : StolenOK(t, u)' /\ LoadedOK(t, u)'
  BY <1>1, <1>2, <1>3, QuietWriter
<1>5. LocalOK(u)'
  <2>1. LocalOK(u) /\ localV[u] \in Nat
    BY <1>1, Functions DEF ViewInv
  <2>2. localV[u] <= gWriter'
    BY <2>1 DEF LocalOK, Moves
  <2> QED
    BY <1>3, <2>1, <2>2 DEF LocalOK, InSection, At
<1> QED
  BY <1>4, <1>5, ViewStep

(* Such a step that leaves the pointers alone.                              *)
LEMMA SameView ==
  ASSUME ViewInv, LockInv', NEW u \in Threads, Moves(u), InSection(u),
         UNCHANGED <<run, localV, wver, view, ring>>,
         pc'[u] \in {"in", "cas", "request"},
         \A s \in Slots : Locks(u, s) \subseteq Locks(u, s)'
  PROVE ViewInv'
<1>1. InSection(u)' /\ ~At(u, "deref")'
  BY DEF InSection, At
<1>2. \A w \in Threads \ {u} : StolenOK(u, w)' /\ LoadedOK(u, w)'
  BY <1>1, QuietReader
<1>3. OwnOK(u)'
  BY <1>1 DEF ViewInv, OwnOK, CopyPtr
<1> QED
  BY <1>1, <1>2, <1>3, SectionView

(* Steps before and after a section, and around a sync.                     *)
LEMMA OutsideViewSteps ==
  ASSUME ViewInv, LockInv', ~Crashed, NEW u \in Threads, Moves(u),
         \/ ReaderLock(u) \/ Register(u) \/ RegVersion(u) \/ RegCommit(u)
         \/ UnlockObj(u) \/ ResetAborted(u) \/ Checkpoint(u) \/ ThreadFinish(u)
         \/ BumpCommit(u) \/ ProcessFree(u)
  PROVE ViewInv'
<1> USE DEF mem, clocks, section, locals, ring, logs, quiesce
<1>1. /\ TypeOK /\ pc \in [Threads -> Labels] /\ ret \in [Threads -> Returns]
      /\ ret[u] \in Returns /\ localV \in [Threads -> Nat]
      /\ gWriter \in Nat /\ gWriter' \in Nat /\ gWriter <= gWriter'
      /\ LocalOK(u) /\ localV[u] \in Nat
  BY Functions DEF ViewInv, LockInv, TypeInv, Moves
<1>2. UNCHANGED <<view, wver, head, wb, tail>>
  BY DEF ReaderLock, Register, RegVersion, RegCommit, UnlockObj, ResetAborted,
         Checkpoint, ThreadFinish, BumpCommit, ProcessFree
<1>3. localV'[u] <= gWriter'
  <2>1. CASE RegVersion(u)
    BY <1>1, <2>1 DEF RegVersion
  <2>2. CASE ~RegVersion(u)
    <3>1. localV' = localV
      BY <2>2 DEF ReaderLock, Register, RegCommit, UnlockObj, ResetAborted,
                  Checkpoint, ThreadFinish, BumpCommit, ProcessFree
    <3> QED
      BY <1>1, <3>1 DEF LocalOK
  <2> QED
    BY <2>1, <2>2
<1>4. /\ pc[u] \notin {"publish", "clock", "initq", "waitq", "reset",
                       "writeback", "crashed", "in", "deref", "cas", "request"}
      /\ pc'[u] \notin {"publish", "clock", "initq", "waitq", "reset",
                        "writeback", "crashed", "deref", "cas", "request"}
      /\ pc'[u] \in {"commit", "free", "finish"} => wb[u] = tail[u]
      /\ pc'[u] = "sync" => (ret'[u] = "finished" => wb[u] = tail[u])
      /\ pc'[u] = "free" => (ret'[u] = "finished" => head[u] = tail[u])
      /\ pc'[u] \notin {"writeback", "commit"}
      /\ pc'[u] = "finished" => head[u] = tail[u]
  <2>1. CASE ReaderLock(u) \/ Checkpoint(u)
    <3>1. pc[u] \in {"idle", "checkpoint"}
      BY <2>1 DEF ReaderLock, Checkpoint, At
    <3>2. \/ pc'[u] = "sync" /\ ret'[u] \in {"register", "idle"}
          \/ pc'[u] \in {"register", "idle"}
      BY <1>1, <2>1 DEF ReaderLock, Checkpoint, CallSync, Goto
    <3> QED
      BY <3>1, <3>2
  <2>2. CASE ThreadFinish(u)
    <3>1. /\ pc[u] \in {"idle", "finish"} /\ pc'[u] = "sync"
          /\ ret'[u] = "finished" => pc[u] = "finish"
      BY <1>1, <2>2 DEF ThreadFinish, CallSync, Goto, At
    <3> QED
      BY <1>1, <3>1 DEF LocalOK
  <2>3. CASE Register(u) \/ RegVersion(u) \/ RegCommit(u)
    <3>1. /\ pc[u] \in {"register", "regversion", "regcommit"}
          /\ pc'[u] \in {"regversion", "regcommit", "in"}
      BY <1>1, <2>3 DEF Register, RegVersion, RegCommit, Goto, At
    <3> QED
      BY <3>1
  <2>4. CASE UnlockObj(u) \/ ResetAborted(u)
    <3>1. pc[u] = "unlockobjs" /\ pc'[u] \in {"unlockobjs", "checkpoint"}
      BY <1>1, <2>4 DEF UnlockObj, ResetAborted, Goto, At
    <3> QED
      BY <3>1
  <2>5. CASE BumpCommit(u)
    <3>1. pc[u] = "commit" /\ pc'[u] = "free" /\ ret' = ret
      BY <1>1, <2>5 DEF BumpCommit, Goto, At
    <3> QED
      BY <1>1, <3>1 DEF LocalOK
  <2>6. CASE ProcessFree(u)
    <3>1. pc[u] = "free" /\ pc'[u] = ret[u]
      BY <1>1, <2>6 DEF ProcessFree, Goto, At
    <3> QED
      BY <1>1, <3>1 DEF LocalOK, Returns
  <2> QED
    BY <2>1, <2>2, <2>3, <2>4, <2>5, <2>6
<1>5. /\ ~InSync(u) /\ ~InSync(u)' /\ ~Published(u) /\ ~Published(u)'
      /\ ~At(u, "crashed") /\ ~InSection(u) /\ ~At(u, "deref")'
  BY <1>4 DEF InSync, Published, InSection, At
<1>6. LocalOK(u)'
  BY <1>1, <1>2, <1>3, <1>4, <1>5 DEF LocalOK, At
<1>7. /\ Pending(u)' = Pending(u) /\ OldSets(u)' = OldSets(u)
  BY <1>2 DEF Pending, OldSets, SlotsOf
<1>8. \A s \in Pending(u) \cup OldSets(u) : Locks(u, s) \subseteq Locks(u, s)'
  <2>1. CASE ~ResetAborted(u)
    <3>1. log' = log
      BY <2>1 DEF ReaderLock, Register, RegVersion, RegCommit, UnlockObj,
                  Checkpoint, ThreadFinish, BumpCommit, ProcessFree
    <3> QED
      BY <3>1 DEF Locks
  <2>2. CASE ResetAborted(u)
    <3>1. /\ ~Syncing(u) /\ RingOK(u)
          /\ log' = [log EXCEPT ![u][Cur(u)] = EmptyLog]
          /\ log \in [Threads -> [Slots -> [Objs -> Vals \cup {NoVal}]]]
      BY <1>1, <1>5, <2>2, Functions DEF ResetAborted, Syncing, At, ViewInv,
         LockInv, ThreadInv
    <3>2. Cur(u) \notin Pending(u) \cup OldSets(u)
      <4>1. Cur(u) \notin SlotsOf(u, head[u], tail[u])
        BY <1>1, <3>1, CurFresh
      <4>2. /\ head[u] \in Nat /\ wb[u] \in Nat /\ tail[u] \in Nat
            /\ head[u] <= wb[u] /\ wb[u] <= tail[u]
        BY <1>1, <3>1, Functions DEF RingOK
      <4> QED
        BY <4>1, <4>2 DEF Pending, OldSets, SlotsOf
    <3>3. Pending(u) \subseteq Slots /\ OldSets(u) \subseteq Slots
      BY <1>1, SlotsTypes
    <3>4. \A s \in Slots \ {Cur(u)} : log'[u][s] = log[u][s]
      BY <3>1
    <3> QED
      BY <3>2, <3>3, <3>4 DEF Locks
  <2> QED
    BY <2>1, <2>2
<1>9. \A t \in Threads \ {u} : StolenOK(t, u)' /\ LoadedOK(t, u)'
  BY <1>5, <1>7, <1>8, QuietWriter
<1> QED
  BY <1>2, <1>5, <1>6, <1>9, OutsideView

(* Committing or aborting drops the pointers of the section.                *)
LEMMA LeaveView ==
  ASSUME ViewInv, LockInv', ~Crashed, NEW u \in Threads, Moves(u),
         ReaderUnlock(u) \/ Abort(u)
  PROVE ViewInv'
<1> USE DEF mem, clocks, section, locals, ring, logs, quiesce
<1>1. /\ TypeOK /\ pc \in [Threads -> Labels] /\ ret \in [Threads -> Returns]
      /\ gWriter \in Nat /\ gWriter' \in Nat /\ gWriter <= gWriter'
      /\ LocalOK(u) /\ localV[u] \in Nat /\ tail \in [Threads -> Nat]
      /\ wb[u] \in Nat /\ tail[u] \in Nat
      /\ view \in [Threads -> [Objs -> CopyPtrs \cup {Actual, Unseen}]]
  BY Functions DEF ViewInv, LockInv, TypeInv, Moves
<1>2. /\ UNCHANGED <<log, wver, head, wb, localV>> /\ pc[u] = "in"
      /\ view' = [view EXCEPT ![u] = [o \in Objs |-> Unseen]]
      /\ tail' \in {tail, [tail EXCEPT ![u] = tail[u] + 1]}
  BY DEF ReaderUnlock, Abort, LeaveSection, At
<1>3. \/ pc'[u] = "sync" /\ ret'[u] = "checkpoint"
      \/ pc'[u] \in {"checkpoint", "unlockobjs", "crashed"}
  <2>1. CASE ReaderUnlock(u)
    BY <1>1, <2>1 DEF ReaderUnlock, CallSync, Goto
  <2>2. CASE Abort(u)
    <3>1. \/ pc' = [pc EXCEPT ![u] = "checkpoint"]
          \/ pc' = [pc EXCEPT ![u] = "unlockobjs"]
          \/ pc' = [pc EXCEPT ![u] = "crashed"]
      BY <2>2 DEF Abort, Goto
    <3> QED
      BY <1>1, <3>1
  <2> QED
    BY <2>1, <2>2
<1>4. /\ ~InSync(u) /\ ~InSync(u)' /\ ~Published(u) /\ ~Published(u)'
      /\ ~At(u, "crashed") /\ ~InSection(u)' /\ ~At(u, "deref")'
  BY <1>2, <1>3 DEF InSync, Published, InSection, At
<1>5. LocalOK(u)'
  <2>1. localV[u] <= gWriter' /\ wver[u] = MaxVersion
    BY <1>1, <1>4 DEF LocalOK
  <2> QED
    BY <1>2, <1>3, <1>4, <2>1 DEF LocalOK, At
<1>6. Pending(u) \subseteq Pending(u)' /\ OldSets(u)' = OldSets(u)
  <2>1. tail'[u] \in {tail[u], tail[u] + 1}
    BY <1>1, <1>2
  <2> QED
    BY <1>1, <1>2, <2>1 DEF Pending, OldSets, SlotsOf
<1>7. \A t \in Threads \ {u} : StolenOK(t, u)' /\ LoadedOK(t, u)'
  BY <1>2, <1>4, <1>6, QuietWriter DEF Locks
<1>8. \A o \in Objs : view'[u][o] = Unseen
  BY <1>1, <1>2
<1>9. \A o \in Objs, w \in Threads, s \in Slots : view'[u][o] # CopyPtr(w, s)
  BY <1>8, Pointers
<1>10. \A w \in Threads \ {u} : StolenOK(u, w)' /\ LoadedOK(u, w)'
  BY <1>4, <1>9, QuietReader
<1>11. OwnOK(u)'
  BY <1>4, <1>8, <1>9 DEF OwnOK, CopyPtr
<1> QED
  BY <1>5, <1>7, <1>10, <1>11, ViewStep

(* Section steps that give no pointer: asking for a sync, the first part of *)
(* rlu_try_lock, and writing to a copy.                                     *)
LEMMA PlainSectionSteps ==
  ASSUME ViewInv, LockInv', ~Crashed, NEW u \in Threads, Moves(u),
         \/ SendSyncRequest(u)
         \/ \E o \in Objs : \/ TryLockFree(u, o)
                            \/ \E v \in Vals : Assigns(u, o, v)
  PROVE ViewInv'
<1> USE DEF mem, clocks, section, locals, ring, logs, quiesce
<1>1. /\ TypeOK /\ pc \in [Threads -> Labels]
      /\ log \in [Threads -> [Slots -> [Objs -> Vals \cup {NoVal}]]]
      /\ Cur(u) \in Slots
  BY Functions, ThreadTypes DEF ViewInv, LockInv, TypeInv
<1>2. UNCHANGED <<run, localV, wver, view, ring>>
  BY DEF SendSyncRequest, TryLockFree, Assigns
<1>3. InSection(u) /\ pc'[u] \in {"in", "cas", "request"}
  BY <1>1 DEF SendSyncRequest, TryLockFree, Assigns, Goto, At, InSection
<1>4. \A s \in Slots : Locks(u, s) \subseteq Locks(u, s)'
  <2>1. CASE log' = log
    BY <2>1 DEF Locks
  <2>2. ASSUME NEW o \in Objs, NEW v \in Vals, Assigns(u, o, v)
        PROVE \A s \in Slots : Locks(u, s) \subseteq Locks(u, s)'
    <3>1. log' = [log EXCEPT ![u][Cur(u)][o] = v] /\ v # NoVal
      BY <2>2, ConstantsAssumption DEF Assigns, Assign
    <3> QED
      BY <1>1, <3>1 DEF Locks
  <2> QED
    BY <2>1, <2>2 DEF SendSyncRequest, TryLockFree
<1> QED
  BY <1>2, <1>3, <1>4, SameView

(* A step in a section that sees one object anew.                           *)
LEMMA SeesOne ==
  ASSUME ViewInv, LockInv', NEW u \in Threads, Moves(u), InSection(u),
         UNCHANGED <<run, localV, wver, ring>>, pc'[u] = "in",
         NEW o \in Objs, NEW p \in CopyPtrs \cup {Actual}, See(u, o, p),
         \A s \in Slots : Locks(u, s) \subseteq Locks(u, s)',
         \A s \in Slots : p = CopyPtr(u, s) => o \in Locks(u, s)',
         \A w \in Threads \ {u}, s \in Slots : p = CopyPtr(w, s) =>
           StolenOK(u, w)'
  PROVE ViewInv'
<1>1. /\ view \in [Threads -> [Objs -> CopyPtrs \cup {Actual, Unseen}]]
      /\ view'[u][o] = p
      /\ \A q \in Objs \ {o} : view'[u][q] = view[u][q]
      /\ InSection(u)' /\ ~At(u, "deref")'
  BY Functions DEF ViewInv, LockInv, TypeInv, See, InSection, At
<1>2. OwnOK(u)'
  <2>1. OwnOK(u)
    BY DEF ViewInv
  <2>2. ASSUME NEW q \in Objs, NEW s \in Slots, view'[u][q] = CopyPtr(u, s)
        PROVE q \in Locks(u, s)'
    BY <1>1, <2>1, <2>2 DEF OwnOK
  <2> QED
    BY <1>1, <2>2 DEF OwnOK, CopyPtr
<1>3. ASSUME NEW w \in Threads \ {u} PROVE StolenOK(u, w)' /\ LoadedOK(u, w)'
  <2>1. CASE \E s \in Slots : p = CopyPtr(w, s)
    BY <1>1, <2>1 DEF LoadedOK
  <2>2. CASE ~\E s \in Slots : p = CopyPtr(w, s)
    <3>1. /\ StolenOK(u, w) /\ Same(w)
      BY DEF ViewInv, Moves, Others
    <3>2. /\ \A s \in Slots : Locks(w, s)' = Locks(w, s)
          /\ Pending(w)' = Pending(w) /\ OldSets(w)' = OldSets(w)
          /\ Awaits(w, u)' = Awaits(w, u)
      BY <3>1 DEF Same, Locks, Pending, OldSets, SlotsOf, InSync, Published,
                  SyncVersion, Awaits, At
    <3>3. ASSUME NEW q \in Objs, NEW s \in Slots, view'[u][q] = CopyPtr(w, s)
          PROVE view[u][q] = CopyPtr(w, s)
      BY <1>1, <2>2, <3>3
    <3>4. StolenOK(u, w)'
      BY <3>1, <3>2, <3>3 DEF StolenOK, CopyPtr, Same, At
    <3> QED
      BY <1>1, <3>4 DEF LoadedOK
  <2> QED
    BY <2>1, <2>2
<1> QED
  BY <1>1, <1>2, <1>3, SectionView

(* The object an own copy pointer is for is in the log it points into.      *)
LEMMA OwnCopyLocked ==
  ASSUME ViewInv, ~Crashed, NEW u \in Threads, NEW w \in Threads,
         NEW s \in Slots, NEW o \in Objs, copyOf[o] = CopyPtr(w, s)
  PROVE o \in Held(w, s) /\ o \in Locks(w, s)
  BY DEF ViewInv, LockInv, LocksMatchLogs, Held

(* rlu_deref up to its first load, and rlu_try_lock of a locked object.     *)
LEMMA DerefView ==
  ASSUME ViewInv, LockInv', ~Crashed, NEW u \in Threads, Moves(u),
         NEW o \in Objs, Deref(u, o) \/ TryLockHeld(u, o)
  PROVE ViewInv'
<1> USE DEF mem, clocks, section, locals, ring, logs, quiesce
<1>1. /\ TypeOK /\ pc \in [Threads -> Labels]
      /\ copyOf \in [Objs -> CopyPtrs \cup {NoCopy}]
      /\ arg \in [Threads -> Objs \cup {NoObj}]
      /\ ptr \in [Threads -> CopyPtrs \cup {NoCopy}]
  BY DEF ViewInv, LockInv, TypeInv, TypeOK
<1>2. UNCHANGED <<run, localV, wver, ring, log>> /\ pc[u] = "in"
  BY DEF Deref, TryLockHeld, At
<1>3. InSection(u) /\ \A s \in Slots : Locks(u, s)' = Locks(u, s)
  BY <1>2 DEF InSection, Locks
<1>4. CASE See(u, o, Actual) /\ UNCHANGED pc
  <2>1. \A w \in Threads, s \in Slots : Actual # CopyPtr(w, s)
    BY Pointers
  <2> QED
    BY <1>2, <1>3, <1>4, <2>1, SeesOne
<1>5. CASE copyOf[o].thread = u /\ See(u, o, copyOf[o]) /\ UNCHANGED pc
  <2>1. copyOf[o] \in CopyPtrs
    <3>1. NoCopy.thread # u
      BY ConstantsAssumption DEF NoCopy, Threads
    <3> QED
      BY <1>1, <1>5, <3>1
  <2>2. \A w \in Threads \ {u}, s \in Slots : copyOf[o] # CopyPtr(w, s)
    BY <1>5, Pointers
  <2>3. \A s \in Slots : copyOf[o] = CopyPtr(u, s) => o \in Locks(u, s)
    BY OwnCopyLocked
  <2> QED
    BY <1>2, <1>3, <1>5, <2>1, <2>2, <2>3, SeesOne
<1>6. CASE Goto(u, "request") /\ UNCHANGED view
  <2>1. pc'[u] = "request"
    BY <1>1, <1>6 DEF Goto
  <2> QED
    BY <1>2, <1>3, <1>6, <2>1, SameView
<1>7. CASE /\ Goto(u, "deref") /\ UNCHANGED view
           /\ copyOf[o].thread # u
           /\ arg' = [arg EXCEPT ![u] = o]
           /\ ptr' = [ptr EXCEPT ![u] = copyOf[o]]
  <2>1. pc'[u] = "deref" /\ arg'[u] = o /\ ptr'[u] = copyOf[o]
    BY <1>1, <1>7 DEF Goto
  <2>2. InSection(u)'
    BY <2>1 DEF InSection
  <2>3. OwnOK(u)'
    <3>1. OwnOK(u)
      BY DEF ViewInv
    <3> QED
      BY <1>3, <1>7, <2>1, <2>2, <3>1 DEF OwnOK, CopyPtr, At
  <2>4. ASSUME NEW w \in Threads \ {u} PROVE StolenOK(u, w)' /\ LoadedOK(u, w)'
    <3>1. StolenOK(u, w) /\ Same(w)
      BY DEF ViewInv, Moves, Others
    <3>2. /\ \A s \in Slots : Locks(w, s)' = Locks(w, s)
          /\ Pending(w)' = Pending(w) /\ OldSets(w)' = OldSets(w)
          /\ InSync(w)' = InSync(w)
          /\ Awaits(w, u)' = Awaits(w, u)
      BY <1>2, <3>1 DEF Same, Locks, Pending, OldSets, SlotsOf, InSync,
         Published, SyncVersion, Awaits, At
    <3>3. StolenOK(u, w)'
      BY <1>7, <3>1, <3>2 DEF StolenOK, CopyPtr, Same, At
    <3>4. ASSUME NEW s \in Slots, copyOf[o] = CopyPtr(w, s), InSync(w)
          PROVE s \in Pending(w) /\ o \in Locks(w, s)
      <4>1. o \in Held(w, s) /\ o \in Locks(w, s)
        BY <3>4, OwnCopyLocked
      <4>2. ~InSection(w) /\ ~At(w, "unlockobjs")
        BY <3>4 DEF InSync, Published, InSection, At
      <4> QED
        BY <4>1, <4>2 DEF Held
    <3>5. LoadedOK(u, w)'
      BY <2>1, <3>2, <3>4 DEF LoadedOK, CopyPtr
    <3> QED
      BY <3>3, <3>5
  <2> QED
    BY <1>2, <1>3, <2>2, <2>3, <2>4, SectionView
<1>8. CASE Deref(u, o)
  BY <1>4, <1>5, <1>7, <1>8 DEF Deref, OwnCopy
<1>9. CASE TryLockHeld(u, o)
  BY <1>5, <1>6, <1>9 DEF TryLockHeld, LockedHere
<1> QED
  BY <1>8, <1>9

(* rlu_deref_slow_path steals only from a set that is being written back by *)
(* a sync that waits for the reader.                                        *)
LEMMA StealView ==
  ASSUME ViewInv, LockInv', VersionsBounded, ~Crashed, NEW u \in Threads,
         Moves(u), DerefCheck(u)
  PROVE ViewInv'
<1> USE DEF mem, clocks, section, locals, ring, logs, quiesce
<1>1. /\ TypeOK /\ pc \in [Threads -> Labels]
      /\ localV[u] \in Nat /\ gWriter \in Nat /\ MaxVersion \in Nat
      /\ view \in [Threads -> [Objs -> CopyPtrs \cup {Actual, Unseen}]]
  BY Functions, ConstantsAssumption DEF ViewInv, LockInv, TypeInv
<1>2. /\ UNCHANGED <<run, localV, wver, ring, log>>
      /\ pc[u] = "deref" /\ pc'[u] = "in"
  BY <1>1 DEF DerefCheck, Goto, At
<1>3. InSection(u) /\ \A s \in Slots : Locks(u, s)' = Locks(u, s)
  BY <1>2 DEF InSection, Locks
<1>4. arg[u] \in Objs /\ ptr[u] \in CopyPtrs /\ ptr[u].thread # u
  BY <1>2 DEF ViewInv, LockInv, TypeInv, OperandsOK, OwnOK, At
<1>5. CASE ~Steals(u)
  <2>1. See(u, arg[u], Actual)
    BY <1>5 DEF DerefCheck
  <2>2. \A w \in Threads, s \in Slots : Actual # CopyPtr(w, s)
    BY Pointers
  <2> QED
    BY <1>2, <1>3, <1>4, <2>1, <2>2, SeesOne
<1>6. CASE Steals(u)
  <2>1. See(u, arg[u], ptr[u])
    BY <1>6 DEF DerefCheck
  <2>2. PICK w \in Threads \ {u}, s \in Slots : ptr[u] = CopyPtr(w, s)
    BY <1>4, PointerOf
  <2>3. /\ wver[w] <= localV[u] /\ wver[w] \in Nat /\ Same(w)
        /\ StolenOK(u, w) /\ LoadedOK(u, w) /\ LocalOK(w)
    BY <1>1, <1>6, <2>2, Pointers, Functions
       DEF Steals, Moves, Others, ViewInv
  <2>4. /\ Published(w) /\ InSync(w) /\ SyncVersion(w) = wver[w]
    <3>1. localV[u] <= gWriter /\ gWriter < MaxVersion
      BY DEF ViewInv, LocalOK, VersionsBounded
    <3>2. wver[w] # MaxVersion
      BY <1>1, <2>3, <3>1
    <3>3. Published(w)
      BY <2>3, <3>2 DEF LocalOK, Crashed
    <3> QED
      BY <3>3 DEF InSync, SyncVersion, Published, At
  <2>5. s \in Pending(w) /\ arg[u] \in Locks(w, s)
    BY <1>2, <2>2, <2>3, <2>4 DEF LoadedOK, At
  <2>6. StolenOK(u, w)'
    <3>1. /\ \A r \in Slots : Locks(w, r)' = Locks(w, r)
          /\ Pending(w)' = Pending(w) /\ OldSets(w)' = OldSets(w)
          /\ Awaits(w, u)' = Awaits(w, u)
      BY <1>2, <2>3 DEF Same, Locks, Pending, OldSets, SlotsOf, InSync,
         Published, SyncVersion, Awaits, At
    <3>2. /\ view'[u][arg[u]] = CopyPtr(w, s)
          /\ \A q \in Objs \ {arg[u]} : view'[u][q] = view[u][q]
      BY <1>1, <1>4, <2>1, <2>2 DEF See
    <3> SUFFICES ASSUME NEW q \in Objs, NEW r \in Slots,
                        view'[u][q] = CopyPtr(w, r)
                 PROVE /\ q \in Locks(w, r)
                       /\ ~At(w, "crashed") =>
                            \/ r \in Pending(w)
                            \/ r \in OldSets(w) /\ Awaits(w, u)
      BY <2>3, <3>1 DEF StolenOK, CopyPtr, Same, At
    <3>3. CASE q = arg[u]
      BY <2>5, <3>2, <3>3, Pointers
    <3>4. CASE q # arg[u]
      BY <2>3, <3>2, <3>4 DEF StolenOK
    <3> QED
      BY <3>3, <3>4
  <2>7. \A v \in Threads, r \in Slots :
          ptr[u] = CopyPtr(v, r) => v = w /\ r = s
    BY <2>2 DEF CopyPtr
  <2>8. \A r \in Slots : ptr[u] # CopyPtr(u, r)
    BY <2>7
  <2>9. ASSUME NEW v \in Threads \ {u}, NEW r \in Slots, ptr[u] = CopyPtr(v, r)
        PROVE StolenOK(u, v)'
    <3>1. v = w
      BY <2>7, <2>9
    <3> QED
      BY <2>6, <3>1
  <2> QED
    BY <1>2, <1>3, <1>4, <2>1, <2>8, <2>9, SeesOne
<1> QED
  BY <1>5, <1>6

(* rlu_try_lock gives the section a copy of its own.                        *)
LEMMA CasView ==
  ASSUME ViewInv, LockInv', ~Crashed, NEW u \in Threads, Moves(u),
         TryLockCas(u)
  PROVE ViewInv'
<1> USE DEF mem, clocks, section, locals, ring, logs, quiesce
<1>1. /\ TypeOK /\ pc \in [Threads -> Labels] /\ Cur(u) \in Slots
      /\ log \in [Threads -> [Slots -> [Objs -> Vals \cup {NoVal}]]]
      /\ actual \in [Objs -> Vals]
  BY Functions, ThreadTypes DEF ViewInv, LockInv, TypeInv, TypeOK
<1>2. /\ UNCHANGED <<run, localV, wver, ring>>
      /\ pc[u] = "cas" /\ pc'[u] = "in"
  BY <1>1 DEF TryLockCas, Goto, At
<1>3. InSection(u) /\ arg[u] \in Objs
  BY <1>2 DEF InSection, ViewInv, LockInv, TypeInv, OperandsOK
<1>4. CASE ~CasSucceeds(u)
  <2>1. UNCHANGED <<log, view>>
    BY <1>4 DEF TryLockCas
  <2> QED
    BY <1>2, <1>3, <2>1, SameView DEF Locks
<1>5. CASE CasSucceeds(u)
  <2>1. /\ log' = [log EXCEPT ![u][Cur(u)][arg[u]] = actual[arg[u]]]
        /\ See(u, arg[u], CopyPtr(u, Cur(u)))
    BY <1>5 DEF TryLockCas
  <2>2. actual[arg[u]] # NoVal
    BY <1>1, <1>3, ConstantsAssumption
  <2>3. /\ \A s \in Slots : Locks(u, s) \subseteq Locks(u, s)'
        /\ arg[u] \in Locks(u, Cur(u))'
    <3>1. log'[u][Cur(u)][arg[u]] # NoVal
      BY <1>1, <1>3, <2>1, <2>2
    <3>2. \A s \in Slots, q \in Objs :
            log'[u][s][q] = log[u][s][q] \/ log'[u][s][q] = actual[arg[u]]
      BY <1>1, <1>3, <2>1
    <3>3. Cur(u)' = Cur(u)
      BY <1>2 DEF Cur
    <3> QED
      BY <1>3, <2>2, <3>1, <3>2, <3>3 DEF Locks
  <2>4. /\ CopyPtr(u, Cur(u)) \in CopyPtrs
        /\ \A w \in Threads, s \in Slots :
             CopyPtr(u, Cur(u)) = CopyPtr(w, s) => w = u /\ s = Cur(u)
    BY <1>1, Pointers
  <2>5. \A s \in Slots : CopyPtr(u, Cur(u)) = CopyPtr(u, s) =>
          arg[u] \in Locks(u, s)'
    <3>1. Cur(u)' = Cur(u)
      BY <1>2 DEF Cur
    <3> QED
      BY <2>3, <2>4, <3>1 DEF Locks
  <2> QED
    BY <1>2, <1>3, <2>1, <2>3, <2>4, <2>5, SeesOne
<1> QED
  BY <1>4, <1>5

(* A step of a sync that moves neither logs nor counters has only to keep   *)
(* the readers waited for.                                                  *)
LEMMA SyncView ==
  ASSUME ViewInv, LockInv', NEW u \in Threads, Moves(u),
         UNCHANGED <<view, ring, log>>, ~InSection(u), ~At(u, "crashed"),
         ~At(u, "deref")', LocalOK(u)',
         \A t \in Threads \ {u} :
           /\ InSection(t) /\ Awaits(u, t) => Awaits(u, t)'
           /\ InSync(u)' /\ SyncVersion(u)' <= localV[t] =>
                InSync(u) /\ SyncVersion(u) <= localV[t]
  PROVE ViewInv'
<1>1. /\ \A s \in Slots : Locks(u, s)' = Locks(u, s)
      /\ Pending(u)' = Pending(u) /\ OldSets(u)' = OldSets(u)
  BY DEF ring, Locks, Pending, OldSets, SlotsOf
<1>2. ASSUME NEW t \in Threads \ {u} PROVE StolenOK(t, u)' /\ LoadedOK(t, u)'
  <2>1. StolenOK(t, u) /\ LoadedOK(t, u) /\ Same(t) /\ OwnOK(t)
    BY DEF ViewInv, Moves, Others
  <2>2. StolenOK(t, u)'
    <3> SUFFICES ASSUME NEW o \in Objs, NEW s \in Slots,
                        view[t][o] = CopyPtr(u, s)
                 PROVE /\ o \in Locks(u, s)'
                       /\ \/ s \in Pending(u)'
                          \/ s \in OldSets(u)' /\ Awaits(u, t)'
      BY <2>1 DEF StolenOK, Same, CopyPtr
    <3>1. InSection(t)
      BY <2>1, Pointers DEF OwnOK
    <3> QED
      BY <1>1, <2>1, <3>1 DEF StolenOK
  <2>3. LoadedOK(t, u)'
    BY <1>1, <2>1 DEF LoadedOK, Same, CopyPtr, At
  <2> QED
    BY <2>2, <2>3
<1> QED
  BY <1>2, OutsideView

(* The sync takes a version newer than every section running (rlu.c:563).   *)
LEMMA EnterSyncView ==
  ASSUME ViewInv, LockInv', ~Crashed, NEW u \in Threads, Moves(u), SyncEnter(u)
  PROVE ViewInv'
<1> USE DEF mem, clocks, section, locals, ring, logs, quiesce
<1>1. /\ TypeOK /\ pc \in [Threads -> Labels] /\ ret[u] \in Returns
      /\ ver \in [Threads -> Nat] /\ gWriter \in Nat /\ LocalOK(u)
      /\ head[u] \in Nat /\ wb[u] \in Nat /\ tail[u] \in Nat
  BY Functions, ThreadTypes DEF ViewInv, LockInv, TypeInv
<1>2. /\ UNCHANGED <<view, ring, log, localV, wver, ret, qi, qrun, gWriter>>
      /\ pc[u] = "sync"
  BY DEF SyncEnter, At
<1>3. /\ ~InSection(u) /\ ~At(u, "crashed") /\ ~InSync(u) /\ ~Published(u)
  BY <1>2 DEF InSection, InSync, Published, At
<1>4. head[u] <= wb[u] /\ wb[u] <= tail[u]
  BY <1>3 DEF ViewInv, LockInv, ThreadInv, RingOK
<1>5. CASE tail[u] = head[u] /\ Goto(u, ret[u])
  <2>1. pc'[u] = ret[u] /\ wb[u] = tail[u]
    BY <1>1, <1>4, <1>5 DEF Goto
  <2>2. ~At(u, "deref")' /\ ~InSync(u)' /\ ~Published(u)' /\ ~At(u, "crashed")'
    BY <1>1, <2>1 DEF Returns, InSync, Published, At
  <2>3. LocalOK(u)'
    BY <1>1, <1>2, <1>3, <1>5, <2>1, <2>2 DEF LocalOK, Returns, At
  <2>4. \A t \in Threads : Awaits(u, t)'
    BY <2>2 DEF Awaits, InSync, Published, At
  <2> QED
    BY <1>2, <1>3, <2>2, <2>3, <2>4, SyncView
<1>6. CASE Goto(u, "publish") /\ ver' = [ver EXCEPT ![u] = gWriter + 1]
  <2>1. pc'[u] = "publish" /\ ver'[u] = gWriter + 1
    BY <1>1, <1>6 DEF Goto
  <2>2. ~At(u, "deref")' /\ InSync(u)' /\ ~Published(u)'
    BY <2>1 DEF InSync, Published, At
  <2>3. LocalOK(u)'
    BY <1>1, <1>2, <1>3, <2>1, <2>2 DEF LocalOK, At
  <2>4. \A t \in Threads : localV[t] < SyncVersion(u)'
    <3>1. ASSUME NEW t \in Threads PROVE localV[t] < gWriter + 1
      <4>1. localV[t] <= gWriter /\ localV[t] \in Nat
        BY <1>1, Functions DEF ViewInv, LocalOK
      <4> QED
        BY <1>1, <4>1
    <3> QED
      BY <2>1, <3>1 DEF SyncVersion, At
  <2>5. \A t \in Threads : Awaits(u, t)'
    BY <1>2, <2>1, <2>4 DEF Awaits, At
  <2>6. \A t \in Threads : ~(SyncVersion(u)' <= localV[t])
    <3>1. SyncVersion(u)' = gWriter + 1 /\ \A t \in Threads : localV[t] \in Nat
      BY <1>1, <2>1, Functions DEF SyncVersion, At
    <3> QED
      BY <1>1, <2>4, <3>1
  <2> QED
    BY <1>2, <1>3, <2>2, <2>3, <2>5, <2>6, SyncView
<1> QED
  BY <1>5, <1>6 DEF SyncEnter, NothingToSync

(* The version is published, and the clock advances.                        *)
LEMMA PublishView ==
  ASSUME ViewInv, LockInv', ~Crashed, NEW u \in Threads, Moves(u),
         Publish(u) \/ BumpWriter(u) \/ WriteBack(u)
  PROVE ViewInv'
<1> USE DEF mem, clocks, section, locals, ring, logs, quiesce
<1>1. /\ TypeOK /\ pc \in [Threads -> Labels] /\ LocalOK(u)
      /\ wver \in [Threads -> Nat] /\ qi \in [Threads -> 0 .. NThreads]
      /\ localV[u] \in Nat /\ gWriter \in Nat /\ gWriter' \in Nat
      /\ gWriter <= gWriter'
  BY Functions, ThreadTypes DEF ViewInv, LockInv, TypeInv, Moves
<1>2. UNCHANGED <<view, ring, log, localV, ret, qrun>>
  BY DEF Publish, BumpWriter, WriteBack
<1>3. \/ /\ pc[u] = "publish" /\ pc'[u] = "clock" /\ wver'[u] = ver[u]
      \/ /\ pc[u] = "clock" /\ pc'[u] = "initq" /\ wver'[u] = wver[u]
         /\ qi'[u] = 0
      \/ /\ pc[u] = "writeback" /\ pc'[u] = "writeback" /\ wver'[u] = wver[u]
  BY <1>1 DEF Publish, BumpWriter, WriteBack, Goto, At
<1>4. /\ ~InSection(u) /\ ~At(u, "crashed") /\ ~At(u, "deref")'
      /\ InSync(u) /\ InSync(u)' /\ Published(u)'
      /\ SyncVersion(u)' = SyncVersion(u)
  BY <1>3 DEF InSection, InSync, Published, SyncVersion, At
<1>5. LocalOK(u)'
  <2>1. localV[u] <= gWriter'
    BY <1>1 DEF LocalOK
  <2> QED
    BY <1>1, <1>2, <1>3, <1>4, <2>1 DEF LocalOK, At
<1>6. ASSUME NEW t \in Threads, Awaits(u, t) PROVE Awaits(u, t)'
  <2>1. ~(t < 0)
    BY ConstantsAssumption DEF Threads
  <2> QED
    BY <1>2, <1>3, <1>4, <1>6, <2>1 DEF Awaits, At
<1> QED
  BY <1>2, <1>4, <1>5, <1>6, SyncView

(* The sync notes which sections it has to wait for: one that has its       *)
(* version already is one of them.                                          *)
LEMMA InitQuiescenceAwaits ==
  ASSUME LockInv, BoundInv, ~Crashed, NEW u \in Threads, InitQuiescence(u),
         NEW t \in Threads \ {u}, Running(t), Awaits(u, t)
  PROVE Awaits(u, t)'
<1> USE DEF mem, clocks, section, locals, ring, logs, quiesce
<1> DEFINE i == qi[u]
<1>1. /\ pc \in [Threads -> Labels] /\ qi \in [Threads -> 0 .. NThreads]
      /\ qrun \in [Threads -> [Threads -> Nat]]
      /\ NThreads \in Nat /\ i \in Nat
  BY Functions, ConstantsAssumption DEF LockInv, TypeInv
<1>a. t \in Nat /\ t < NThreads
  BY <1>1 DEF Threads
<1>2. /\ UNCHANGED <<localV, wver, run>>
      /\ pc[u] = "initq" /\ i < NThreads /\ i \in Threads
  BY <1>1 DEF InitQuiescence, At, Threads
<1>3. \/ pc'[u] = "initq" /\ qi'[u] = i + 1
      \/ pc'[u] = "waitq" /\ qi'[u] = 0 /\ i + 1 >= NThreads
  <2>1. CASE i + 1 < NThreads
    BY <1>1, <1>2, <2>1 DEF InitQuiescence, At
  <2>2. CASE ~(i + 1 < NThreads)
    BY <1>1, <1>2, <2>2 DEF InitQuiescence, Goto
  <2> QED
    BY <2>1, <2>2
<1>4. /\ qrun'[u][i] = IF WaitsFor(u, i) THEN run[i] ELSE 0
      /\ \A x \in Threads \ {i} : qrun'[u][x] = qrun[u][x]
  BY <1>1, <1>2 DEF InitQuiescence
<1>5. InSync(u) /\ InSync(u)' /\ SyncVersion(u)' = SyncVersion(u)
  BY <1>2, <1>3 DEF InSync, Published, SyncVersion, At
<1>6. t = i => qrun'[u][t] = run[t]
  <2>1. Inside(run[t])
    BY DEF BoundInv, Bound
  <2> QED
    BY <1>4, <2>1 DEF WaitsFor
<1>7. t < i => qrun'[u][t] = run[t]
  <2>1. t < i => t # i /\ qrun[u][t] = run[t]
    BY <1>1, <1>a, <1>2 DEF Awaits, At
  <2> QED
    BY <1>4, <2>1
<1>8. InSync(u)' => localV'[t] < SyncVersion(u)'
  BY <1>2, <1>5 DEF Awaits
<1>9. CASE pc'[u] = "initq"
  <2>1. t < i + 1 => t < i \/ t = i
    BY <1>1, <1>a
  <2>2. t < qi'[u] => qrun'[u][t] = run'[t]
    BY <1>2, <1>3, <1>6, <1>7, <1>9, <2>1
  <2> QED
    BY <1>8, <1>9, <2>2 DEF Awaits, At
<1>10. CASE pc'[u] = "waitq"
  <2>1. t < i \/ t = i
    BY <1>1, <1>a, <1>3, <1>10
  <2>2. qi'[u] <= t /\ qrun'[u][t] = run'[t]
    BY <1>a, <1>2, <1>3, <1>6, <1>7, <1>10, <2>1
  <2> QED
    BY <1>8, <1>10, <2>2 DEF Awaits, At
<1> QED
  BY <1>3, <1>9, <1>10

(* The wait does not get past such a section (rlu.c:504-532).               *)
LEMMA WaitQuiescenceAwaits ==
  ASSUME LockInv, BoundInv, ~Crashed, NEW u \in Threads, WaitQuiescence(u),
         NEW t \in Threads \ {u}, Running(t), Awaits(u, t)
  PROVE Awaits(u, t)'
<1> USE DEF mem, clocks, section, locals, ring, logs, quiesce
<1> DEFINE i == qi[u]
<1>1. /\ pc \in [Threads -> Labels] /\ qi \in [Threads -> 0 .. NThreads]
      /\ qrun \in [Threads -> [Threads -> Nat]]
      /\ NThreads \in Nat /\ i \in Nat
      /\ localV[t] \in Nat /\ wver[u] \in Nat
  BY Functions, ConstantsAssumption DEF LockInv, TypeInv
<1>a. t \in Nat /\ t < NThreads
  BY <1>1 DEF Threads
<1>2. /\ UNCHANGED <<localV, wver, run>>
      /\ pc[u] = "waitq" /\ i < NThreads /\ i \in Threads /\ Quiet(u, i)
  BY <1>1 DEF WaitQuiescence, At, Threads
<1>3. /\ qi'[u] = i + 1
      /\ \/ pc'[u] = "waitq"
         \/ pc'[u] = "reset" /\ i + 1 >= NThreads
  BY <1>1, <1>2 DEF WaitQuiescence, Goto, At
<1>4. \A x \in Threads \ {i} : qrun'[u][x] = qrun[u][x]
  BY <1>1, <1>2 DEF WaitQuiescence
<1>5. /\ InSync(u) /\ InSync(u)' /\ SyncVersion(u) = wver[u]
      /\ SyncVersion(u)' = SyncVersion(u)
  BY <1>2, <1>3 DEF InSync, Published, SyncVersion, At
<1>6. i <= t /\ qrun[u][t] = run[t] /\ localV[t] < wver[u]
  BY <1>2, <1>5 DEF Awaits, At
<1>7. t # i
  <2>1. Inside(run[t]) /\ run[t] # 0
    BY DEF BoundInv, Bound, Inside
  <2>2. ~Quiet(u, t)
    BY <1>1, <1>6, <2>1 DEF Quiet
  <2> QED
    BY <1>2, <2>2
<1>8. i + 1 <= t /\ pc'[u] = "waitq"
  BY <1>1, <1>a, <1>3, <1>6, <1>7
<1>9. qrun'[u][t] = run'[t]
  BY <1>2, <1>4, <1>6, <1>7
<1>10. InSync(u)' => localV'[t] < SyncVersion(u)'
  BY <1>2, <1>5, <1>6
<1> QED
  BY <1>3, <1>8, <1>9, <1>10 DEF Awaits, At

(* So a section that has stolen from the old sets of a sync stays awaited.  *)
LEMMA QuiescenceView ==
  ASSUME ViewInv, LockInv', BoundInv, ~Crashed, NEW u \in Threads, Moves(u),
         InitQuiescence(u) \/ WaitQuiescence(u)
  PROVE ViewInv'
<1> USE DEF mem, clocks, section, locals, ring, logs, quiesce
<1>1. TypeOK /\ pc \in [Threads -> Labels] /\ LocalOK(u)
  BY Functions DEF ViewInv, LockInv, TypeInv
<1>2. /\ UNCHANGED <<view, ring, log, localV, ret, wver, gWriter>>
      /\ pc[u] \in {"initq", "waitq"}
  BY DEF InitQuiescence, WaitQuiescence, At
<1>3. pc'[u] \in {"initq", "waitq", "reset"}
  BY <1>1, <1>2 DEF InitQuiescence, WaitQuiescence, Goto
<1>4. /\ ~InSection(u) /\ ~At(u, "crashed") /\ ~At(u, "deref")'
      /\ InSync(u) /\ InSync(u)' /\ Published(u) /\ Published(u)'
      /\ SyncVersion(u)' = SyncVersion(u)
  BY <1>2, <1>3 DEF InSection, InSync, Published, SyncVersion, At
<1>5. LocalOK(u)'
  BY <1>1, <1>2, <1>3, <1>4 DEF LocalOK, At
<1>6. ASSUME NEW t \in Threads \ {u}, InSection(t), Awaits(u, t)
      PROVE Awaits(u, t)'
  BY <1>6, InitQuiescenceAwaits, WaitQuiescenceAwaits DEF ViewInv, Running
<1> QED
  BY <1>2, <1>4, <1>5, <1>6, SyncView

(* When the old sets are reset nobody has a pointer into them any more      *)
(* (rlu.c:839).                                                             *)
LEMMA ResetView ==
  ASSUME ViewInv, LockInv', ~Crashed, NEW u \in Threads, Moves(u), ResetSets(u)
  PROVE ViewInv'
<1> USE DEF mem, clocks, section, locals, ring, logs, quiesce
<1>1. /\ TypeOK /\ pc \in [Threads -> Labels] /\ LocalOK(u)
      /\ log \in [Threads -> [Slots -> [Objs -> Vals \cup {NoVal}]]]
      /\ head \in [Threads -> Nat]
      /\ Pending(u) \subseteq Slots
  BY Functions, SlotsTypes DEF ViewInv, LockInv, TypeInv
<1>2. /\ UNCHANGED <<view, wb, tail, localV, ret, wver, ver, gWriter>>
      /\ pc[u] = "reset" /\ head'[u] = wb[u]
      /\ log' = [log EXCEPT ![u] =
           [s \in Slots |-> IF s \in OldSets(u) THEN EmptyLog ELSE log[u][s]]]
  BY <1>1 DEF ResetSets, At
<1>3. pc'[u] \in {"writeback", "crashed"}
  BY <1>1 DEF ResetSets, Goto
<1>4. /\ ~InSection(u) /\ ~At(u, "crashed") /\ ~At(u, "deref")'
      /\ InSync(u) /\ SyncVersion(u) = wver[u]
      /\ \A t \in Threads : ~Awaits(u, t)
  BY <1>2, <1>3 DEF InSection, InSync, Published, SyncVersion, Awaits, At
<1>5. Pending(u)' = Pending(u) /\ \A s \in Pending(u) : Locks(u, s)' = Locks(u, s)
  <2>1. RingOK(u)
    BY <1>4 DEF ViewInv, LockInv, ThreadInv
  <2>2. Pending(u) \cap OldSets(u) = {}
    BY <1>1, <2>1, PendingNotOld
  <2>3. \A s \in Slots \ OldSets(u) : log'[u][s] = log[u][s]
    BY <1>1, <1>2
  <2> QED
    BY <1>1, <1>2, <2>2, <2>3 DEF Pending, SlotsOf, Locks
<1>6. ASSUME NEW t \in Threads \ {u} PROVE StolenOK(t, u)' /\ LoadedOK(t, u)'
  <2>1. StolenOK(t, u) /\ LoadedOK(t, u) /\ Same(t)
    BY DEF ViewInv, Moves, Others
  <2>2. StolenOK(t, u)'
    BY <1>4, <1>5, <2>1 DEF StolenOK, Same, CopyPtr
  <2>3. InSync(u)' => SyncVersion(u)' = wver[u]
    BY <1>2, <1>3 DEF SyncVersion, At
  <2>4. LoadedOK(t, u)'
    BY <1>2, <1>4, <1>5, <2>1, <2>3 DEF LoadedOK, Same, CopyPtr, At
  <2> QED
    BY <2>2, <2>4
<1>7. LocalOK(u)'
  <2>1. Published(u)' \/ At(u, "crashed")'
    BY <1>3 DEF Published, At
  <2>2. ret[u] = "finished" => wb[u] = tail[u]
    BY <1>1, <1>4 DEF LocalOK
  <2> QED
    BY <1>1, <1>2, <1>3, <2>1, <2>2 DEF LocalOK, At
<1> QED
  BY <1>2, <1>4, <1>6, <1>7, OutsideView

(* The sets written back become the old sets of the next sync.              *)
LEMMA RetractView ==
  ASSUME ViewInv, LockInv', ~Crashed, NEW u \in Threads, Moves(u), Retract(u)
  PROVE ViewInv'
<1> USE DEF mem, clocks, section, locals, ring, logs, quiesce
<1>1. /\ TypeOK /\ pc \in [Threads -> Labels] /\ LocalOK(u)
      /\ wb \in [Threads -> Nat] /\ wver \in [Threads -> Nat]
      /\ head[u] \in Nat /\ wb[u] \in Nat /\ tail[u] \in Nat
  BY Functions, ThreadTypes DEF ViewInv, LockInv, TypeInv
<1>2. /\ UNCHANGED <<view, log, head, tail, localV, ret, gWriter>>
      /\ pc[u] = "writeback" /\ pc'[u] = "commit"
      /\ wb'[u] = tail[u] /\ wver'[u] = MaxVersion
  BY <1>1 DEF Retract, WrittenBack, Goto, At
<1>3. /\ ~InSection(u) /\ ~At(u, "crashed") /\ ~At(u, "deref")'
      /\ ~InSync(u)' /\ ~Published(u)'
      /\ \A t \in Threads : ~Awaits(u, t) /\ Awaits(u, t)'
  BY <1>2 DEF InSection, InSync, Published, Awaits, At
<1>4. Pending(u) \subseteq OldSets(u)'
  <2>1. head[u] <= wb[u]
    BY <1>3 DEF ViewInv, LockInv, ThreadInv, RingOK
  <2> QED
    BY <1>1, <1>2, <2>1 DEF Pending, OldSets, SlotsOf
<1>5. \A s \in Slots : Locks(u, s)' = Locks(u, s)
  BY <1>2 DEF Locks
<1>6. ASSUME NEW t \in Threads \ {u} PROVE StolenOK(t, u)' /\ LoadedOK(t, u)'
  <2>1. StolenOK(t, u) /\ Same(t)
    BY DEF ViewInv, Moves, Others
  <2>2. StolenOK(t, u)'
    BY <1>3, <1>4, <1>5, <2>1 DEF StolenOK, Same, CopyPtr
  <2> QED
    BY <1>3, <2>2 DEF LoadedOK
<1>7. LocalOK(u)'
  BY <1>1, <1>2, <1>3 DEF LocalOK, At
<1> QED
  BY <1>2, <1>3, <1>6, <1>7, OutsideView

(* Nobody has a pointer initially.                                          *)
LEMMA InitView == Init => ViewInv
<1> SUFFICES ASSUME Init PROVE ViewInv
  OBVIOUS
<1>1. \A t \in Threads, o \in Objs : view[t][o] = Unseen
  BY DEF Init
<1>2. ASSUME NEW t \in Threads
      PROVE /\ pc[t] = "idle" /\ ret[t] = "idle" /\ localV[t] = 0
            /\ wver[t] = MaxVersion /\ gWriter = 0
  BY DEF Init
<1>3. ASSUME NEW t \in Threads PROVE OwnOK(t) /\ LocalOK(t)
  BY <1>1, <1>2, Pointers DEF OwnOK, LocalOK, Published, InSync, At
<1>4. ASSUME NEW t \in Threads, NEW w \in Threads
      PROVE StolenOK(t, w) /\ LoadedOK(t, w)
  BY <1>1, <1>2, Pointers DEF StolenOK, LoadedOK, At
<1> QED
  BY <1>3, <1>4, InitLockInv DEF ViewInv

(* Every step keeps the pointers good.                                      *)
LEMMA StepView ==
  ASSUME ViewInv, BoundInv, VersionsBounded, ~Crashed, NEW u \in Threads,
         LibraryStep(u) \/ ClientStep(u)
  PROVE ViewInv'
<1>1. LockInv'
  BY StepLockInv DEF ViewInv
<1>3. CASE LibraryStep(u)
  <2>1. Moves(u)
    BY <1>1, <1>3, StepMoves
  <2>2. CASE \/ Register(u) \/ RegVersion(u) \/ RegCommit(u) \/ UnlockObj(u)
             \/ ResetAborted(u) \/ Checkpoint(u) \/ BumpCommit(u)
             \/ ProcessFree(u)
    BY <1>1, <1>3, <2>1, <2>2, OutsideViewSteps
  <2>3. CASE SendSyncRequest(u)
    BY <1>1, <1>3, <2>1, <2>3, PlainSectionSteps
  <2>4. CASE Publish(u) \/ BumpWriter(u) \/ WriteBack(u)
    BY <1>1, <1>3, <2>1, <2>4, PublishView
  <2> QED
    BY <1>1, <1>3, <2>1, <2>2, <2>3, <2>4, StealView, CasView, EnterSyncView,
       QuiescenceView, ResetView, RetractView
       DEF LibraryStep
<1>4. CASE ClientStep(u)
  <2>1. Moves(u)
    BY <1>1, <1>4, StepMoves
  <2>2. CASE ReaderLock(u) \/ ThreadFinish(u)
    BY <1>1, <1>4, <2>1, <2>2, OutsideViewSteps
  <2>3. CASE ReaderUnlock(u) \/ Abort(u)
    BY <1>1, <1>4, <2>1, <2>3, LeaveView
  <2>4. ASSUME NEW o \in Objs, Deref(u, o) \/ TryLockHeld(u, o) PROVE ViewInv'
    BY <1>1, <1>4, <2>1, <2>4, DerefView
  <2>5. ASSUME NEW o \in Objs,
               TryLockFree(u, o) \/ \E v \in Vals : Assigns(u, o, v)
        PROVE ViewInv'
    BY <1>1, <1>4, <2>1, <2>5, PlainSectionSteps
  <2> QED
    BY <1>4, <2>2, <2>3, <2>4, <2>5 DEF ClientStep
<1> QED
  BY <1>3, <1>4

LEMMA NextView ==
  ViewInv /\ BoundInv /\ VersionsBounded /\ [Next]_vars => ViewInv'
<1> SUFFICES ASSUME ViewInv, BoundInv, VersionsBounded, UNCHANGED vars
             PROVE ViewInv'
  BY StepView, CallIsStep DEF Next, Terminated
<1>1. LockInv'
  BY StutterLockInv DEF ViewInv
<1>2. \A x \in Threads : Same(x)
  BY DEF vars, Same, section, locals, ring, logs, quiesce
<1>3. gWriter' = gWriter
  BY DEF vars, clocks
<1>4. \A x \in Threads : LocalOK(x)'
  BY <1>2, <1>3 DEF ViewInv, Same, LocalOK, InSync, Published, At
<1> QED
  BY <1>1, <1>2, <1>4, SamePair DEF ViewInv

-----------------------------------------------------------------------------
(* The invariant holds of every client.                                     *)
THEOREM ViewInvariant == Spec => [](ViewInv /\ BoundInv)
  BY InitView, NextView, InitLockInv, NextLockInv, InitBound, NextBound,
     VersionsStayBelow, PTL DEF Spec

(* For every number of threads, objects and write sets: as long as a        *)
(* section holds a pointer into a log, its own or one that rlu_deref_slow_  *)
(* path stole (rlu.c:820-843), the log keeps the copy, and its owner does   *)
(* not fill it again.                                                       *)
THEOREM ViewsStayLive == Spec => []ViewsLive
<1>1. ViewInv => ViewsLive
  <2> SUFFICES ASSUME ViewInv, NEW t \in Threads, NEW o \in Objs,
                      NEW p \in CopyPtrs, p = view[t][o]
               PROVE /\ log[p.thread][p.slot][o] # NoVal
                     /\ p.thread # t /\ InSection(p.thread) =>
                          p.slot # Cur(p.thread)
    BY DEF ViewsLive
  <2>1. PICK w \in Threads, s \in Slots :
          p = CopyPtr(w, s) /\ p.thread = w /\ p.slot = s
    BY PointerOf
  <2>2. CASE w = t
    <3>1. o \in Locks(t, s)
      BY <2>1, <2>2 DEF ViewInv, OwnOK
    <3> QED
      BY <2>1, <2>2, <3>1 DEF Locks
  <2>3. CASE w # t
    <3>1. StolenOK(t, w) /\ view[t][o] = CopyPtr(w, s)
      BY <2>1, <2>3 DEF ViewInv
    <3>2. o \in Locks(w, s)
      BY <3>1 DEF StolenOK
    <3>3. ASSUME InSection(w) PROVE s # Cur(w)
      <4>1. ~At(w, "crashed") /\ ~Syncing(w)
        BY <3>3 DEF InSection, Syncing, At
      <4>2. TypeOK /\ RingOK(w)
        BY <4>1 DEF ViewInv, LockInv, TypeInv, ThreadInv
      <4>3. Cur(w) \notin SlotsOf(w, head[w], tail[w])
        BY <4>1, <4>2, CurFresh
      <4>4. s \in Pending(w) \/ s \in OldSets(w)
        BY <3>1, <4>1 DEF StolenOK
      <4>5. /\ head[w] \in Nat /\ wb[w] \in Nat /\ tail[w] \in Nat
            /\ head[w] <= wb[w] /\ wb[w] <= tail[w]
        BY <4>2, ThreadTypes DEF RingOK
      <4> QED
        BY <4>3, <4>4, <4>5 DEF Pending, OldSets, SlotsOf
    <3> QED
      BY <2>1, <3>2, <3>3 DEF Locks
  <2> QED
    BY <2>2, <2>3
<1> QED
  BY ViewInvariant, <1>1, PTL

(* A finished thread has no object locked.                                  *)
FinishedUnlocked ==
  \A t \in Threads : At(t, "finished") => \A o \in Objs : copyOf[o].thread # t

(* After both of its syncs all counters of a thread are the same, so that   *)
(* none of its logs is pending or old.                                      *)
LEMMA FinishedEmpty ==
  ASSUME ViewInv, NEW t \in Threads, At(t, "finished")
  PROVE Pending(t) = {} /\ OldSets(t) = {} /\ \A s \in Slots : Held(t, s) = {}
<1>1. ~At(t, "crashed") /\ ~InSection(t) /\ ~At(t, "unlockobjs")
  BY DEF InSection, At
<1>2. /\ TypeOK /\ RingOK(t) /\ head[t] = tail[t]
      /\ head[t] \in Nat /\ wb[t] \in Nat /\ tail[t] \in Nat
  BY <1>1, ThreadTypes
     DEF ViewInv, LockInv, TypeInv, ThreadInv, LocalOK
<1>3. head[t] .. wb[t] - 1 = {} /\ wb[t] .. tail[t] - 1 = {}
  BY <1>2 DEF RingOK
<1>4. Pending(t) = {} /\ OldSets(t) = {}
  BY <1>3 DEF Pending, OldSets, SlotsOf
<1> QED
  BY <1>1, <1>4 DEF Held

LEMMA UnlockedAtEnd == ViewInv /\ ~Crashed => FinishedUnlocked
<1> SUFFICES ASSUME ViewInv, ~Crashed, NEW t \in Threads, At(t, "finished"),
                    NEW o \in Objs
             PROVE copyOf[o].thread # t
  BY DEF FinishedUnlocked
<1>1. copyOf[o] \in CopyPtrs \cup {NoCopy}
  BY DEF ViewInv, LockInv, TypeInv, TypeOK
<1>2. CASE copyOf[o] = NoCopy
  BY <1>2, ConstantsAssumption DEF NoCopy, Threads
<1>3. CASE copyOf[o] \in CopyPtrs
  <2>1. PICK w \in Threads, s \in Slots :
          copyOf[o] = CopyPtr(w, s) /\ copyOf[o].thread = w
    BY <1>3, PointerOf
  <2>2. o \in Held(w, s)
    BY <2>1, OwnCopyLocked
  <2> QED
    BY <2>1, <2>2, FinishedEmpty
<1> QED
  BY <1>1, <1>2, <1>3

(* A failed assertion stops the process: one that rlu_abort finds a header  *)
(* without a copy (rlu.c:405) or that the write-back does (rlu.c:353).      *)
LEMMA CrashStep ==
  ASSUME TypeOK, ~Crashed, NEW u \in Threads, LibraryStep(u) \/ ClientStep(u),
         Crashed'
  PROVE At(u, "crashed")' /\ Others(u) /\ (ResetSets(u) \/ Abort(u))
<1>1. Others(u) /\ pc \in [Threads -> Labels] /\ ret[u] \in Returns
  BY OwnDataOnly, Functions
<1>2. pc'[u] = "crashed"
  BY <1>1 DEF Crashed, At, Others, Same
<1>3. ResetSets(u) \/ Abort(u)
  BY <1>1, <1>2 DEF LibraryStep, ClientStep, ReaderLock, Register,
     RegVersion, RegCommit, Deref, DerefCheck, TryLockHeld, SendSyncRequest,
     TryLockFree, TryLockCas, Assigns, ReaderUnlock, UnlockObj, ResetAborted,
     Checkpoint, ThreadFinish, SyncEnter, Publish, BumpWriter,
     InitQuiescence, WaitQuiescence, WriteBack, Retract, BumpCommit,
     ProcessFree, Goto, CallSync, At, Returns
<1> QED
  BY <1>1, <1>2, <1>3 DEF At

(* Such a step unlocks nothing.                                             *)
LEMMA UnlockedKept ==
  ViewInv /\ ViewInv' /\ FinishedUnlocked /\ [Next]_vars => FinishedUnlocked'
<1> SUFFICES ASSUME ViewInv, ViewInv', FinishedUnlocked, [Next]_vars
             PROVE FinishedUnlocked'
  OBVIOUS
<1>1. CASE UNCHANGED vars
  BY <1>1 DEF vars, mem, FinishedUnlocked, At
<1>2. CASE ~Crashed'
  BY <1>2, UnlockedAtEnd, PTL
<1>3. ASSUME NEW u \in Threads, ~Crashed, LibraryStep(u) \/ ClientStep(u),
             Crashed'
      PROVE FinishedUnlocked'
  <2>1. /\ At(u, "crashed")' /\ Others(u)
        /\ ResetSets(u) \/ Abort(u)
        /\ TypeOK
    BY <1>3, CrashStep DEF ViewInv, LockInv, TypeInv
  <2>2. copyOf' = copyOf
    BY <2>1 DEF ResetSets, Abort, mem
  <2> QED
    BY <2>1, <2>2 DEF FinishedUnlocked, Others, Same, At
<1> QED
  BY <1>1, <1>2, <1>3, CallIsStep DEF Next, Terminated

(* For every number of threads and sections: after rlu_thread_finish        *)
(* (rlu.c:687-701) has synced twice, no object is locked by the thread and  *)
(* no other thread has a pointer into its logs, so its data may go away.    *)
THEOREM FinishedIsUnreferenced == Spec => []FinishedUnreferenced
<1>1. ViewInv /\ FinishedUnlocked => FinishedUnreferenced
  <2> SUFFICES ASSUME ViewInv, NEW t \in Threads, At(t, "finished"),
                      NEW o \in Objs, NEW u \in Threads \ {t},
                      view[u][o].thread = t
               PROVE FALSE
    BY DEF FinishedUnreferenced, FinishedUnlocked
  <2>1. view[u][o] \in CopyPtrs \cup {Actual, Unseen}
    BY Functions DEF ViewInv, LockInv, TypeInv
  <2>2. view[u][o] \in CopyPtrs
    BY <2>1, ConstantsAssumption DEF Actual, Unseen, Threads
  <2>3. PICK s \in Slots : view[u][o] = CopyPtr(t, s)
    BY <2>2, PointerOf
  <2>4. StolenOK(u, t) /\ ~At(t, "crashed")
    BY DEF ViewInv, At
  <2> QED
    BY <2>3, <2>4, FinishedEmpty DEF StolenOK
<1>2. Init => FinishedUnlocked
  BY DEF Init, FinishedUnlocked, At
<1> QED
  BY ViewInvariant, UnlockedKept, <1>1, <1>2, PTL DEF Spec
=============================================================================
