-------------------------- MODULE RluVersionProofs --------------------------
(***************************************************************************)
(* Lemmas about the versions and the logs of Rlu that hold of every        *)
(* client, for any number of threads, objects and write sets.              *)
(*  - Committed and PendingKept: a committed copy is not touched before    *)
(*    its write-back.                                                      *)
(*  - AwaitInv: a sync of a later version than a section waits for it, so  *)
(*    that nothing the section does not read is written back under it.     *)
(*  - NoRace, and the two counts ActiveOK and NewerOK: if the commit       *)
(*    version is that of the section when rlu_reader_lock looks, no sync   *)
(*    can be under way whose write sets the section has to steal           *)
(*    (rlu.c:761-763); hence FlagsOK, that RLU_DEREF may then read the     *)
(*    object itself.                                                       *)
(***************************************************************************)
EXTENDS RluViewProofs

-----------------------------------------------------------------------------
(* The object is in a write set that is committed and not written back.     *)
Committed(o, w, s) == copyOf[o] = CopyPtr(w, s) /\ s \in Pending(w)

LEMMA CommittedNext ==
  ASSUME NEW o \in Objs, NEW w \in Threads, NEW s \in Slots
  PROVE Committed(o, w, s)' <=> copyOf'[o] = CopyPtr(w, s) /\ s \in Pending(w)'
  BY DEF Committed, CopyPtr

(* The log of the section is never one of those still to be written back.   *)
LEMMA CurNotPending ==
  ASSUME LockInv, NEW t \in Threads, ~At(t, "crashed")
  PROVE Cur(t) \notin Pending(t)
<1>1. /\ wb[t] \in Nat /\ tail[t] \in Nat /\ RingOK(t)
      /\ MaxWriteSets \in Nat /\ MaxActiveSets \in Nat
      /\ MaxActiveSets < MaxWriteSets
  BY ThreadTypes, ConstantsAssumption DEF LockInv, TypeInv, ThreadInv
<1>2. ASSUME NEW c \in wb[t] .. tail[t] - 1 PROVE WsIndex(c) # Cur(t)
  <2>1. c \in Nat /\ c < tail[t] /\ tail[t] < c + MaxWriteSets
    BY <1>1 DEF RingOK
  <2> QED
    BY <1>1, <2>1, IndexDistinct DEF Cur
<1> QED
  BY <1>2 DEF Pending, SlotsOf

(* Headers and logs agree, as facts about one object.                       *)
LEMMA HeaderAndLog ==
  ASSUME LockInv, ~Crashed, NEW w \in Threads, NEW s \in Slots, NEW o \in Objs
  PROVE /\ copyOf[o] = CopyPtr(w, s) <=> o \in Held(w, s)
        /\ Committed(o, w, s) =>
             o \in Locks(w, s) /\ (At(w, "writeback") => o \in todo[w])
        /\ copyOf[o] = CopyPtr(w, s) /\ ~Committed(o, w, s) =>
             s = Cur(w) /\ o \in Locks(w, s) /\ Owns(w)
<1>1. copyOf[o] = CopyPtr(w, s) <=> o \in Held(w, s)
  BY DEF LockInv, LocksMatchLogs
<1>2. ~At(w, "crashed") /\ Cur(w) \notin Pending(w)
  BY CurNotPending DEF Crashed
<1> QED
  BY <1>1, <1>2 DEF Held, Committed, Owns

(* When all of a sync is written back none of its objects is locked.        *)
LEMMA NoneLeft ==
  ASSUME LockInv, ~Crashed, NEW t \in Threads, At(t, "writeback"),
         todo[t] = {}, NEW o \in Objs, NEW s \in Slots
  PROVE ~Committed(o, t, s)
  BY HeaderAndLog

(* The logs of a thread change where its section or its abort is, and where *)
(* its sync resets.                                                         *)
LEMMA LogStep ==
  ASSUME TypeOK, NEW u \in Threads, LibraryStep(u) \/ ClientStep(u),
         NEW s \in Slots, log'[u][s] # log[u][s]
  PROVE \/ s = Cur(u) /\ Owns(u)
        \/ s \in OldSets(u) /\ At(u, "reset")
<1> USE DEF mem, clocks, section, locals, ring, logs, quiesce
<1>1. log \in [Threads -> [Slots -> [Objs -> Vals \cup {NoVal}]]]
  BY Functions
<1>2. CASE TryLockCas(u)
  BY <1>1, <1>2 DEF TryLockCas, Owns, InSection, At
<1>3. ASSUME NEW o \in Objs, NEW v \in Vals, Assigns(u, o, v)
      PROVE s = Cur(u) /\ Owns(u)
  BY <1>1, <1>3 DEF Assigns, Assign, Owns, InSection, At
<1>4. CASE ResetAborted(u)
  BY <1>1, <1>4 DEF ResetAborted, Owns, At
<1>5. CASE ResetSets(u)
  BY <1>1, <1>5 DEF ResetSets
<1>6. CASE UNCHANGED log
  BY <1>6
<1>7. CASE \/ ReaderLock(u) \/ ReaderUnlock(u) \/ Abort(u) \/ ThreadFinish(u)
           \/ \E o \in Objs :
                Deref(u, o) \/ TryLockHeld(u, o) \/ TryLockFree(u, o)
  BY <1>6, <1>7 DEF ReaderLock, ReaderUnlock, Abort, ThreadFinish, Deref,
     TryLockHeld, TryLockFree
<1>8. CASE LibraryStep(u) /\ ~(TryLockCas(u) \/ ResetAborted(u) \/ ResetSets(u))
  BY <1>6, <1>8 DEF LibraryStep, Register, RegVersion, RegCommit, DerefCheck,
     SendSyncRequest, UnlockObj, Checkpoint, SyncEnter, Publish, BumpWriter,
     InitQuiescence, WaitQuiescence, WriteBack, Retract, BumpCommit, ProcessFree
<1> QED
  BY <1>2, <1>3, <1>4, <1>5, <1>7, <1>8 DEF LibraryStep, ClientStep

(* A write set that waits for its write-back is neither that of a section   *)
(* nor among those that a sync resets.                                      *)
LEMMA PendingKept ==
  ASSUME LockInv, ~Crashed, NEW u \in Threads, LibraryStep(u) \/ ClientStep(u),
         NEW w \in Threads, NEW s \in Pending(w)
  PROVE s \in Slots /\ log'[w][s] = log[w][s]
<1>1. /\ TypeOK /\ ~At(w, "crashed") /\ Pending(w) \subseteq Slots /\ RingOK(w)
      /\ Others(u)
  BY SlotsTypes, OwnDataOnly DEF LockInv, TypeInv, ThreadInv, Crashed
<1>2. s # Cur(w) /\ s \notin OldSets(w)
  BY <1>1, CurNotPending, PendingNotOld
<1>a. s \in Slots
  BY <1>1
<1>3. CASE w = u
  BY <1>1, <1>2, <1>a, <1>3, LogStep
<1>4. CASE w # u
  BY <1>1, <1>4 DEF Others, Same
<1> QED
  BY <1>a, <1>3, <1>4

(* rlu_reader_unlock commits what the section has locked.                   *)
LEMMA CommitPending ==
  ASSUME LockInv, ~Crashed, NEW t \in Threads, ReaderUnlock(t)
  PROVE \/ ~writeDet[t] /\ tail' = tail /\ Locks(t, Cur(t)) = {}
        \/ /\ writeDet[t] /\ Pending(t)' = Pending(t) \cup {Cur(t)}
           /\ \A w \in Threads \ {t} : Pending(w)' = Pending(w)
<1> USE DEF mem, clocks, section, locals, ring, logs, quiesce
<1>1. /\ TypeOK /\ tail \in [Threads -> Nat] /\ wb[t] \in Nat /\ tail[t] \in Nat
      /\ wb[t] <= tail[t]
  BY ThreadTypes, Functions
     DEF LockInv, TypeInv, Crashed, ThreadInv, RingOK
<1>2. UNCHANGED wb /\ At(t, "in")
  BY DEF ReaderUnlock
<1>3. CASE writeDet[t]
  <2>1. tail' = [tail EXCEPT ![t] = tail[t] + 1]
    BY <1>3 DEF ReaderUnlock
  <2>2. wb[t] .. (tail[t] + 1) - 1 = (wb[t] .. tail[t] - 1) \cup {tail[t]}
    BY <1>1
  <2>3. Pending(t)' = Pending(t) \cup {Cur(t)}
    BY <1>1, <1>2, <2>1, <2>2 DEF Pending, SlotsOf, Cur
  <2> QED
    BY <1>1, <1>2, <1>3, <2>1, <2>3 DEF Pending, SlotsOf
<1>4. CASE ~writeDet[t]
  <2>1. tail' = tail
    BY <1>4 DEF ReaderUnlock
  <2>2. Locks(t, Cur(t)) = {}
    BY <1>2, <1>4 DEF LockInv, Crashed, ThreadInv, DetectOK, InSection, At
  <2> QED
    BY <1>4, <2>1, <2>2
<1> QED
  BY <1>3, <1>4

(* The committed copies of an object change by a commit, ...                *)
CommitsObj(u, o) ==
  /\ ReaderUnlock(u) /\ HoldsLock(u, o)
  /\ \A w \in Threads, s \in Slots :
       ~Committed(o, w, s) /\ (Committed(o, w, s)' <=> w = u /\ s = Cur(u))

(* ... by the write-back, ...                                               *)
WritesObj(u, o) ==
  /\ WriteBack(u) /\ At(u, "writeback")
  /\ \E s \in Slots : Committed(o, u, s) /\ actual'[o] = log[u][s][o]
  /\ copyOf'[o] = NoCopy
  /\ \A w \in Threads, s \in Slots : ~Committed(o, w, s)'

(* ... or not at all.                                                       *)
SameObj(o) ==
  /\ actual'[o] = actual[o]
  /\ \A w \in Threads, s \in Slots : Committed(o, w, s)' <=> Committed(o, w, s)

LEMMA CommitObj ==
  ASSUME LockInv, ~Crashed, NEW u \in Threads, ReaderUnlock(u), NEW o \in Objs
  PROVE IF HoldsLock(u, o) THEN CommitsObj(u, o) ELSE SameObj(o)
<1> USE DEF mem, clocks, section, locals, ring, logs, quiesce
<1> DEFINE c == Cur(u)
<1>1. /\ c \in Slots /\ InSection(u) /\ UNCHANGED <<actual, copyOf, log, wb>>
      /\ HoldsLock(u, o) <=> o \in Locks(u, c)
      /\ c \notin Pending(u)
  BY CurType, CurNotPending DEF LockInv, TypeInv, ReaderUnlock,
     InSection, At, HoldsLock, Locks, Crashed
<1>2. CASE ~HoldsLock(u, o)
  <2>1. copyOf[o] # CopyPtr(u, c)
    BY <1>1, <1>2, HeaderAndLog DEF Held
  <2>2. \A w \in Threads, s \in Slots : Committed(o, w, s)' <=> Committed(o, w, s)
    <3>1. CASE tail' = tail
      BY <1>1, <3>1 DEF Committed, CopyPtr, Pending, SlotsOf
    <3>2. CASE /\ Pending(u)' = Pending(u) \cup {c}
               /\ \A w \in Threads \ {u} : Pending(w)' = Pending(w)
      BY <1>1, <2>1, <3>2 DEF Committed, CopyPtr
    <3> QED
      BY <3>1, <3>2, CommitPending
  <2> QED
    BY <1>1, <1>2, <2>2 DEF SameObj
<1>3. CASE HoldsLock(u, o)
  <2>1. copyOf[o] = CopyPtr(u, c)
    BY <1>1, <1>3, HeaderAndLog DEF Held
  <2>2. \A w \in Threads, s \in Slots : ~Committed(o, w, s)
    BY <1>1, <2>1, Pointers DEF Committed
  <2>3. /\ Pending(u)' = Pending(u) \cup {c}
        /\ \A w \in Threads \ {u} : Pending(w)' = Pending(w)
    BY <1>1, <1>3, CommitPending
  <2>4. \A w \in Threads, s \in Slots :
          Committed(o, w, s)' <=> w = u /\ s = c
    BY <1>1, <2>1, <2>3, Pointers, CommittedNext
  <2> QED
    BY <1>1, <1>3, <2>2, <2>4 DEF CommitsObj
<1> QED
  BY <1>2, <1>3

LEMMA WriteObj ==
  ASSUME LockInv, ~Crashed, NEW u \in Threads, WriteBack(u),
         NEW o \in Objs
  PROVE WritesObj(u, o) \/ SameObj(o)
<1> USE DEF mem, clocks, section, locals, ring, logs, quiesce
<1>1. /\ copyOf \in [Objs -> CopyPtrs \cup {NoCopy}] /\ actual \in [Objs -> Vals]
      /\ Pending(u) \subseteq Slots /\ todo[u] \subseteq Objs
      /\ UNCHANGED <<wb, tail>> /\ At(u, "writeback")
  BY SlotsTypes, ThreadTypes DEF LockInv, TypeInv, TypeOK, WriteBack
<1>2. PICK s \in Pending(u), q \in todo[u] :
        /\ log[u][s][q] # NoVal
        /\ actual' = [actual EXCEPT ![q] = log[u][s][q]]
        /\ copyOf' = [copyOf EXCEPT ![q] = NoCopy]
  BY DEF WriteBack
<1>3. CASE o = q
  <2>1. o \in Held(u, s)
    BY <1>1, <1>2, <1>3 DEF Held, Locks
  <2>2. Committed(o, u, s) /\ s \in Slots
    BY <1>1, <1>2, <2>1, HeaderAndLog DEF Committed
  <2>3. \A w \in Threads, r \in Slots : ~Committed(o, w, r)'
    BY <1>1, <1>2, <1>3, Pointers, CommittedNext
  <2>4. actual'[o] = log[u][s][o] /\ copyOf'[o] = NoCopy
    BY <1>1, <1>2, <1>3
  <2> QED
    BY <1>1, <2>2, <2>3, <2>4 DEF WritesObj
<1>4. CASE o # q
  <2>1. copyOf'[o] = copyOf[o] /\ actual'[o] = actual[o]
    BY <1>1, <1>2, <1>4
  <2>2. \A w \in Threads : Pending(w)' = Pending(w)
    BY <1>1 DEF Pending, SlotsOf
  <2> QED
    BY <2>1, <2>2, CommittedNext DEF SameObj, Committed
<1> QED
  BY <1>3, <1>4

(* Locking and unlocking before the commit.                                 *)
LEMMA LockObj ==
  ASSUME LockInv, ~Crashed, NEW u \in Threads, TryLockCas(u) \/ UnlockObj(u),
         NEW o \in Objs
  PROVE SameObj(o)
<1> USE DEF mem, clocks, section, locals, ring, logs, quiesce
<1>1. /\ copyOf \in [Objs -> CopyPtrs \cup {NoCopy}]
      /\ UNCHANGED <<actual, wb, tail>> /\ todo[u] \subseteq Objs
      /\ Cur(u) \in Slots /\ Cur(u) \notin Pending(u) /\ TodoOK(u)
  BY CurType, CurNotPending, ThreadTypes
     DEF LockInv, TypeInv, TypeOK, Crashed, ThreadInv, TryLockCas, UnlockObj
<1>2. \A w \in Threads : Pending(w)' = Pending(w)
  BY <1>1 DEF Pending, SlotsOf
<1>3. CASE copyOf'[o] = copyOf[o]
  BY <1>1, <1>2, <1>3, CommittedNext DEF SameObj, Committed
<1>4. CASE copyOf'[o] # copyOf[o] /\ TryLockCas(u)
  <2>1. copyOf[o] = NoCopy /\ copyOf'[o] = CopyPtr(u, Cur(u))
    BY <1>1, <1>4 DEF TryLockCas, CasSucceeds
  <2>2. \A w \in Threads, s \in Slots : ~Committed(o, w, s)
    BY <2>1, Pointers DEF Committed
  <2>3. \A w \in Threads, s \in Slots : ~Committed(o, w, s)'
    BY <1>1, <1>2, <2>1, Pointers, CommittedNext
  <2> QED
    BY <1>1, <2>2, <2>3 DEF SameObj
<1>5. CASE copyOf'[o] # copyOf[o] /\ UnlockObj(u)
  <2>1. o \in todo[u] /\ copyOf'[o] = NoCopy /\ At(u, "unlockobjs")
    BY <1>1, <1>5 DEF UnlockObj
  <2>2. o \in Held(u, Cur(u))
    BY <1>1, <2>1 DEF TodoOK, Held, Locks
  <2>3. copyOf[o] = CopyPtr(u, Cur(u))
    BY <1>1, <2>2, HeaderAndLog
  <2>4. \A w \in Threads, s \in Slots : ~Committed(o, w, s)
    BY <1>1, <2>3, Pointers DEF Committed
  <2>5. \A w \in Threads, s \in Slots : ~Committed(o, w, s)'
    BY <2>1, Pointers, CommittedNext
  <2> QED
    BY <1>1, <2>4, <2>5 DEF SameObj
<1> QED
  BY <1>3, <1>4, <1>5

LEMMA RetractObj ==
  ASSUME LockInv, ~Crashed, NEW u \in Threads, Retract(u),
         NEW o \in Objs
  PROVE SameObj(o)
<1> USE DEF mem, clocks, section, locals, ring, logs, quiesce
<1>1. /\ wb \in [Threads -> Nat] /\ tail[u] \in Nat
      /\ UNCHANGED <<actual, copyOf, tail>>
      /\ wb' = [wb EXCEPT ![u] = tail[u]] /\ At(u, "writeback") /\ todo[u] = {}
  BY ThreadTypes, Functions DEF LockInv, TypeInv, Retract, WrittenBack
<1>2. Pending(u)' = {}
  BY <1>1 DEF Pending, SlotsOf
<1>3. \A w \in Threads \ {u} : Pending(w)' = Pending(w)
  BY <1>1 DEF Pending, SlotsOf
<1> QED
  BY <1>1, <1>2, <1>3, NoneLeft DEF SameObj, Committed, CopyPtr

LEMMA ObjStep ==
  ASSUME LockInv, ~Crashed, NEW u \in Threads, LibraryStep(u) \/ ClientStep(u),
         NEW o \in Objs
  PROVE CommitsObj(u, o) \/ WritesObj(u, o) \/ SameObj(o)
<1> USE DEF mem, clocks, section, locals, ring, logs, quiesce
<1>1. CASE UNCHANGED <<actual, copyOf, wb, tail>>
  BY <1>1 DEF SameObj, Committed, CopyPtr, Pending, SlotsOf
<1>2. CASE \/ ReaderUnlock(u) \/ WriteBack(u) \/ Retract(u)
           \/ TryLockCas(u) \/ UnlockObj(u)
  BY <1>2, CommitObj, WriteObj, RetractObj, LockObj
<1>3. CASE /\ LibraryStep(u)
           /\ ~(WriteBack(u) \/ Retract(u) \/ TryLockCas(u) \/ UnlockObj(u))
  <2>1. UNCHANGED <<actual, copyOf, wb, tail>>
    BY <1>3 DEF LibraryStep, Register, RegVersion, RegCommit, DerefCheck,
       SendSyncRequest, ResetAborted, Checkpoint, SyncEnter, Publish,
       BumpWriter, InitQuiescence, WaitQuiescence, ResetSets, BumpCommit,
       ProcessFree
  <2> QED
    BY <1>1, <2>1
<1>4. CASE ClientStep(u) /\ ~ReaderUnlock(u)
  <2>1. UNCHANGED <<actual, copyOf, wb, tail>>
    BY <1>4 DEF ClientStep, ReaderLock, ThreadFinish, Abort, Deref,
       TryLockHeld, TryLockFree, Assigns
  <2> QED
    BY <1>1, <2>1
<1> QED
  BY <1>2, <1>3, <1>4

-----------------------------------------------------------------------------
(* A section has its version, so that it may begin to read.                 *)
Reading(t) == At(t, "regcommit") \/ InSection(t)

(* t reads what w has committed: its own write sets, and those of a sync    *)
(* that is not of a later version (rlu.c:832-833).                          *)
Shows(t, w) == w = t \/ (InSync(w) /\ SyncVersion(w) <= localV[t])

(* A sync of a later version than a section writes nothing back before the  *)
(* section is over.                                                         *)
AwaitOK(t, w) ==
  Reading(t) /\ InSync(w) /\ localV[t] < SyncVersion(w) => Awaits(w, t)

(* The version of a sync is the next one until it has been counted.         *)
Counted(w) == pc[w] \in {"initq", "waitq", "reset", "writeback"}
VersionOK(w) ==
  /\ InSync(w) => SyncVersion(w) <= gWriter + 1
  /\ Counted(w) => SyncVersion(w) <= gWriter

(* Without a race it is nobody else's.                                      *)
NoRace ==
  /\ \A w \in Threads : TakingVersion(w) => SyncVersion(w) = gWriter + 1
  /\ \A u, w \in Threads : TakingVersion(u) /\ TakingVersion(w) => u = w

(* The commit version counts the syncs that are over, and the writer        *)
(* version the syncs since a section has started are all of a later one.    *)
Active == {w \in Threads : Counted(w) \/ At(w, "commit")}
Newer(t) == {w \in Threads : Counted(w) /\ localV[t] < SyncVersion(w)}
ActiveOK == gWriter = gCommit + Cardinality(Active)
NewerOK(t) == Reading(t) => gWriter = localV[t] + Cardinality(Newer(t))

(* The flags that rlu_reader_lock decides.                                  *)
FlagsOK(t) ==
  InSection(t) =>
    /\ ~steal[t] => \A w \in Threads \ {t} : ~Shows(t, w)
    /\ ~check[t] => ~steal[t] /\ tail[t] = wb[t]

AwaitInv ==
  /\ \A w \in Threads : VersionOK(w)
  /\ \A t, w \in Threads : t # w => AwaitOK(t, w)

-----------------------------------------------------------------------------
(* How a thread gets and keeps its version, ...                             *)
LEMMA ReadingStep ==
  ASSUME TypeOK, NEW u \in Threads, LibraryStep(u) \/ ClientStep(u),
         Reading(u)'
  PROVE \/ RegVersion(u)
        \/ /\ Reading(u) /\ run'[u] = run[u] /\ localV'[u] = localV[u]
           /\ pc[u] = "regcommit" => RegCommit(u)
<1> USE DEF mem, clocks, section, locals, ring, logs, quiesce, At
<1>1. pc \in [Threads -> Labels] /\ ret[u] \in Returns
  BY Functions
<1> USE DEF Reading, InSection
<1>2. CASE \/ Register(u) \/ UnlockObj(u) \/ ResetAborted(u) \/ Checkpoint(u)
           \/ SyncEnter(u) \/ Publish(u) \/ BumpWriter(u) \/ InitQuiescence(u)
           \/ WaitQuiescence(u) \/ ResetSets(u) \/ WriteBack(u) \/ Retract(u)
           \/ BumpCommit(u) \/ ProcessFree(u) \/ ReaderLock(u)
           \/ ThreadFinish(u)
  <2>1. pc'[u] \notin {"regcommit", "in", "deref", "cas", "request"}
    BY <1>1, <1>2 DEF Register, UnlockObj, ResetAborted, Checkpoint, SyncEnter,
       Publish, BumpWriter, InitQuiescence, WaitQuiescence, ResetSets,
       WriteBack, Retract, BumpCommit, ProcessFree, ReaderLock, ThreadFinish,
       Goto, CallSync, Returns
  <2> QED
    BY <2>1
<1>3. CASE ReaderUnlock(u) \/ Abort(u)
  <2>1. pc'[u] \notin {"regcommit", "in", "deref", "cas", "request"}
    BY <1>1, <1>3 DEF ReaderUnlock, Abort, Goto, CallSync
  <2> QED
    BY <2>1
<1>4. CASE RegCommit(u) \/ DerefCheck(u) \/ SendSyncRequest(u) \/ TryLockCas(u)
  BY <1>4 DEF RegCommit, DerefCheck, SendSyncRequest, TryLockCas
<1>5. ASSUME NEW o \in Objs,
             \/ Deref(u, o) \/ TryLockHeld(u, o) \/ TryLockFree(u, o)
             \/ \E v \in Vals : Assigns(u, o, v)
      PROVE Reading(u) /\ UNCHANGED <<run, localV>> /\ pc[u] = "in"
  BY <1>5 DEF Deref, TryLockHeld, TryLockFree, Assigns
<1> QED
  BY <1>2, <1>3, <1>4, <1>5 DEF LibraryStep, ClientStep

(* ... and how a sync gets and keeps its own.                               *)
LEMMA SyncingStep ==
  ASSUME TypeOK, NEW u \in Threads, LibraryStep(u) \/ ClientStep(u),
         InSync(u)'
  PROVE \/ SyncEnter(u) \/ Publish(u) \/ BumpWriter(u) \/ InitQuiescence(u)
        \/ WaitQuiescence(u) \/ ResetSets(u) \/ WriteBack(u)
<1> USE DEF mem, clocks, section, locals, ring, logs, quiesce, At
<1>1. /\ pc \in [Threads -> Labels] /\ ret[u] \in Returns
      /\ pc'[u] \in {"publish", "clock", "initq", "waitq", "reset", "writeback"}
  BY Functions DEF InSync, Published
<1>2. ~(ReaderUnlock(u) \/ Abort(u))
  BY <1>1 DEF ReaderUnlock, Abort, Goto, CallSync
<1>3. ~(\/ Register(u) \/ UnlockObj(u) \/ ResetAborted(u) \/ Checkpoint(u)
        \/ RegVersion(u) \/ RegCommit(u) \/ Retract(u) \/ BumpCommit(u)
        \/ ProcessFree(u) \/ ReaderLock(u) \/ ThreadFinish(u))
  BY <1>1 DEF Register, UnlockObj, ResetAborted, Checkpoint, RegVersion,
     RegCommit, Retract, BumpCommit, ProcessFree, ReaderLock, ThreadFinish,
     Goto, CallSync, Returns
<1>4. ~(DerefCheck(u) \/ SendSyncRequest(u) \/ TryLockCas(u))
  BY <1>1 DEF DerefCheck, SendSyncRequest, TryLockCas, Goto
<1>5. ASSUME NEW o \in Objs
      PROVE ~(\/ Deref(u, o) \/ TryLockHeld(u, o) \/ TryLockFree(u, o)
              \/ \E v \in Vals : Assigns(u, o, v))
  BY <1>1 DEF Deref, TryLockHeld, TryLockFree, Assigns, Goto
<1> QED
  BY <1>2, <1>3, <1>4, <1>5 DEF LibraryStep, ClientStep

(* What the sync of u and its version become.                               *)
LEMMA VersionStep ==
  ASSUME TypeOK, NEW u \in Threads, LibraryStep(u) \/ ClientStep(u), InSync(u)'
  PROVE \/ SyncEnter(u) /\ SyncVersion(u)' = gWriter + 1 /\ At(u, "publish")'
        \/ /\ InSync(u) /\ SyncVersion(u)' = SyncVersion(u)
           /\ \/ Publish(u) /\ At(u, "publish") /\ At(u, "clock")'
              \/ BumpWriter(u) /\ At(u, "clock") /\ At(u, "initq")'
              \/ Counted(u) /\ Counted(u)'
<1> USE DEF mem, clocks, section, locals, ring, logs, quiesce, At
<1>1. /\ pc \in [Threads -> Labels] /\ ret[u] \in Returns
      /\ ver \in [Threads -> Nat] /\ wver \in [Threads -> Nat]
  BY Functions
<1> USE DEF InSync, Published, SyncVersion, Counted
<1>2. CASE SyncEnter(u)
  <2>1. pc'[u] \in {ret[u], "publish"}
    BY <1>1, <1>2 DEF SyncEnter, Goto
  <2>2. pc'[u] = "publish" /\ pc'[u] # ret[u]
    BY <1>1, <2>1 DEF Returns
  <2>3. ver'[u] = gWriter + 1
    BY <1>1, <1>2, <2>2 DEF SyncEnter, Goto
  <2> QED
    BY <1>2, <2>2, <2>3
<1>3. CASE Publish(u)
  BY <1>1, <1>3 DEF Publish, Goto
<1>4. CASE BumpWriter(u)
  BY <1>1, <1>4 DEF BumpWriter, Goto
<1>5. CASE \/ InitQuiescence(u) \/ WaitQuiescence(u)
           \/ ResetSets(u) \/ WriteBack(u)
  <2>1. UNCHANGED wver /\ Counted(u)
    BY <1>5 DEF InitQuiescence, WaitQuiescence, ResetSets, WriteBack
  <2>2. pc'[u] \in {"initq", "waitq", "reset", "writeback"}
    BY <1>1, <1>5 DEF InitQuiescence, WaitQuiescence, ResetSets, WriteBack, Goto
  <2> QED
    BY <2>1, <2>2
<1> QED
  BY <1>2, <1>3, <1>4, <1>5, SyncingStep

(* Two threads that do not move.                                            *)
LEMMA SameSync ==
  ASSUME NEW x \in Threads, Same(x)
  PROVE /\ Reading(x)' = Reading(x) /\ InSection(x)' = InSection(x)
        /\ InSync(x)' = InSync(x) /\ SyncVersion(x)' = SyncVersion(x)
        /\ Counted(x)' = Counted(x) /\ TakingVersion(x)' = TakingVersion(x)
        /\ Pending(x)' = Pending(x) /\ OldSets(x)' = OldSets(x)
        /\ Cur(x)' = Cur(x)
  BY DEF Same, Reading, InSection, InSync, Published, SyncVersion, Counted,
         TakingVersion, At, Pending, OldSets, SlotsOf, Cur

LEMMA Later ==
  ASSUME NEW m \in Nat, NEW n \in Nat, m <= n PROVE m + 1 <= n + 1
  OBVIOUS

LEMMA VersionsStep ==
  ASSUME ViewInv, ViewInv', \A w \in Threads : VersionOK(w), NEW u \in Threads,
         LibraryStep(u) \/ ClientStep(u)
  PROVE \A w \in Threads : VersionOK(w)'
<1>1. /\ TypeOK /\ Moves(u) /\ gWriter \in Nat /\ gWriter' \in Nat
      /\ gWriter <= gWriter'
  BY StepMoves DEF ViewInv, LockInv, TypeInv, Moves
<1>2. ASSUME NEW w \in Threads PROVE SyncVersion(w) \in Nat
  BY <1>1, Functions DEF SyncVersion
<1>3. ASSUME NEW w \in Threads \ {u} PROVE VersionOK(w)'
  <2>1. Same(w)
    BY <1>1 DEF Moves, Others
  <2> QED
    BY <1>1, <1>2, <2>1, SameSync DEF VersionOK
<1>4. VersionOK(u)'
  <2>1. Counted(u)' => InSync(u)'
    BY DEF Counted, InSync, Published
  <2>2. CASE ~InSync(u)'
    BY <2>1, <2>2 DEF VersionOK
  <2>3. CASE SyncVersion(u)' = gWriter + 1 /\ At(u, "publish")'
    <3>1. SyncVersion(u)' <= gWriter' + 1
      BY <1>1, <2>3, Later
    <3>2. ~Counted(u)'
      BY <2>3 DEF Counted, At
    <3> QED
      BY <3>1, <3>2 DEF VersionOK
  <2>4. CASE BumpWriter(u) /\ InSync(u) /\ SyncVersion(u)' = SyncVersion(u)
    <3>1. gWriter' = gWriter + 1
      BY <2>4 DEF BumpWriter
    <3> QED
      BY <1>1, <1>2, <2>4, <3>1 DEF VersionOK
  <2>5. CASE /\ InSync(u) /\ SyncVersion(u)' = SyncVersion(u)
             /\ \/ At(u, "clock")'
                \/ Counted(u)
    BY <1>1, <1>2, <2>5 DEF VersionOK, Counted, At
  <2> QED
    BY <1>1, <2>2, <2>3, <2>4, <2>5, VersionStep
<1> QED
  BY <1>3, <1>4

(* A sync of a later version than a section does not write back under it.   *)
LEMMA WriterAwaits ==
  ASSUME ViewInv, BoundInv, ~Crashed, AwaitInv, NEW u \in Threads, Moves(u),
         LibraryStep(u) \/ ClientStep(u), NEW t \in Threads \ {u}
  PROVE AwaitOK(t, u)'
<1> USE DEF mem, clocks, section, locals, ring, logs, quiesce
<1> SUFFICES ASSUME Reading(t)', InSync(u)', (localV[t] < SyncVersion(u))'
             PROVE Awaits(u, t)'
  BY DEF AwaitOK
<1>1. /\ TypeOK /\ LockInv /\ Same(t) /\ Reading(t) /\ localV'[t] = localV[t]
      /\ Running(t) /\ t \in Nat /\ ~(t < 0)
      /\ localV'[t] < SyncVersion(u)'
  BY SameSync, ConstantsAssumption
     DEF ViewInv, LockInv, TypeInv, Moves, Others, Same, Reading, Running, At,
         Threads
<1>2. CASE pc'[u] \in {"publish", "clock"}
  BY <1>1, <1>2 DEF Awaits, At
<1>3. ASSUME InSync(u), SyncVersion(u)' = SyncVersion(u) PROVE Awaits(u, t)
  BY <1>1, <1>3 DEF AwaitInv, AwaitOK
<1>4. CASE BumpWriter(u)
  <2>1. qi'[u] = 0 /\ pc'[u] = "initq"
    BY <1>1, <1>4, Functions DEF BumpWriter, Goto
  <2> QED
    BY <1>1, <2>1 DEF Awaits, At
<1>5. CASE InitQuiescence(u) \/ WaitQuiescence(u)
  <2>1. ~SyncEnter(u) /\ ~Publish(u) /\ ~BumpWriter(u)
    BY <1>5 DEF InitQuiescence, WaitQuiescence, SyncEnter, Publish,
                BumpWriter, At
  <2>2. Awaits(u, t)
    BY <1>1, <1>3, <2>1, VersionStep
  <2> QED
    BY <1>1, <1>5, <2>2, InitQuiescenceAwaits, WaitQuiescenceAwaits
<1>6. CASE ResetSets(u) \/ WriteBack(u)
  <2>1. pc[u] \in {"reset", "writeback"}
    BY <1>6 DEF ResetSets, WriteBack, At
  <2>2. ~SyncEnter(u) /\ ~Publish(u) /\ ~BumpWriter(u)
    BY <2>1 DEF SyncEnter, Publish, BumpWriter, At
  <2>3. Awaits(u, t)
    BY <1>1, <1>3, <2>2, VersionStep
  <2> QED
    BY <2>1, <2>3 DEF Awaits, At
<1>7. Counted(u) => ~SyncEnter(u) /\ ~Publish(u)
  BY DEF Counted, SyncEnter, Publish, At
<1> QED
  BY <1>1, <1>2, <1>4, <1>5, <1>6, <1>7, SyncingStep, VersionStep DEF At

(* A section is awaited as soon as it has its version.                      *)
LEMMA ReaderAwaits ==
  ASSUME ViewInv, AwaitInv, NEW u \in Threads, Moves(u),
         LibraryStep(u) \/ ClientStep(u), NEW w \in Threads \ {u}
  PROVE AwaitOK(u, w)'
<1> SUFFICES ASSUME Reading(u)', InSync(w)', (localV[u] < SyncVersion(w))'
             PROVE Awaits(w, u)'
  BY DEF AwaitOK
<1>1. /\ TypeOK /\ Same(w) /\ InSync(w) /\ SyncVersion(w)' = SyncVersion(w)
      /\ localV'[u] < SyncVersion(w)'
  BY SameSync DEF ViewInv, LockInv, TypeInv, Moves, Others
<1>2. CASE RegVersion(u)
  <2>1. localV'[u] = gWriter /\ gWriter \in Nat /\ SyncVersion(w) \in Nat
    BY <1>1, <1>2, Functions DEF RegVersion, SyncVersion
  <2>2. ~Counted(w)
    BY <1>1, <2>1 DEF AwaitInv, VersionOK
  <2> QED
    BY <1>1, <2>2 DEF Counted, Same, Awaits, InSync, Published, At
<1>3. CASE Reading(u) /\ run'[u] = run[u] /\ localV'[u] = localV[u]
  <2>1. Awaits(w, u)
    BY <1>1, <1>3 DEF AwaitInv, AwaitOK
  <2> QED
    BY <1>1, <1>3, <2>1 DEF Awaits, Same, At
<1> QED
  BY <1>1, <1>2, <1>3, ReadingStep

LEMMA NextAwaits ==
  ASSUME ViewInv, ViewInv', BoundInv, ~Crashed, AwaitInv, NEW u \in Threads,
         LibraryStep(u) \/ ClientStep(u)
  PROVE AwaitInv'
<1>1. Moves(u)
  BY StepMoves DEF ViewInv
<1>2. ASSUME NEW t \in Threads \ {u}, NEW w \in Threads \ {u}, t # w
      PROVE AwaitOK(t, w)'
  <2>1. Same(t) /\ Same(w) /\ AwaitOK(t, w)
    BY <1>1, <1>2 DEF Moves, Others, AwaitInv
  <2> QED
    BY <2>1, SameSync DEF AwaitOK, Awaits, Same, At
<1> QED
  BY <1>1, <1>2, VersionsStep, WriterAwaits, ReaderAwaits DEF AwaitInv

-----------------------------------------------------------------------------
(* As long as no two threads take the same version, the one that a thread   *)
(* has taken is the next.                                                   *)
LEMMA NoRaceStep ==
  ASSUME ViewInv, NoRace, ~Races, NEW u \in Threads,
         LibraryStep(u) \/ ClientStep(u)
  PROVE NoRace'
<1>1. TypeOK /\ Others(u)
  BY OwnDataOnly DEF ViewInv, LockInv, TypeInv
<1>2. \A x, y \in Threads : TakingVersion(x)' /\ TakingVersion(y)' => x = y
  BY DEF Races
<1>3. ASSUME NEW w \in Threads \ {u}, TakingVersion(w)'
      PROVE SyncVersion(w)' = gWriter' + 1
  <2>1. Same(w)
    BY <1>1 DEF Others
  <2>2. TakingVersion(w) /\ SyncVersion(w)' = SyncVersion(w)
    BY <1>3, <2>1, SameSync
  <2>3. ~BumpWriter(u)
    BY <2>2 DEF NoRace, BumpWriter, TakingVersion, At
  <2> QED
    BY <2>2, <2>3, WriterVersion DEF NoRace
<1>4. ASSUME TakingVersion(u)' PROVE SyncVersion(u)' = gWriter' + 1
  <2>1. InSync(u)' /\ pc'[u] \in {"publish", "clock"}
    BY <1>4 DEF TakingVersion, InSync, Published, At
  <2>2. CASE SyncEnter(u) /\ SyncVersion(u)' = gWriter + 1
    BY <2>2, WriterVersion DEF SyncEnter, BumpWriter, At
  <2>3. CASE Publish(u) /\ At(u, "publish") /\ SyncVersion(u)' = SyncVersion(u)
    <3>1. TakingVersion(u) /\ ~BumpWriter(u)
      BY <2>3 DEF TakingVersion, BumpWriter, At
    <3> QED
      BY <2>3, <3>1, WriterVersion DEF NoRace
  <2> QED
    BY <1>1, <2>1, <2>2, <2>3, VersionStep DEF At, Counted
<1> QED
  BY <1>2, <1>3, <1>4 DEF NoRace

(* What a step does to the count of the syncs that are not over.            *)
LEMMA CountedStep ==
  ASSUME TypeOK, NEW u \in Threads, LibraryStep(u) \/ ClientStep(u),
         ~At(u, "crashed")'
  PROVE \/ /\ BumpWriter(u) /\ At(u, "clock") /\ At(u, "initq")'
           /\ gWriter' = gWriter + 1 /\ gCommit' = gCommit
        \/ /\ Retract(u) /\ At(u, "writeback") /\ At(u, "commit")'
           /\ gWriter' = gWriter /\ gCommit' = gCommit
        \/ /\ BumpCommit(u) /\ At(u, "commit") /\ At(u, "free")'
           /\ gWriter' = gWriter /\ gCommit' = gCommit + 1
        \/ /\ Counted(u)' = Counted(u) /\ At(u, "commit")' = At(u, "commit")
           /\ gWriter' = gWriter /\ gCommit' = gCommit
           /\ ~BumpWriter(u) /\ ~Retract(u) /\ ~BumpCommit(u)
<1> USE DEF mem, clocks, section, locals, ring, logs, quiesce, At, Counted
<1>1. pc \in [Threads -> Labels] /\ ret[u] \in Returns
  BY Functions
<1>2. CASE BumpWriter(u) \/ Retract(u) \/ BumpCommit(u)
  BY <1>1, <1>2 DEF BumpWriter, Retract, BumpCommit, Goto
<1>3. CASE \/ InitQuiescence(u) \/ WaitQuiescence(u)
           \/ ResetSets(u) \/ WriteBack(u)
  BY <1>1, <1>3 DEF InitQuiescence, WaitQuiescence, ResetSets, WriteBack, Goto,
     BumpWriter, Retract, BumpCommit
<1>4. CASE \/ Register(u) \/ RegVersion(u) \/ RegCommit(u) \/ UnlockObj(u)
           \/ ResetAborted(u) \/ Checkpoint(u) \/ SyncEnter(u) \/ Publish(u)
           \/ ProcessFree(u) \/ ReaderLock(u) \/ ThreadFinish(u)
  <2>1. UNCHANGED clocks
    BY <1>4 DEF Register, RegVersion, RegCommit, UnlockObj, ResetAborted,
       Checkpoint, SyncEnter, Publish, ProcessFree, ReaderLock, ThreadFinish
  <2>2. pc[u] \notin {"clock", "initq", "waitq", "reset", "writeback", "commit"}
    BY <1>4 DEF Register, RegVersion, RegCommit, UnlockObj, ResetAborted,
       Checkpoint, SyncEnter, Publish, ProcessFree, ReaderLock, ThreadFinish
  <2>3. pc'[u] \notin {"initq", "waitq", "reset", "writeback", "commit"}
    BY <1>1, <1>4 DEF Register, RegVersion, RegCommit, UnlockObj, ResetAborted,
       Checkpoint, SyncEnter, Publish, ProcessFree, ReaderLock, ThreadFinish,
       Goto, CallSync, Returns
  <2> QED
    BY <2>1, <2>2, <2>3 DEF BumpWriter, Retract, BumpCommit
<1>5. CASE \/ ReaderUnlock(u) \/ Abort(u) \/ DerefCheck(u)
           \/ SendSyncRequest(u) \/ TryLockCas(u)
           \/ \E o \in Objs : \/ Deref(u, o) \/ TryLockHeld(u, o)
                              \/ TryLockFree(u, o)
                              \/ \E v \in Vals : Assigns(u, o, v)
  <2>1. /\ UNCHANGED clocks
        /\ pc[u] \in {"in", "deref", "request", "cas"}
    BY <1>5 DEF ReaderUnlock, Abort, DerefCheck, SendSyncRequest, TryLockCas,
       Deref, TryLockHeld, TryLockFree, Assigns
  <2>2. \/ pc' = pc
        \/ \E l \in {"checkpoint", "sync", "crashed", "unlockobjs", "in",
                     "deref", "cas", "request"} : pc' = [pc EXCEPT ![u] = l]
    BY <1>5 DEF ReaderUnlock, Abort, DerefCheck, SendSyncRequest, TryLockCas,
       Deref, TryLockHeld, TryLockFree, Assigns, Goto, CallSync
  <2> QED
    BY <1>1, <2>1, <2>2 DEF BumpWriter, Retract, BumpCommit
<1> QED
  BY <1>2, <1>3, <1>4, <1>5 DEF LibraryStep, ClientStep

LEMMA ThreadsFinite == IsFiniteSet(Threads)
<1>1. IsFiniteSet(0 .. NThreads - 1)
  BY ConstantsAssumption, FS_Interval
<1> QED
  BY <1>1 DEF Threads

(* One more, one less.                                                      *)
LEMMA CountUp ==
  ASSUME NEW S \in SUBSET Threads, NEW u \in Threads
  PROVE /\ Cardinality(S) \in Nat
        /\ u \notin S => Cardinality(S \cup {u}) = Cardinality(S) + 1
        /\ u \in S => Cardinality(S) = Cardinality(S \ {u}) + 1
<1>1. /\ IsFiniteSet(S) /\ IsFiniteSet(S \ {u})
      /\ Cardinality(S) \in Nat /\ Cardinality(S \ {u}) \in Nat
  BY ThreadsFinite, FS_Subset, FS_CardinalityType
<1>2. u \notin S => Cardinality(S \cup {u}) = Cardinality(S) + 1
  BY <1>1, FS_AddElement
<1>3. u \in S => Cardinality(S \ {u}) = Cardinality(S) - 1
  BY <1>1, FS_RemoveElement
<1> QED
  BY <1>1, <1>2, <1>3

LEMMA ActiveStep ==
  ASSUME ViewInv, ActiveOK, NEW u \in Threads, LibraryStep(u) \/ ClientStep(u),
         ~At(u, "crashed")'
  PROVE ActiveOK'
<1>1. /\ TypeOK /\ Others(u) /\ gWriter \in Nat /\ gCommit \in Nat
      /\ gWriter = gCommit + Cardinality(Active)
      /\ Active \in SUBSET Threads /\ Cardinality(Active) \in Nat
  BY OwnDataOnly, CountUp DEF ViewInv, LockInv, TypeInv, TypeOK, ActiveOK, Active
<1>2. \A x \in Threads \ {u} : x \in Active' <=> x \in Active
  BY <1>1, SameSync DEF Active, Others, Same, At
<1>3. ASSUME Active' = Active,
             \/ gWriter' = gWriter /\ gCommit' = gCommit
      PROVE ActiveOK'
  BY <1>1, <1>3 DEF ActiveOK
<1>4. CASE At(u, "clock") /\ At(u, "initq")' /\ gWriter' = gWriter + 1
           /\ gCommit' = gCommit
  <2>1. u \notin Active /\ Active' = Active \cup {u}
    BY <1>2, <1>4 DEF Active, Counted, At
  <2>2. Cardinality(Active') = Cardinality(Active) + 1
    BY <1>1, <2>1, CountUp
  <2> QED
    BY <1>1, <1>4, <2>2 DEF ActiveOK
<1>5. CASE At(u, "commit") /\ At(u, "free")' /\ gWriter' = gWriter
           /\ gCommit' = gCommit + 1
  <2>1. u \in Active /\ Active' = Active \ {u}
    BY <1>2, <1>5 DEF Active, Counted, At
  <2>2. Cardinality(Active) = Cardinality(Active') + 1
    BY <1>1, <2>1, CountUp
  <2>3. Cardinality(Active') \in Nat
    BY <1>1, <2>1, CountUp
  <2> QED
    BY <1>1, <1>5, <2>2, <2>3 DEF ActiveOK
<1>6. CASE At(u, "writeback") /\ At(u, "commit")' /\ gWriter' = gWriter
           /\ gCommit' = gCommit
  <2>1. Active' = Active
    BY <1>2, <1>6 DEF Active, Counted, At
  <2> QED
    BY <1>3, <1>6, <2>1
<1>7. CASE Counted(u)' = Counted(u) /\ At(u, "commit")' = At(u, "commit")
           /\ gWriter' = gWriter /\ gCommit' = gCommit
  <2>1. Active' = Active
    BY <1>2, <1>7 DEF Active
  <2> QED
    BY <1>3, <1>7, <2>1
<1> QED
  BY <1>1, <1>4, <1>5, <1>6, <1>7, CountedStep

(* The section of t goes on, or begins to read.                             *)
Keeps(t) == Reading(t) /\ Reading(t)' /\ localV'[t] = localV[t]

LEMMA ReadingKeeps ==
  ASSUME ViewInv, NEW u \in Threads, LibraryStep(u) \/ ClientStep(u),
         NEW t \in Threads, Reading(t)'
  PROVE \/ Keeps(t)
        \/ t = u /\ RegVersion(u)
<1>1. TypeOK /\ Others(u)
  BY OwnDataOnly DEF ViewInv, LockInv, TypeInv
<1>2. CASE t = u
  BY <1>1, <1>2, ReadingStep DEF Keeps
<1>3. CASE t # u
  BY <1>1, <1>3, SameSync DEF Keeps, Others, Same
<1> QED
  BY <1>2, <1>3

(* A sync that t does not read is not writing back, and none begins that t  *)
(* reads.                                                                   *)
LEMMA Unshown ==
  ASSUME ViewInv, AwaitInv, NEW t \in Threads, NEW w \in Threads,
         Reading(t), At(w, "writeback")
  PROVE Shows(t, w) /\ w # t
<1>1. InSync(w) /\ w # t
  BY DEF InSync, Published, Reading, InSection, At
<1>2. localV[t] \in Nat /\ SyncVersion(w) \in Nat
  BY Functions DEF ViewInv, LockInv, TypeInv, SyncVersion
<1> QED
  BY <1>1, <1>2 DEF AwaitInv, AwaitOK, Awaits, Shows

LEMMA LeaveSync ==
  ASSUME TypeOK, NEW u \in Threads, LibraryStep(u) \/ ClientStep(u),
         InSync(u), ~InSync(u)', ~At(u, "crashed")'
  PROVE Retract(u)
<1> USE DEF mem, clocks, section, locals, ring, logs, quiesce, At
<1>1. /\ pc \in [Threads -> Labels]
      /\ pc[u] \in {"publish", "clock", "initq", "waitq", "reset", "writeback"}
      /\ pc'[u] \notin {"publish", "clock", "initq", "waitq", "reset",
                        "writeback", "crashed"}
  BY Functions DEF InSync, Published
<1>2. ~(\/ Publish(u) \/ BumpWriter(u) \/ InitQuiescence(u) \/ ResetSets(u)
        \/ WaitQuiescence(u) \/ WriteBack(u))
  BY <1>1 DEF Publish, BumpWriter, InitQuiescence, WaitQuiescence, ResetSets,
     WriteBack, Goto
<1> QED
  BY <1>1, <1>2 DEF LibraryStep, ClientStep, Register, RegVersion, RegCommit,
     DerefCheck, SendSyncRequest, TryLockCas, UnlockObj, ResetAborted,
     Checkpoint, SyncEnter, BumpCommit, ProcessFree, ReaderLock, ReaderUnlock,
     Abort, ThreadFinish, Deref, TryLockHeld, TryLockFree, Assigns

LEMMA ShowsStep ==
  ASSUME ViewInv, NEW u \in Threads, LibraryStep(u) \/ ClientStep(u),
         NEW t \in Threads, Keeps(t), NEW w \in Threads
  PROVE /\ Shows(t, w)' => Shows(t, w)
        /\ Shows(t, w) => \/ Shows(t, w)'
                          \/ w = u /\ (Retract(u) \/ At(u, "crashed")')
<1>1. /\ TypeOK /\ Others(u) /\ localV[t] \in Nat /\ gWriter \in Nat
      /\ localV'[t] = localV[t] /\ localV[t] <= gWriter
  BY OwnDataOnly, Functions
     DEF ViewInv, LockInv, TypeInv, Keeps, LocalOK
<1>2. CASE w = t
  BY <1>2 DEF Shows
<1>3. CASE w # t /\ w # u
  <2>1. InSync(w)' = InSync(w) /\ SyncVersion(w)' = SyncVersion(w)
    BY <1>1, <1>3, SameSync DEF Others
  <2> QED
    BY <1>1, <1>3, <2>1 DEF Shows
<1>4. CASE w # t /\ w = u /\ InSync(u)'
  <2>1. CASE SyncEnter(u) /\ SyncVersion(u)' = gWriter + 1
    <3>1. ~InSync(u)
      BY <2>1 DEF SyncEnter, At, InSync, Published
    <3>2. ~(SyncVersion(u)' <= localV'[t])
      BY <1>1, <2>1
    <3> QED
      BY <1>4, <3>1, <3>2 DEF Shows
  <2>2. CASE InSync(u) /\ SyncVersion(u)' = SyncVersion(u)
    BY <1>1, <1>4, <2>2 DEF Shows
  <2> QED
    BY <1>1, <1>4, <2>1, <2>2, VersionStep
<1>5. CASE w # t /\ w = u /\ ~InSync(u)'
  BY <1>1, <1>5, LeaveSync DEF Shows
<1> QED
  BY <1>2, <1>3, <1>4, <1>5

LEMMA NewerStep ==
  ASSUME ViewInv, AwaitInv, NoRace, \A t \in Threads : NewerOK(t),
         NEW u \in Threads, LibraryStep(u) \/ ClientStep(u), ~At(u, "crashed")',
         NEW t \in Threads
  PROVE NewerOK(t)'
<1>1. /\ TypeOK /\ Others(u) /\ localV[t] \in Nat /\ gWriter \in Nat
      /\ localV[t] <= gWriter /\ Newer(t) \in SUBSET Threads
      /\ Cardinality(Newer(t)) \in Nat
      /\ localV \in [Threads -> Nat]
  BY OwnDataOnly, Functions, CountUp DEF ViewInv, LockInv, TypeInv, LocalOK, Newer
<1> SUFFICES ASSUME Reading(t)'
             PROVE gWriter' = localV'[t] + Cardinality(Newer(t)')
  BY DEF NewerOK, Newer
<1>2. ASSUME NEW w \in Threads \ {u}
      PROVE Counted(w)' = Counted(w) /\ SyncVersion(w)' = SyncVersion(w)
  BY <1>1, SameSync DEF Others
<1>3. CASE t = u /\ RegVersion(u)
  <2>1. localV'[t] = gWriter /\ gWriter' = gWriter /\ ~Counted(u)'
    BY <1>1, <1>3, Functions DEF RegVersion, clocks, Goto, Counted, At
  <2>2. ASSUME NEW w \in Threads, Counted(w)' PROVE ~(gWriter < SyncVersion(w)')
    <3>1. w # u
      BY <2>1, <2>2
    <3>2. Counted(w) /\ SyncVersion(w)' = SyncVersion(w) /\ SyncVersion(w) \in Nat
      BY <1>1, <1>2, <2>2, <3>1, Functions DEF SyncVersion
    <3> QED
      BY <1>1, <3>2 DEF AwaitInv, VersionOK
  <2>3. Newer(t)' = {}
    BY <2>1, <2>2 DEF Newer
  <2> QED
    BY <1>1, <2>1, <2>3, FS_EmptySet
<1>4. CASE Keeps(t)
  <2>1. /\ localV'[t] = localV[t] /\ Reading(t)
        /\ gWriter = localV[t] + Cardinality(Newer(t))
    BY <1>4 DEF Keeps, NewerOK
  <2>2. \A w \in Threads \ {u} : w \in Newer(t)' <=> w \in Newer(t)
    BY <1>2, <2>1 DEF Newer
  <2>3. CASE At(u, "clock") /\ At(u, "initq")' /\ gWriter' = gWriter + 1
             /\ BumpWriter(u)
    <3>1. SyncVersion(u) = gWriter + 1 /\ InSync(u)' /\ ~Counted(u) /\ Counted(u)'
      BY <2>3 DEF NoRace, TakingVersion, InSync, Published, Counted, At
    <3>2. SyncVersion(u)' = SyncVersion(u)
      BY <1>1, <2>3, <3>1, VersionStep DEF At, SyncEnter
    <3>3. u \notin Newer(t) /\ Newer(t)' = Newer(t) \cup {u}
      BY <1>1, <2>1, <2>2, <3>1, <3>2 DEF Newer
    <3>4. Cardinality(Newer(t)') = Cardinality(Newer(t)) + 1
      BY <1>1, <3>3, CountUp
    <3> QED
      BY <1>1, <2>1, <2>3, <3>4
  <2>4. CASE At(u, "writeback") /\ At(u, "commit")' /\ gWriter' = gWriter
    <3>1. Shows(t, u) /\ u # t
      BY <2>1, <2>4, Unshown
    <3>2. u \notin Newer(t)
      BY <1>1, <3>1, Functions DEF Shows, Newer, SyncVersion
    <3>3. u \notin Newer(t)'
      BY <2>4 DEF Newer, Counted, At
    <3>4. Newer(t)' = Newer(t)
      BY <2>2, <3>2, <3>3 DEF Newer
    <3> QED
      BY <2>1, <2>4, <3>4
  <2>5. CASE At(u, "commit") /\ At(u, "free")' /\ gWriter' = gWriter
    <3>1. Newer(t)' = Newer(t)
      BY <2>2, <2>5 DEF Newer, Counted, At
    <3> QED
      BY <2>1, <2>5, <3>1
  <2>6. CASE Counted(u)' = Counted(u) /\ gWriter' = gWriter /\ ~BumpWriter(u)
    <3>1. Counted(u)' => InSync(u)' /\ ~SyncEnter(u) /\ ~Publish(u)
      BY <2>6 DEF Counted, InSync, Published, SyncEnter, Publish, At
    <3>2. Counted(u)' => SyncVersion(u)' = SyncVersion(u)
      BY <1>1, <3>1, VersionStep
    <3>3. Newer(t)' = Newer(t)
      BY <2>1, <2>2, <2>6, <3>2 DEF Newer
    <3> QED
      BY <2>1, <2>6, <3>3
  <2> QED
    BY <1>1, <2>3, <2>4, <2>5, <2>6, CountedStep
<1> QED
  BY <1>3, <1>4, ReadingKeeps

(* The committed copy of an object is one.                                  *)
LEMMA OneCopy ==
  ASSUME NEW o \in Objs, NEW v \in Threads, NEW r \in Slots, Committed(o, v, r),
         NEW w \in Threads, NEW s \in Slots, Committed(o, w, s)
  PROVE w = v /\ s = r
<1>1. CopyPtr(v, r) = CopyPtr(w, s)
  BY DEF Committed
<1> QED
  BY <1>1, Pointers

(* No step changes the copy of another thread that a section has stolen.    *)
LEMMA StolenKept ==
  ASSUME ViewInv, ~Crashed, NEW u \in Threads, LibraryStep(u) \/ ClientStep(u),
         NEW t \in Threads, NEW w \in Threads \ {t}, NEW s \in Slots,
         NEW o \in Objs, view[t][o] = CopyPtr(w, s)
  PROVE log'[w][s] = log[w][s]
<1>1. /\ LockInv /\ TypeOK /\ Others(u) /\ ~At(w, "crashed") /\ RingOK(w)
  BY OwnDataOnly DEF ViewInv, LockInv, TypeInv, ThreadInv, Crashed
<1>2. s \in Pending(w) \/ (s \in OldSets(w) /\ Awaits(w, t))
  BY <1>1 DEF ViewInv, StolenOK
<1>3. CASE s \in Pending(w)
  BY <1>1, <1>3, PendingKept
<1>4. CASE s \in OldSets(w) /\ Awaits(w, t)
  <2>1. ~At(w, "reset")
    BY <1>4 DEF Awaits
  <2>2. Owns(w) => s # Cur(w)
    <3>1. /\ head[w] \in Nat /\ wb[w] \in Nat /\ tail[w] \in Nat
          /\ wb[w] <= tail[w]
      BY <1>1, ThreadTypes DEF RingOK
    <3>2. s \in SlotsOf(w, head[w], tail[w])
      BY <1>4, <3>1 DEF OldSets, SlotsOf
    <3>3. Owns(w) => ~Syncing(w)
      BY DEF Owns, InSection, Syncing, At
    <3> QED
      BY <1>1, <3>2, <3>3, CurFresh
  <2> QED
    BY <1>1, <2>1, <2>2, LogStep DEF Others, Same
<1> QED
  BY <1>2, <1>3, <1>4

(* rlu_deref_slow_path steals exactly what belongs to the snapshot: it      *)
(* looks at writer_version, which is set a step after the version is taken. *)
LEMMA StealsShown ==
  ASSUME ViewInv, ~Crashed, NoRace, VersionsBounded, NEW t \in Threads,
         NEW w \in Threads \ {t}, ptr[t].thread = w
  PROVE Steals(t) <=> Shows(t, w)
<1>1. /\ localV[t] \in Nat /\ gWriter \in Nat /\ MaxVersion \in Nat
      /\ localV[t] <= gWriter /\ gWriter < MaxVersion
      /\ ~At(w, "crashed") /\ LocalOK(w)
  BY Functions, ConstantsAssumption
     DEF ViewInv, LockInv, TypeInv, LocalOK, VersionsBounded, Crashed
<1>2. CASE Published(w)
  BY <1>2 DEF Steals, Shows, InSync, SyncVersion, Published, At
<1>3. CASE ~Published(w)
  <2>1. ~Steals(t)
    BY <1>1, <1>3 DEF LocalOK, Steals
  <2>2. At(w, "publish") => SyncVersion(w) = gWriter + 1
    BY DEF NoRace, TakingVersion, At
  <2>3. ~Shows(t, w)
    BY <1>1, <1>3, <2>2 DEF Shows, InSync
  <2> QED
    BY <2>1, <2>3
<1> QED
  BY <1>2, <1>3

(* How a section comes to look at an object.                                *)
LEMMA LookStep ==
  ASSUME TypeOK, NEW u \in Threads, LibraryStep(u) \/ ClientStep(u),
         NEW o \in Objs, InSection(u)', view'[u][o] # view[u][o]
  PROVE \/ Deref(u, o) \/ TryLockHeld(u, o)
        \/ (DerefCheck(u) \/ (TryLockCas(u) /\ CasSucceeds(u))) /\ o = arg[u]
<1> USE DEF mem, clocks, section, locals, ring, logs, quiesce
<1>1. view \in [Threads -> [Objs -> CopyPtrs \cup {Actual, Unseen}]]
  BY Functions
<1>2. CASE DerefCheck(u) \/ TryLockCas(u)
  BY <1>1, <1>2 DEF DerefCheck, TryLockCas, See
<1>3. ASSUME NEW q \in Objs, Deref(u, q) \/ TryLockHeld(u, q)
      PROVE o = q
  BY <1>1, <1>3 DEF Deref, TryLockHeld, See
<1>4. CASE ReaderUnlock(u) \/ Abort(u)
  <2>1. \E l \in {"sync", "checkpoint", "crashed", "unlockobjs"} :
          pc' = [pc EXCEPT ![u] = l]
    BY <1>4 DEF ReaderUnlock, Abort, Goto, CallSync
  <2> QED
    BY <2>1, Functions DEF InSection
<1>5. ~UNCHANGED view
  OBVIOUS
<1> QED
  BY <1>2, <1>3, <1>4, <1>5 DEF LibraryStep, ClientStep, Register, RegVersion,
     RegCommit, SendSyncRequest, UnlockObj, ResetAborted, Checkpoint, SyncEnter,
     Publish, BumpWriter, InitQuiescence, WaitQuiescence, ResetSets, WriteBack,
     Retract, BumpCommit, ProcessFree, ReaderLock, ThreadFinish, TryLockFree,
     Assigns

(* A section gives no lock back before it ends.                             *)
LEMMA LockKept ==
  ASSUME TypeOK, NEW u \in Threads, LibraryStep(u) \/ ClientStep(u),
         InSection(u), InSection(u)', NEW o \in Objs, HoldsLock(u, o)
  PROVE HoldsLock(u, o)'
<1> USE DEF mem, clocks, section, locals, ring, logs, quiesce
<1>1. /\ log \in [Threads -> [Slots -> [Objs -> Vals \cup {NoVal}]]]
      /\ actual \in [Objs -> Vals] /\ Cur(u) \in Slots /\ NoVal \notin Vals
  BY CurType, ConstantsAssumption DEF TypeOK
<1>2. tail'[u] = tail[u] /\ ~At(u, "unlockobjs") /\ ~At(u, "reset")
  <2>1. ~(ReaderUnlock(u))
    <3>1. ReaderUnlock(u) => \/ pc' = [pc EXCEPT ![u] = "sync"]
                             \/ pc' = [pc EXCEPT ![u] = "checkpoint"]
      BY DEF ReaderUnlock, Goto, CallSync
    <3> QED
      BY <3>1, Functions DEF InSection
  <2> QED
    BY <2>1 DEF LibraryStep, ClientStep, Register, RegVersion, RegCommit,
     DerefCheck, TryLockCas, SendSyncRequest, UnlockObj, ResetAborted,
     Checkpoint, SyncEnter, Publish, BumpWriter, InitQuiescence, WaitQuiescence,
     ResetSets, WriteBack, Retract, BumpCommit, ProcessFree, ReaderLock, Abort,
     ThreadFinish, Deref, TryLockHeld, TryLockFree, Assigns, InSection, At
<1>3. CASE TryLockCas(u)
  <2>1. arg[u] \in Objs \cup {NoObj}
    BY Functions
  <2>2. \/ UNCHANGED log
        \/ /\ arg[u] \in Objs
           /\ log' = [log EXCEPT ![u][Cur(u)][arg[u]] = actual[arg[u]]]
        \/ /\ arg[u] = NoObj
           /\ log' = [log EXCEPT ![u][Cur(u)][arg[u]] = actual[arg[u]]]
    BY <1>3, <2>1 DEF TryLockCas
  <2>3. NoObj \notin Objs
    BY ConstantsAssumption
  <2> QED
    BY <1>1, <1>2, <2>2, <2>3 DEF HoldsLock, Cur
<1>4. ASSUME NEW q \in Objs, NEW v \in Vals, Assigns(u, q, v)
      PROVE HoldsLock(u, o)'
  BY <1>1, <1>2, <1>4 DEF Assigns, Assign, HoldsLock, Cur
<1>5. CASE UNCHANGED log
  BY <1>2, <1>5 DEF HoldsLock, Cur
<1> QED
  BY <1>2, <1>3, <1>4, <1>5 DEF LibraryStep, ClientStep, Register, RegVersion,
     RegCommit, SendSyncRequest, UnlockObj, ResetAborted, Checkpoint, SyncEnter,
     Publish, BumpWriter, InitQuiescence, WaitQuiescence, ResetSets, WriteBack,
     Retract, BumpCommit, ProcessFree, ReaderLock, ThreadFinish, TryLockFree,
     DerefCheck, ReaderUnlock, Abort, Deref, TryLockHeld, At

-----------------------------------------------------------------------------
(* A section that has been running, and one that begins.                    *)
LEMMA SectionStep ==
  ASSUME ViewInv, NEW u \in Threads, LibraryStep(u) \/ ClientStep(u),
         NEW t \in Threads, InSection(t)'
  PROVE /\ Keeps(t)
        /\ \/ InSection(t)
           \/ t = u /\ RegCommit(u) /\ ~InSection(t)
<1>1. TypeOK /\ Others(u)
  BY OwnDataOnly DEF ViewInv, LockInv, TypeInv
<1>2. Reading(t)'
  BY DEF Reading
<1>3. ~(t = u /\ RegVersion(u))
  BY <1>1, Functions DEF RegVersion, Goto, InSection
<1>4. Keeps(t)
  BY <1>2, <1>3, ReadingKeeps
<1>5. CASE t # u
  BY <1>1, <1>4, <1>5, SameSync DEF Others
<1>6. CASE t = u
  BY <1>1, <1>2, <1>3, <1>4, <1>6, ReadingStep DEF Keeps, Reading, At
<1> QED
  BY <1>4, <1>5, <1>6

LEMMA EnterSlow ==
  ASSUME TypeOK, NEW u \in Threads, LibraryStep(u) \/ ClientStep(u),
         At(u, "deref")'
  PROVE \E o \in Objs : Deref(u, o)
<1> USE DEF mem, clocks, section, locals, ring, logs, quiesce, At
<1>1. pc \in [Threads -> Labels] /\ ret[u] \in Returns
  BY Functions
<1>2. ~(\/ Register(u) \/ RegVersion(u) \/ RegCommit(u) \/ DerefCheck(u)
        \/ SendSyncRequest(u) \/ TryLockCas(u) \/ UnlockObj(u)
        \/ ResetAborted(u) \/ Checkpoint(u))
  BY <1>1 DEF Register, RegVersion, RegCommit, DerefCheck, SendSyncRequest,
     TryLockCas, UnlockObj, ResetAborted, Checkpoint, Goto, CallSync
<1>3. ~(\/ SyncEnter(u) \/ Publish(u) \/ BumpWriter(u) \/ InitQuiescence(u)
        \/ WaitQuiescence(u) \/ ResetSets(u) \/ WriteBack(u) \/ Retract(u)
        \/ BumpCommit(u) \/ ProcessFree(u))
  BY <1>1 DEF SyncEnter, Publish, BumpWriter, InitQuiescence, WaitQuiescence,
     ResetSets, WriteBack, Retract, BumpCommit, ProcessFree, Goto, Returns
<1>4. ~(ReaderLock(u) \/ ReaderUnlock(u) \/ Abort(u) \/ ThreadFinish(u))
  BY <1>1 DEF ReaderLock, ReaderUnlock, Abort, ThreadFinish, Goto, CallSync
<1>5. ASSUME NEW o \in Objs
      PROVE ~(\/ TryLockHeld(u, o) \/ TryLockFree(u, o)
              \/ \E v \in Vals : Assigns(u, o, v))
  BY <1>1 DEF TryLockHeld, TryLockFree, Assigns, Goto
<1> QED
  BY <1>2, <1>3, <1>4, <1>5 DEF LibraryStep, ClientStep

-----------------------------------------------------------------------------
(* rlu_reader_lock: when the commit version is the version of the           *)
(* section, every sync that is not over is of a later version.              *)
LEMMA NothingShown ==
  ASSUME ViewInv, NoRace, ActiveOK, NEW t \in Threads, NewerOK(t),
         At(t, "regcommit"), ~SyncSeen(t), NEW w \in Threads \ {t}
  PROVE ~Shows(t, w)
<1>1. /\ localV[t] \in Nat /\ gWriter \in Nat /\ gCommit \in Nat
      /\ localV[t] = gCommit /\ localV[t] <= gWriter
      /\ SyncVersion(w) \in Nat
  BY Functions
     DEF ViewInv, LockInv, TypeInv, TypeOK, SyncSeen, LocalOK, SyncVersion
<1>2. CASE TakingVersion(w)
  BY <1>1, <1>2 DEF NoRace, Shows
<1>3. CASE Counted(w)
  <2>1. /\ Active \in SUBSET Threads /\ Newer(t) \in SUBSET Active
        /\ Cardinality(Active) \in Nat /\ Cardinality(Newer(t)) \in Nat
    BY CountUp DEF Active, Newer
  <2>2. Cardinality(Active) = Cardinality(Newer(t))
    BY <1>1, <2>1 DEF ActiveOK, NewerOK, Reading
  <2>3. Active = Newer(t)
    BY <2>1, <2>2, ThreadsFinite, FS_Subset
  <2>4. w \in Newer(t)
    BY <1>3, <2>3 DEF Active
  <2> QED
    BY <1>1, <2>4 DEF Newer, Shows
<1>4. InSync(w) => TakingVersion(w) \/ Counted(w)
  BY DEF InSync, Published, TakingVersion, Counted, At
<1> QED
  BY <1>2, <1>3, <1>4 DEF Shows

LEMMA FlagsChange ==
  ASSUME TypeOK, NEW u \in Threads, LibraryStep(u) \/ ClientStep(u),
         NEW t \in Threads, InSection(t), InSection(t)'
  PROVE steal'[t] = steal[t] /\ (check[t] => check'[t])
<1> USE DEF mem, clocks, section, locals, ring, logs, quiesce
<1>1. steal \in [Threads -> BOOLEAN] /\ check \in [Threads -> BOOLEAN]
  BY DEF TypeOK
<1>2. CASE Register(u) \/ RegCommit(u)
  <2>1. t # u
    BY <1>2 DEF Register, RegCommit, InSection, At
  <2> QED
    BY <1>1, <1>2, <2>1 DEF Register, RegCommit
<1>3. CASE ReaderUnlock(u) \/ Abort(u)
  <2>1. \E l \in {"sync", "checkpoint", "crashed", "unlockobjs"} :
          pc' = [pc EXCEPT ![u] = l]
    BY <1>3 DEF ReaderUnlock, Abort, Goto, CallSync
  <2>2. t # u
    BY <2>1, Functions DEF InSection
  <2> QED
    BY <1>1, <1>3, <2>2 DEF ReaderUnlock, Abort, LeaveSection
<1>4. ASSUME NEW o \in Objs, TryLockFree(u, o)
      PROVE steal'[t] = steal[t] /\ (check[t] => check'[t])
  BY <1>1, <1>4 DEF TryLockFree
<1>5. CASE UNCHANGED <<steal, check>>
  BY <1>5
<1> QED
  BY <1>2, <1>3, <1>4, <1>5 DEF LibraryStep, ClientStep, RegVersion, DerefCheck,
     SendSyncRequest, TryLockCas, UnlockObj, ResetAborted, Checkpoint,
     SyncEnter, Publish, BumpWriter, InitQuiescence, WaitQuiescence, ResetSets,
     WriteBack, Retract, BumpCommit, ProcessFree, ReaderLock, ThreadFinish,
     Deref, TryLockHeld, Assigns

LEMMA RingKept ==
  ASSUME TypeOK, NEW u \in Threads, LibraryStep(u) \/ ClientStep(u),
         NEW t \in Threads, InSection(t)'
  PROVE tail'[t] = tail[t] /\ wb'[t] = wb[t]
<1> USE DEF mem, clocks, section, locals, ring, logs, quiesce
<1>1. /\ tail \in [Threads -> Nat] /\ wb \in [Threads -> Nat]
      /\ pc \in [Threads -> Labels]
  BY Functions
<1>2. CASE ReaderUnlock(u)
  <2>1. \E l \in {"sync", "checkpoint"} : pc' = [pc EXCEPT ![u] = l]
    BY <1>2 DEF ReaderUnlock, Goto, CallSync
  <2>2. t # u
    BY <1>1, <2>1 DEF InSection
  <2> QED
    BY <1>1, <1>2, <2>2 DEF ReaderUnlock
<1>3. CASE Retract(u)
  <2>1. t # u
    BY <1>1, <1>3 DEF Retract, Goto, InSection
  <2> QED
    BY <1>1, <1>3, <2>1 DEF Retract
<1> QED
  BY <1>2, <1>3 DEF LibraryStep, ClientStep, Register, RegVersion, RegCommit,
     DerefCheck, SendSyncRequest, TryLockCas, UnlockObj, ResetAborted,
     Checkpoint, SyncEnter, Publish, BumpWriter, InitQuiescence, WaitQuiescence,
     ResetSets, WriteBack, BumpCommit, ProcessFree, ReaderLock, Abort,
     ThreadFinish, Deref, TryLockHeld, TryLockFree, Assigns

LEMMA FlagsStep ==
  ASSUME ViewInv, ActiveOK, NoRace, NEW u \in Threads,
         LibraryStep(u) \/ ClientStep(u), ~At(u, "crashed")',
         NEW t \in Threads, NewerOK(t), FlagsOK(t)
  PROVE FlagsOK(t)'
<1> SUFFICES ASSUME InSection(t)'
             PROVE /\ ~steal'[t] => \A w \in Threads \ {t} : ~Shows(t, w)'
                   /\ ~check'[t] => ~steal'[t] /\ tail'[t] = wb'[t]
  BY DEF FlagsOK
<1>1. TypeOK
  BY DEF ViewInv, LockInv, TypeInv
<1>2. Keeps(t) /\ tail'[t] = tail[t] /\ wb'[t] = wb[t]
  BY <1>1, SectionStep, RingKept
<1>3. \A w \in Threads : Shows(t, w)' => Shows(t, w)
  BY <1>1, <1>2, ShowsStep
<1>4. CASE InSection(t)
  <2>1. steal'[t] = steal[t] /\ (check[t] => check'[t])
    BY <1>1, <1>4, FlagsChange
  <2> QED
    BY <1>2, <1>3, <1>4, <2>1 DEF FlagsOK
<1>5. CASE t = u /\ RegCommit(u) /\ ~InSection(t)
  <2>1. /\ steal'[t] = SyncSeen(t) /\ check'[t] = (SyncSeen(t) \/ tail[t] # wb[t])
        /\ At(t, "regcommit")
    BY <1>1, <1>5 DEF RegCommit, TypeOK
  <2>2. ~SyncSeen(t) => \A w \in Threads \ {t} : ~Shows(t, w)
    BY <1>1, <2>1, NothingShown
  <2> QED
    BY <1>2, <1>3, <2>1, <2>2
<1> QED
  BY <1>1, <1>4, <1>5, SectionStep
=============================================================================
