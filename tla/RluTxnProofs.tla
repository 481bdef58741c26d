---------------------------- MODULE RluTxnProofs ----------------------------
(***************************************************************************)
(* TLAPS proves of the transactions of RluTxn, for any number of threads,  *)
(* objects, groups and write sets, that they use the library as Rlu        *)
(* describes it, that no assertion fails, that nothing committed is lost   *)
(* and nothing aborted shows, and, while no two writers have taken the     *)
(* same version, that a transaction reads one snapshot.                    *)
(*                                                                         *)
(* The snapshot of a section is a value per object (Snap): the number of   *)
(* its commits, less one if the last of them is a write set that has not   *)
(* been written back and that the section does not read (Hidden). That it  *)
(* stays what it is (SnapStep) and that all reads agree with it (SeenOK)   *)
(* rests on what RluVersionProofs says of versions, and on                 *)
(*  - SlowOK: between the look at the header and the look at the owner's   *)
(*    version both answers of rlu_deref_slow_path are of the snapshot, or  *)
(*    the second look tells which one is;                                  *)
(*  - GroupsOK: what is written together is committed, hidden and written  *)
(*    back together, so that one snapshot has one value per group.         *)
(***************************************************************************)
EXTENDS RluTxn, RluVersionProofs

(* A transaction calls the library as any client may.                      *)
LEMMA CallIsClientCall ==
  ASSUME NEW t \in Threads, Call(t)
  PROVE \/ ReaderLock(t) \/ ThreadFinish(t) \/ Abort(t)
        \/ \E o \in Objs : \/ Deref(t, o) \/ TryLockHeld(t, o)
                           \/ TryLockFree(t, o)
                           \/ \E v \in Vals : Write(t, o, v)
<1>1. /\ \A o \in UNION Reads[t] : o \in Objs
      /\ \A o \in UNION Writes[t] : o \in Objs
  BY TxnAssumption
<1> QED
  BY <1>1 DEF Call, GiveUp, Bump

LEMMA CallIsCall ==
  ASSUME NEW t \in Threads, Call(t) \/ Commit(t) PROVE ClientCall(t)
  BY CallIsClientCall DEF Commit, Unlock, ClientCall

LEMMA StepIsCall ==
  ASSUME NEW u \in Threads, TxnStep(u)
  PROVE LibraryStep(u) \/ ClientStep(u)
  BY CallIsCall, CallIsStep DEF TxnStep

LEMMA StepIsStep == [TxnNext]_txnVars => [Next]_vars
<1>1. ASSUME NEW t \in Threads, TxnStep(t) PROVE Next
  BY <1>1, CallIsCall DEF TxnStep, Next
<1> QED
  BY <1>1 DEF TxnNext, txnVars, Next

(* The transactions use the library as Rlu describes it, so that everything *)
(* proved of Rlu holds of them, for every choice of groups.                 *)
THEOREM TxnImplementsRlu == TxnSpec => Spec
  BY StepIsStep, PTL DEF TxnSpec, TxnInit, Spec

(* All invariants of the library.                                           *)
LEMMA LibraryInv == TxnSpec => [](ViewInv /\ BoundInv /\ VersionsBounded)
  BY TxnImplementsRlu, ViewInvariant, VersionsStayBelow, PTL

-----------------------------------------------------------------------------
(* The log of a section has at most one header without a copy, at its end, *)
(* and then the section has been told so: it can only give up.             *)
WholeInv ==
  \A t \in Threads :
    /\ failed[t] => At(t, "in")
    /\ \A s \in Slots : shape[t][s] # "whole" =>
         /\ s = Cur(t) /\ shape[t][s] = "end"
         /\ (At(t, "in") /\ failed[t]) \/ At(t, "unlockobjs")

(* What a step of t leaves alone of the others here.                        *)
LEMMA WholeOthers ==
  ASSUME TypeOK, NEW t \in Threads, LibraryStep(t) \/ ClientStep(t)
  PROVE \A u \in Threads \ {t} :
          /\ pc'[u] = pc[u] /\ failed'[u] = failed[u] /\ shape'[u] = shape[u]
          /\ tail'[u] = tail[u]
<1>1. Others(t)
  BY OwnDataOnly
<1>2. /\ failed \in [Threads -> BOOLEAN]
      /\ shape \in [Threads -> [Slots -> {"whole", "end", "inside"}]]
  BY DEF TypeOK
<1> USE DEF section, logs
<1>3. \/ shape' = shape
      \/ \E f : shape' = [shape EXCEPT ![t] = f]
      \/ \E s, x : shape' = [shape EXCEPT ![t][s] = x]
  <2>1. CASE ResetSets(t)
    BY <2>1 DEF ResetSets
  <2>2. CASE TryLockCas(t)
    BY <2>2 DEF TryLockCas
  <2>3. CASE ResetAborted(t)
    BY <2>3 DEF ResetAborted
  <2> QED
    BY <2>1, <2>2, <2>3 DEF LibraryStep, ClientStep, ReaderLock, Register,
     RegVersion, RegCommit, Deref, DerefCheck, TryLockHeld, SendSyncRequest,
     TryLockFree, Assigns, ReaderUnlock, Abort, UnlockObj, LeaveSection,
     Checkpoint, ThreadFinish, SyncEnter, Publish, BumpWriter, InitQuiescence,
     WaitQuiescence, WriteBack, Retract, BumpCommit, ProcessFree
<1>4. failed' = failed \/ \E x : failed' = [failed EXCEPT ![t] = x]
  BY DEF LibraryStep, ClientStep, ReaderLock, Register, Fail,
     RegVersion, RegCommit, Deref, DerefCheck, TryLockHeld, SendSyncRequest,
     TryLockFree, Assigns, ReaderUnlock, Abort, UnlockObj, LeaveSection,
     Checkpoint, ThreadFinish, SyncEnter, Publish, BumpWriter, InitQuiescence,
     WaitQuiescence, WriteBack, Retract, BumpCommit, ProcessFree, TryLockCas,
     ResetSets, ResetAborted
<1> QED
  BY <1>1, <1>2, <1>3, <1>4 DEF Others, Same

(* It is enough to look at the thread that moves.                           *)
WholeOK(t) ==
  /\ failed[t] => At(t, "in")
  /\ ~At(t, "crashed")
  /\ \A s \in Slots : shape[t][s] # "whole" =>
       /\ s = Cur(t) /\ shape[t][s] = "end"
       /\ (At(t, "in") /\ failed[t]) \/ At(t, "unlockobjs")

LEMMA WholeStep ==
  ASSUME TypeOK, WholeInv, ~Crashed, NEW t \in Threads,
         LibraryStep(t) \/ ClientStep(t), WholeOK(t)'
  PROVE WholeInv' /\ ~Crashed'
<1>1. WholeInv'
  BY WholeOthers DEF WholeInv, WholeOK, At, Cur
<1>2. ~Crashed'
  BY WholeOthers DEF Crashed, WholeOK, At
<1> QED
  BY <1>1, <1>2

(* A section that goes on has a whole log.                                  *)
LEMMA WholeLog ==
  ASSUME WholeInv, NEW t \in Threads, ~At(t, "unlockobjs"),
         ~(At(t, "in") /\ failed[t])
  PROVE ~failed[t] /\ \A s \in Slots : shape[t][s] = "whole"
  BY DEF WholeInv, At

LEMMA WholeLibrary ==
  ASSUME LockInv, WholeInv, ~Crashed, NEW t \in Threads, LibraryStep(t)
  PROVE WholeInv' /\ ~Crashed'
<1> USE DEF mem, clocks, section, locals, ring, logs, quiesce, At
<1>1. /\ TypeOK /\ pc \in [Threads -> Labels] /\ ret[t] \in Returns
      /\ failed \in [Threads -> BOOLEAN] /\ Cur(t) \in Slots
      /\ shape \in [Threads -> [Slots -> {"whole", "end", "inside"}]]
      /\ Pending(t) \subseteq Slots
  BY CurType, SlotsTypes DEF LockInv, TypeInv, TypeOK
<1>2. CASE \/ Register(t) \/ RegVersion(t) \/ RegCommit(t) \/ Checkpoint(t)
           \/ SyncEnter(t) \/ Publish(t) \/ BumpWriter(t) \/ InitQuiescence(t)
           \/ WaitQuiescence(t) \/ WriteBack(t) \/ Retract(t) \/ BumpCommit(t)
           \/ ProcessFree(t) \/ DerefCheck(t)
  <2>1. UNCHANGED <<shape, failed>> /\ pc[t] \notin {"in", "unlockobjs"}
    BY <1>2 DEF Register, RegVersion, RegCommit, Checkpoint, SyncEnter,
       Publish, BumpWriter, InitQuiescence, WaitQuiescence, WriteBack, Retract,
       BumpCommit, ProcessFree, DerefCheck
  <2>2. pc'[t] # "crashed"
    BY <1>1, <1>2 DEF Register, RegVersion, RegCommit, Checkpoint, SyncEnter,
       Publish, BumpWriter, InitQuiescence, WaitQuiescence, WriteBack, Retract,
       BumpCommit, ProcessFree, DerefCheck, Goto, CallSync, Returns
  <2> QED
    BY <1>1, <2>1, <2>2, WholeLog, WholeStep DEF WholeOK
<1>3. CASE SendSyncRequest(t)
  <2>1. /\ UNCHANGED shape /\ pc[t] = "request"
        /\ pc'[t] = "in" /\ failed'[t] = TRUE
    BY <1>1, <1>3 DEF SendSyncRequest, Goto, Fail
  <2> QED
    BY <1>1, <2>1, WholeLog, WholeStep DEF WholeOK
<1>4. CASE TryLockCas(t)
  <2>1. pc[t] = "cas" /\ pc'[t] = "in" /\ Cur(t)' = Cur(t)
    BY <1>1, <1>4 DEF TryLockCas, Goto, Cur
  <2>2. ~failed[t] /\ \A s \in Slots : shape[t][s] = "whole"
    BY <2>1, WholeLog
  <2>3. CASE CasSucceeds(t)
    BY <1>1, <1>4, <2>1, <2>2, <2>3, WholeStep DEF TryLockCas, WholeOK
  <2>4. CASE ~CasSucceeds(t)
    BY <1>1, <1>4, <2>1, <2>2, <2>4, WholeStep DEF TryLockCas, Fail, WholeOK
  <2> QED
    BY <2>3, <2>4
<1>5. CASE UnlockObj(t)
  <2>1. UNCHANGED <<shape, failed, pc, tail>> /\ pc[t] = "unlockobjs"
    BY <1>5 DEF UnlockObj
  <2> QED
    BY <1>1, <2>1, WholeStep DEF WholeOK, WholeInv, Cur
<1>6. CASE ResetAborted(t)
  <2>1. /\ UNCHANGED failed /\ pc[t] = "unlockobjs" /\ pc'[t] = "checkpoint"
        /\ shape' = [shape EXCEPT ![t][Cur(t)] = "whole"]
    BY <1>1, <1>6 DEF ResetAborted, Goto
  <2>2. \A s \in Slots : shape'[t][s] = "whole"
    BY <1>1, <2>1 DEF WholeInv
  <2> QED
    BY <1>1, <2>1, <2>2, WholeStep DEF WholeOK, WholeInv
<1>7. CASE ResetSets(t)
  <2>1. UNCHANGED failed /\ pc[t] = "reset"
    BY <1>7 DEF ResetSets
  <2>2. ~failed[t] /\ \A s \in Slots : shape[t][s] = "whole"
    BY <2>1, WholeLog
  <2>3. pc'[t] = "writeback"
    BY <1>1, <1>7, <2>2 DEF ResetSets, Goto
  <2>4. \A s \in Slots : shape'[t][s] = "whole"
    BY <1>1, <1>7, <2>2 DEF ResetSets
  <2> QED
    BY <1>1, <2>1, <2>2, <2>3, <2>4, WholeStep DEF WholeOK
<1> QED
  BY <1>2, <1>3, <1>4, <1>5, <1>6, <1>7 DEF LibraryStep

LEMMA WholeCall ==
  ASSUME TolerateFailure = FALSE, LockInv, WholeInv, ~Crashed,
         NEW t \in Threads, Call(t) \/ Commit(t)
  PROVE WholeInv' /\ ~Crashed'
<1> USE DEF mem, clocks, section, locals, ring, logs, quiesce, At
<1>1. /\ TypeOK /\ pc \in [Threads -> Labels] /\ ClientStep(t)
      /\ failed \in [Threads -> BOOLEAN] /\ Cur(t) \in Slots
      /\ shape \in [Threads -> [Slots -> {"whole", "end", "inside"}]]
  BY CurType, CallIsCall, CallIsStep DEF LockInv, TypeInv, TypeOK
<1>2. CASE ReaderLock(t) \/ ThreadFinish(t)
  <2>1. UNCHANGED <<shape, failed>> /\ pc[t] \in {"idle", "finish"}
    BY <1>2 DEF ReaderLock, ThreadFinish
  <2>2. pc'[t] # "crashed"
    BY <1>1, <1>2 DEF ReaderLock, ThreadFinish, Goto, CallSync
  <2> QED
    BY <1>1, <2>1, <2>2, WholeLog, WholeStep DEF WholeOK
<1>3. ASSUME NEW o \in Objs, ~failed[t],
             \/ Deref(t, o) \/ TryLockHeld(t, o) \/ TryLockFree(t, o)
             \/ \E v \in Vals : Write(t, o, v)
      PROVE WholeInv' /\ ~Crashed'
  <2>1. UNCHANGED <<shape, failed>> /\ pc[t] = "in"
    BY <1>3 DEF Deref, TryLockHeld, TryLockFree, Write
  <2>2. pc'[t] # "crashed"
    BY <1>1, <1>3 DEF Deref, TryLockHeld, TryLockFree, Write, Goto
  <2> QED
    BY <1>1, <1>3, <2>1, <2>2, WholeLog, WholeStep DEF WholeOK
<1>4. CASE Commit(t)
  <2>1. UNCHANGED shape /\ ~failed[t] /\ pc[t] = "in" /\ failed'[t] = FALSE
    BY <1>1, <1>4 DEF Commit, Unlock, GoesOn, ReaderUnlock, LeaveSection
  <2>2. pc'[t] # "crashed"
    BY <1>1, <1>4 DEF Commit, Unlock, ReaderUnlock, CallSync, Goto
  <2> QED
    BY <1>1, <2>1, <2>2, WholeLog, WholeStep DEF WholeOK
<1>5. CASE Abort(t)
  <2>1. /\ UNCHANGED <<shape, tail>> /\ pc[t] = "in" /\ failed'[t] = FALSE
    BY <1>1, <1>5 DEF Abort, LeaveSection
  <2>2. shape[t][Cur(t)] # "inside"
    BY <1>1 DEF WholeInv
  <2>3. CASE writeDet[t]
    <3>1. pc'[t] = "unlockobjs"
      BY <1>1, <1>5, <2>2, <2>3 DEF Abort, Goto
    <3> QED
      BY <1>1, <2>1, <3>1, WholeStep DEF WholeOK, WholeInv, Cur
  <2>4. CASE ~writeDet[t]
    <3>1. pc'[t] = "checkpoint"
      BY <1>1, <1>5, <2>4 DEF Abort, Goto
    <3>2. shape[t][Cur(t)] = "whole"
      BY <2>1, <2>4 DEF LockInv, ThreadInv, DetectOK, InSection
    <3>3. \A s \in Slots : shape'[t][s] = "whole"
      BY <2>1, <3>2 DEF WholeInv
    <3> QED
      BY <1>1, <2>1, <3>1, <3>3, WholeStep DEF WholeOK
  <2> QED
    BY <2>3, <2>4
<1> QED
  <2>1. CASE ReaderLock(t) \/ ThreadFinish(t) \/ Commit(t) \/ GiveUp(t)
    BY <1>2, <1>4, <1>5, <2>1 DEF GiveUp
  <2>2. CASE ~(ReaderLock(t) \/ ThreadFinish(t) \/ Commit(t) \/ GiveUp(t))
    BY <1>3, <2>2, TxnAssumption DEF Call, GoesOn, Bump
  <2> QED
    BY <2>1, <2>2

(* A section that gives up when rlu_try_lock has told it so never commits   *)
(* or unlocks a log with a header that has no copy: no RLU_ASSERT ends the  *)
(* process (rlu.c:353, 405), for every number of threads and objects.       *)
THEOREM NoAssertionFails ==
  ASSUME TolerateFailure = FALSE PROVE TxnSpec => []NoAssertFails
<1>1. Init => WholeInv /\ ~Crashed
  BY DEF Init, WholeInv, Crashed, At
<1>2. LockInv /\ WholeInv /\ ~Crashed /\ [TxnNext]_txnVars =>
        WholeInv' /\ ~Crashed'
  <2> SUFFICES ASSUME LockInv, WholeInv, ~Crashed, [TxnNext]_txnVars
               PROVE WholeInv' /\ ~Crashed'
    OBVIOUS
  <2>1. CASE UNCHANGED vars
    BY <2>1 DEF vars, section, ring, logs, WholeInv, Crashed, At, Cur
  <2>2. ASSUME NEW t \in Threads, TxnStep(t) PROVE WholeInv' /\ ~Crashed'
    BY <2>2, WholeLibrary, WholeCall DEF TxnStep
  <2> QED
    BY <2>1, <2>2 DEF TxnNext, txnVars, Terminated
<1> QED
  BY <1>1, <1>2, LibraryInv, PTL DEF TxnSpec, TxnInit, ViewInv, NoAssertFails

(* The newest value of an object is that of its committed copy, which is    *)
(* one commit ahead of the object itself.                                   *)
CountOK(o) ==
  /\ \A w \in Threads, s \in Slots : Committed(o, w, s) =>
       log[w][s][o] = commits[o] /\ actual[o] + 1 = commits[o]
  /\ (\A w \in Threads, s \in Slots : ~Committed(o, w, s)) =>
       actual[o] = commits[o]

CountInv == commits \in [Objs -> Nat] /\ \A o \in Objs : CountOK(o)

(* The committed copies and the count change together: by a commit, ...     *)
CommitsOne(u, o) ==
  Commit(u) /\ commits'[o] = commits[o] + 1 /\ CommitsObj(u, o)

(* ... by the write-back, ...                                               *)
WritesOne(u, o) == commits'[o] = commits[o] /\ WritesObj(u, o)

(* ... or not at all.                                                       *)
SameOne(o) == commits'[o] = commits[o] /\ SameObj(o)

LEMMA CommittedStep ==
  ASSUME LockInv, ~Crashed, NEW u \in Threads, TxnStep(u), NEW o \in Objs
  PROVE CommitsOne(u, o) \/ WritesOne(u, o) \/ SameOne(o)
<1>1. CASE Commit(u)
  <2>1. commits'[o] = IF HoldsLock(u, o) THEN commits[o] + 1 ELSE commits[o]
    BY <1>1 DEF Commit
  <2>2. IF HoldsLock(u, o) THEN CommitsObj(u, o) ELSE SameObj(o)
    BY <1>1, CommitObj DEF Commit, Unlock
  <2> QED
    BY <1>1, <2>1, <2>2 DEF CommitsOne, SameOne
<1>2. CASE UNCHANGED commits /\ (LibraryStep(u) \/ Call(u))
  <2>1. tail' = tail
    BY <1>2, CallIsClientCall
       DEF ring, LibraryStep, Register, RegVersion, RegCommit, DerefCheck,
           SendSyncRequest, TryLockCas, UnlockObj, ResetAborted, Checkpoint,
           SyncEnter, Publish, BumpWriter, InitQuiescence, WaitQuiescence,
           ResetSets, WriteBack, Retract, BumpCommit, ProcessFree, ReaderLock,
           ThreadFinish, Abort, Deref, TryLockHeld, TryLockFree, Write
  <2>2. ~CommitsObj(u, o)
    <3> SUFFICES ASSUME ReaderUnlock(u), HoldsLock(u, o) PROVE FALSE
      BY DEF CommitsObj
    <3>1. At(u, "in") /\ o \in Locks(u, Cur(u)) /\ tail \in [Threads -> Nat]
      BY DEF ReaderUnlock, HoldsLock, Locks, LockInv, TypeInv, TypeOK
    <3>2. writeDet[u]
      BY <3>1 DEF LockInv, Crashed, ThreadInv, DetectOK, InSection, At
    <3>3. tail'[u] = tail[u] + 1
      BY <3>1, <3>2 DEF ReaderUnlock
    <3> QED
      BY <2>1, <3>1, <3>3
  <2>3. CommitsObj(u, o) \/ WritesObj(u, o) \/ SameObj(o)
    BY StepIsCall, ObjStep
  <2> QED
    BY <1>2, <2>2, <2>3 DEF WritesOne, SameOne
<1> QED
  BY <1>1, <1>2 DEF TxnStep

(* Every step of a transaction keeps the count.                             *)
LEMMA NextCount ==
  ASSUME LockInv, ~Crashed, CountInv, NEW t \in Threads, TxnStep(t)
  PROVE CountInv'
<1>1. ASSUME NEW o \in Objs PROVE CountOK(o)'
  <2>1. CountOK(o)
    BY DEF CountInv
  <2>2. CASE CommitsOne(t, o)
    <3>1. UNCHANGED <<actual, log>> /\ Complete(t)
      BY <2>2 DEF CommitsOne, Commit, Unlock, ReaderUnlock, mem, logs
    <3>2. log[t][Cur(t)][o] = actual[o] + 1
      <4>1. PICK g \in Groups : o \in g
        BY TxnAssumption
      <4> QED
        BY <2>2, <3>1, <4>1 DEF CommitsOne, CommitsObj, Complete, Bumped
    <3>3. actual[o] = commits[o] /\ commits'[o] = commits[o] + 1
      BY <2>1, <2>2 DEF CommitsOne, CommitsObj, CountOK
    <3>4. Cur(t) \in Slots
      BY CurType DEF LockInv, TypeInv
    <3> QED
      BY <2>2, <3>1, <3>2, <3>3, <3>4 DEF CommitsOne, CommitsObj, CountOK
  <2>3. CASE WritesOne(t, o)
    BY <2>1, <2>3 DEF WritesOne, WritesObj, CountOK
  <2>4. CASE SameOne(o)
    <3>1. \A w \in Threads, s \in Slots :
            Committed(o, w, s) => log'[w][s] = log[w][s]
      BY StepIsCall, PendingKept DEF Committed
    <3> QED
      BY <2>1, <2>4, <3>1 DEF SameOne, SameObj, CountOK
  <2> QED
    BY <2>2, <2>3, <2>4, CommittedStep
<1>2. commits' \in [Objs -> Nat]
  BY DEF TxnStep, Commit, CountInv
<1> QED
  BY <1>1, <1>2 DEF CountInv

(* A header points into a current log or into a committed one.              *)
HeadersInv ==
  \A o \in Objs, w \in Threads, s \in Slots :
    copyOf[o] = CopyPtr(w, s) => (s # Cur(w) <=> s \in Pending(w))

LEMMA HeadersMatch == LockInv /\ ~Crashed => HeadersInv
<1> SUFFICES ASSUME LockInv, ~Crashed, NEW o \in Objs, NEW w \in Threads,
                    NEW s \in Slots, copyOf[o] = CopyPtr(w, s)
             PROVE s # Cur(w) <=> s \in Pending(w)
  BY DEF HeadersInv
<1> QED
  BY HeaderAndLog, CurNotPending DEF Committed, Crashed

LEMMA NextHeaders ==
  ASSUME ViewInv, ~Crashed, LockInv', HeadersInv, NEW t \in Threads, TxnStep(t)
  PROVE HeadersInv'
<1>1. LockInv' /\ ~Crashed' => HeadersInv'
  BY HeadersMatch, PTL
<1>2. CASE ~Crashed'
  BY <1>1, <1>2
<1>3. CASE Crashed'
  <2>1. LibraryStep(t) \/ ClientStep(t)
    BY StepIsCall
  <2>2. ResetSets(t) \/ Abort(t)
    BY <1>3, <2>1, CrashStep DEF ViewInv, LockInv, TypeInv
  <2>3. UNCHANGED <<copyOf, wb, tail>>
    BY <2>2 DEF ResetSets, Abort, mem, ring
  <2> QED
    BY <2>3 DEF HeadersInv, CopyPtr, Cur, Pending, SlotsOf
<1> QED
  BY <1>2, <1>3

LEMMA CountInvariant == TxnSpec => [](CountInv /\ HeadersInv)
<1>1. TxnInit => CountInv /\ HeadersInv
  <2> SUFFICES ASSUME TxnInit PROVE CountInv /\ HeadersInv
    OBVIOUS
  <2>1. /\ commits = [o \in Objs |-> 0] /\ actual = [o \in Objs |-> 0]
        /\ copyOf = [o \in Objs |-> NoCopy]
    BY TxnAssumption DEF TxnInit, Init
  <2> QED
    BY <2>1, Pointers DEF CountInv, CountOK, Committed, HeadersInv
<1>2. /\ ViewInv /\ LockInv' /\ CountInv /\ HeadersInv /\ [TxnNext]_txnVars
      => CountInv' /\ HeadersInv'
  <2> SUFFICES ASSUME ViewInv, LockInv', CountInv, HeadersInv,
                      [TxnNext]_txnVars
               PROVE CountInv' /\ HeadersInv'
    OBVIOUS
  <2>1. CASE UNCHANGED vars /\ UNCHANGED commits
    <3>1. UNCHANGED <<actual, copyOf, log, wb, tail>>
      BY <2>1 DEF vars, mem, logs, ring
    <3>2. HeadersInv'
      BY <3>1 DEF HeadersInv, CopyPtr, Cur, Pending, SlotsOf
    <3>3. CountInv'
      BY <2>1, <3>1 DEF CountInv, CountOK, Committed, CopyPtr, Pending, SlotsOf
    <3> QED
      BY <3>2, <3>3
  <2>2. ASSUME NEW t \in Threads, TxnStep(t) PROVE CountInv' /\ HeadersInv'
    <3>1. ~Crashed /\ LockInv
      BY <2>2 DEF TxnStep, ViewInv
    <3> QED
      BY <2>2, <3>1, NextCount, NextHeaders
  <2> QED
    BY <2>1, <2>2 DEF TxnNext, txnVars, Terminated
<1> QED
  BY <1>1, <1>2, LibraryInv, PTL DEF TxnSpec, ViewInv

(* For every number of threads, objects and write sets: the newest value of *)
(* an object counts exactly the committed sections that wrote it.  What     *)
(* rlu_commit_write_set has taken over is neither lost nor doubled by the   *)
(* deferred write-backs of rlu_sync_and_writeback (rlu.c:549-585), and what *)
(* rlu_abort drops never shows (rlu.c:945-963).                             *)
THEOREM NothingLost == TxnSpec => []NoLostUpdate
<1>1. ViewInv /\ CountInv /\ HeadersInv => NoLostUpdate
  <2> SUFFICES ASSUME ViewInv, CountInv, HeadersInv, NEW o \in Objs
               PROVE Latest(o) = commits[o]
    BY DEF NoLostUpdate
  <2>1. copyOf[o] \in CopyPtrs \cup {NoCopy} /\ CountOK(o)
    BY DEF ViewInv, LockInv, TypeInv, TypeOK, CountInv
  <2>2. CASE copyOf[o] = NoCopy
    <3>1. \A w \in Threads, s \in Slots : ~Committed(o, w, s)
      BY <2>2, Pointers DEF Committed
    <3> QED
      BY <2>1, <2>2, <3>1 DEF CountOK, Latest
  <2>3. CASE copyOf[o] \in CopyPtrs
    <3>1. PICK w \in Threads, s \in Slots :
            /\ copyOf[o] = CopyPtr(w, s) /\ copyOf[o].thread = w
            /\ copyOf[o].slot = s /\ copyOf[o] # NoCopy
      BY <2>3, PointerOf, Pointers
    <3>2. CASE s = Cur(w)
      <4>1. \A v \in Threads, r \in Slots : ~Committed(o, v, r)
        BY <3>1, <3>2, Pointers DEF Committed, HeadersInv
      <4> QED
        BY <2>1, <3>1, <3>2, <4>1 DEF CountOK, Latest
    <3>3. CASE s # Cur(w)
      <4>1. Committed(o, w, s)
        BY <3>1, <3>3 DEF Committed, HeadersInv
      <4> QED
        BY <2>1, <3>1, <3>3, <4>1 DEF CountOK, Latest
    <3> QED
      BY <3>2, <3>3
  <2> QED
    BY <2>1, <2>2, <2>3
<1> QED
  BY <1>1, LibraryInv, CountInvariant, PTL

-----------------------------------------------------------------------------
(* The object has a committed copy that t does not read, ...                *)
Hidden(t, o) ==
  \E w \in Threads, s \in Slots : Committed(o, w, s) /\ ~Shows(t, w)

(* ... so that t reads the value that the last commit replaced.             *)
Snap(t, o) == IF Hidden(t, o) THEN commits[o] - 1 ELSE commits[o]

(* What a section has read is its snapshot.                                 *)
SeenOK(t) ==
  InSection(t) =>
    \A o \in Objs : Seen(t, o) /\ ~HoldsLock(t, o) => Val(t, o) = Snap(t, o)

(* Either answer of rlu_deref_slow_path will be, too.                       *)
SlowOK(t) ==
  At(t, "deref") =>
    \A w \in Threads, s \in Slots : ptr[t] = CopyPtr(w, s) =>
      LET o == arg[t] IN
      /\ Shows(t, w) => log[w][s][o] = Snap(t, o)
      /\ \/ actual[o] = Snap(t, o)
         \/ Committed(o, w, s) /\ Shows(t, w)

(* A group is committed, and written back, as a whole.                      *)
GroupsOK ==
  \A g \in Groups : \A o, q \in g :
    /\ commits[o] = commits[q]
    /\ \A w \in Threads : \A s \in Pending(w) :
         o \in Locks(w, s) => q \in Locks(w, s)

SnapInv ==
  /\ NoRace
  /\ \A t \in Threads : NewerOK(t) /\ FlagsOK(t) /\ SeenOK(t) /\ SlowOK(t)

-----------------------------------------------------------------------------
(* What the values rest on.                                                 *)
Ground ==
  /\ ViewInv /\ BoundInv /\ VersionsBounded /\ CountInv /\ HeadersInv
  /\ AwaitInv /\ ActiveOK /\ GroupsOK /\ ~Crashed

(* A section keeps its snapshot: a commit that it does not read is hidden   *)
(* from it, and what it does not read is not written back.                  *)
LEMMA SnapStep ==
  ASSUME Ground, NEW u \in Threads, TxnStep(u), ~At(u, "crashed")',
         NEW t \in Threads, Keeps(t), NEW o \in Objs
  PROVE Snap(t, o)' = Snap(t, o)
<1>1. /\ LockInv /\ commits[o] \in Nat /\ Reading(t)
      /\ LibraryStep(u) \/ ClientStep(u)
  BY StepIsCall DEF Ground, ViewInv, CountInv, Keeps
<1>2. CASE CommitsOne(u, o)
  <2>1. /\ pc' = [pc EXCEPT ![u] = "sync"] \/ pc' = [pc EXCEPT ![u] = "checkpoint"]
        /\ pc \in [Threads -> Labels]
    BY <1>1, <1>2 DEF CommitsOne, Commit, Unlock, ReaderUnlock, CallSync, Goto,
       LockInv, TypeInv, TypeOK
  <2>2. ~Reading(u)' /\ ~InSync(u)'
    BY <2>1 DEF Reading, InSection, InSync, Published, At
  <2>3. ~Shows(t, u)'
    BY <2>2 DEF Keeps, Shows
  <2>4. Cur(u) \in Slots
    BY <1>1, CurType DEF LockInv, TypeInv
  <2>5. ~Hidden(t, o) /\ Hidden(t, o)'
    BY <1>2, <2>3, <2>4 DEF CommitsOne, CommitsObj, Hidden
  <2> QED
    BY <1>1, <1>2, <2>5 DEF Snap, CommitsOne, CommitsObj
<1>3. CASE WritesOne(u, o)
  <2>1. Shows(t, u)
    BY <1>1, <1>3, Unshown DEF Ground, WritesOne, WritesObj
  <2>2. ~Hidden(t, o)
    BY <1>3, <2>1, OneCopy DEF WritesOne, WritesObj, Hidden
  <2>3. ~Hidden(t, o)'
    BY <1>3 DEF WritesOne, WritesObj, Hidden
  <2> QED
    BY <1>3, <2>2, <2>3 DEF Snap, WritesOne, WritesObj
<1>4. CASE SameOne(o)
  <2>1. ASSUME NEW w \in Threads, NEW s \in Slots, Committed(o, w, s)
        PROVE Shows(t, w)' <=> Shows(t, w)
    <3>1. ~(w = u /\ Retract(u))
      BY <1>1, <2>1, NoneLeft DEF Retract, Ground
    <3> QED
      BY <1>1, <3>1, ShowsStep DEF Ground
  <2>2. Hidden(t, o)' <=> Hidden(t, o)
    BY <1>4, <2>1 DEF SameOne, SameObj, Hidden
  <2> QED
    BY <1>4, <2>2 DEF Snap, SameOne, SameObj
<1> QED
  BY <1>1, <1>2, <1>3, <1>4, CommittedStep DEF Ground

(* An object that holds what the section reads goes on to do so.            *)
LEMMA ActualStep ==
  ASSUME Ground, CountInv', NEW u \in Threads, TxnStep(u), ~At(u, "crashed")',
         NEW t \in Threads, Keeps(t), NEW o \in Objs, actual[o] = Snap(t, o)
  PROVE actual'[o] = Snap(t, o)'
<1>1. Snap(t, o)' = Snap(t, o)
  BY SnapStep
<1>2. CASE actual'[o] = actual[o]
  BY <1>1, <1>2
<1>3. CASE WritesOne(u, o)
  <2>1. ~Hidden(t, o)'
    BY <1>3 DEF WritesOne, WritesObj, Hidden
  <2>2. actual'[o] = commits'[o]
    BY <1>3 DEF WritesOne, WritesObj, CountInv, CountOK
  <2> QED
    BY <2>1, <2>2 DEF Snap
<1>4. Commit(u) => actual' = actual
  BY DEF Commit, Unlock, ReaderUnlock, mem
<1> QED
  BY <1>2, <1>3, <1>4, CommittedStep
     DEF Ground, ViewInv, CommitsOne, CommitsObj, SameOne, SameObj

-----------------------------------------------------------------------------
(* Where the snapshot is: in the object while no committed copy is shown, ...*)
LEMMA InObject ==
  ASSUME Ground, NEW t \in Threads, NEW o \in Objs,
         \A w \in Threads, s \in Slots : Committed(o, w, s) => ~Shows(t, w)
  PROVE actual[o] = Snap(t, o)
<1>1. /\ CountOK(o) /\ commits[o] \in Nat /\ actual[o] \in Nat
  BY TxnAssumption DEF Ground, ViewInv, LockInv, TypeInv, TypeOK, CountInv
<1>2. CASE \E w \in Threads, s \in Slots : Committed(o, w, s)
  <2>1. Hidden(t, o) /\ actual[o] + 1 = commits[o]
    BY <1>1, <1>2 DEF Hidden, CountOK
  <2> QED
    BY <1>1, <2>1 DEF Snap
<1>3. CASE \A w \in Threads, s \in Slots : ~Committed(o, w, s)
  <2>1. ~Hidden(t, o) /\ actual[o] = commits[o]
    BY <1>1, <1>3 DEF Hidden, CountOK
  <2> QED
    BY <2>1 DEF Snap
<1> QED
  BY <1>2, <1>3

(* ... in the copy when it is, ...                                          *)
LEMMA InCopy ==
  ASSUME Ground, NEW t \in Threads, NEW o \in Objs, NEW w \in Threads,
         NEW s \in Slots, Committed(o, w, s), Shows(t, w)
  PROVE log[w][s][o] = Snap(t, o)
<1>1. ~Hidden(t, o)
  BY OneCopy DEF Hidden
<1>2. log[w][s][o] = commits[o]
  BY DEF Ground, CountInv, CountOK
<1> QED
  BY <1>1, <1>2 DEF Snap

(* ... and in the copy that the thread itself has committed before.         *)
LEMMA InOwnCopy ==
  ASSUME Ground, NEW t \in Threads, NEW o \in Objs, NEW s \in Slots,
         copyOf[o] = CopyPtr(t, s), ~HoldsLock(t, o)
  PROVE log[t][s][o] = Snap(t, o)
<1>1. o \in Locks(t, s)
  BY OwnCopyLocked DEF Ground
<1>2. s # Cur(t)
  BY <1>1 DEF Locks, HoldsLock
<1>3. Committed(o, t, s)
  BY <1>2 DEF Ground, HeadersInv, Committed
<1> QED
  BY <1>3, InCopy DEF Shows

(* What has been read stays the snapshot, also in the middle of a call.     *)
LEMMA SeenKept ==
  ASSUME Ground, CountInv', NEW u \in Threads, TxnStep(u), ~At(u, "crashed")',
         NEW t \in Threads, Keeps(t), InSection(t), SeenOK(t),
         NEW o \in Objs, Seen(t, o), ~HoldsLock(t, o),
         view'[t][o] = view[t][o]
  PROVE Val(t, o)' = Snap(t, o)'
<1>1. /\ ViewInv /\ ~Crashed /\ (LibraryStep(u) \/ ClientStep(u))
      /\ TypeOK /\ Others(u)
      /\ view[t][o] \in CopyPtrs \cup {Actual}
      /\ Val(t, o) = Snap(t, o) /\ Snap(t, o)' = Snap(t, o)
  BY StepIsCall, SnapStep, OwnDataOnly
     DEF Ground, ViewInv, LockInv, TypeInv, TypeOK, Seen, SeenOK
<1>2. CASE view[t][o] = Actual
  BY <1>1, <1>2, ActualStep DEF Val
<1>3. ASSUME NEW w \in Threads, NEW s \in Slots, view[t][o] = CopyPtr(w, s)
      PROVE Val(t, o)' = Snap(t, o)'
  <2>1. /\ Val(t, o) = log[w][s][o] /\ Val(t, o)' = log'[w][s][o]
    BY <1>3, Pointers DEF Val
  <2>2. CASE w # t
    BY <1>1, <1>3, <2>1, <2>2, StolenKept
  <2>3. CASE w = t
    <3>1. s # Cur(t) /\ ~At(t, "reset")
      BY <1>1, <1>3, <2>3 DEF ViewInv, OwnOK, Locks, HoldsLock, InSection, At
    <3>2. log'[t][s] = log[t][s]
      BY <1>1, <3>1, LogStep DEF Others, Same
    <3> QED
      BY <1>1, <2>1, <2>3, <3>2
  <2> QED
    BY <2>2, <2>3
<1> QED
  BY <1>1, <1>2, <1>3, PointerOf

(* What rlu_deref and rlu_try_lock return at once.                          *)
LEMMA DerefSeen ==
  ASSUME Ground, NEW u \in Threads, FlagsOK(u), NEW o \in Objs,
         Deref(u, o) \/ TryLockHeld(u, o), view'[u][o] # view[u][o],
         ~HoldsLock(u, o)
  PROVE Val(u, o)' = Snap(u, o)
<1> USE DEF mem, clocks, section, locals, ring, logs, quiesce
<1>1. /\ view \in [Threads -> [Objs -> CopyPtrs \cup {Actual, Unseen}]]
      /\ copyOf[o] \in CopyPtrs \cup {NoCopy}
      /\ InSection(u) /\ UNCHANGED <<log, actual>>
  BY DEF Ground, ViewInv, LockInv, TypeInv, TypeOK, Deref, TryLockHeld,
         InSection, At
<1>2. CASE copyOf[o] \in CopyPtrs /\ copyOf[o].thread = u
           /\ view'[u][o] = copyOf[o]
  <2>1. PICK s \in Slots : copyOf[o] = CopyPtr(u, s)
    BY <1>2, PointerOf
  <2>2. Val(u, o)' = log[u][s][o]
    BY <1>1, <1>2, <2>1, Pointers DEF Val
  <2> QED
    BY <2>1, <2>2, InOwnCopy
<1>3. CASE /\ view'[u][o] = Actual
           /\ \/ ~check[u] \/ copyOf[o] = NoCopy
              \/ copyOf[o].thread # u /\ ~steal[u]
  <2>1. \A w \in Threads, s \in Slots : Committed(o, w, s) => ~Shows(u, w)
    <3>1. ASSUME ~check[u] PROVE Pending(u) = {}
      <4>1. wb[u] \in Nat /\ tail[u] \in Nat /\ tail[u] = wb[u]
        BY <1>1, <3>1, Functions DEF FlagsOK, Ground, ViewInv, LockInv, TypeInv
      <4> QED
        BY <4>1 DEF Pending, SlotsOf
    <3>2. CASE ~check[u]
      BY <1>1, <3>1, <3>2 DEF FlagsOK, Committed
    <3>3. CASE copyOf[o] = NoCopy
      BY <3>3, Pointers DEF Committed
    <3>4. CASE copyOf[o].thread # u /\ ~steal[u]
      BY <1>1, <3>4, Pointers DEF FlagsOK, Committed
    <3> QED
      BY <1>3, <3>2, <3>3, <3>4
  <2>2. Val(u, o)' = actual[o]
    BY <1>1, <1>3 DEF Val
  <2> QED
    BY <2>1, <2>2, InObject
<1>4. CASE Deref(u, o)
  <2>1. NoCopy.thread = -1 /\ u # -1
    BY ConstantsAssumption DEF NoCopy, Threads
  <2> QED
    BY <1>1, <1>2, <1>3, <1>4, <2>1 DEF Deref, See, OwnCopy
<1>5. CASE TryLockHeld(u, o)
  BY <1>1, <1>2, <1>5 DEF TryLockHeld, See, LockedHere
<1> QED
  BY <1>4, <1>5

(* Either answer of the slow path.                                          *)
LEMMA SlowSeen ==
  ASSUME Ground, NoRace, NEW u \in Threads, SlowOK(u), DerefCheck(u),
         NEW o \in Objs, o = arg[u]
  PROVE Val(u, o)' = Snap(u, o)
<1> USE DEF mem, clocks, section, locals, ring, logs, quiesce
<1>1. /\ view \in [Threads -> [Objs -> CopyPtrs \cup {Actual, Unseen}]]
      /\ UNCHANGED <<log, actual>> /\ ptr[u] \in CopyPtrs /\ ptr[u].thread # u
      /\ At(u, "deref")
      /\ view' = [view EXCEPT ![u][o] = IF Steals(u) THEN ptr[u] ELSE Actual]
  BY DEF Ground, ViewInv, LockInv, TypeInv, TypeOK, OperandsOK, OwnOK,
         DerefCheck, See, At
<1>2. PICK w \in Threads \ {u}, s \in Slots : ptr[u] = CopyPtr(w, s)
  BY <1>1, PointerOf
<1>3. ptr[u].thread = w /\ ptr[u].slot = s /\ ptr[u] # Actual
  BY <1>2, Pointers
<1>4. Steals(u) <=> Shows(u, w)
  BY <1>3, StealsShown DEF Ground
<1>5. /\ Shows(u, w) => log[w][s][o] = Snap(u, o)
      /\ ~Shows(u, w) => actual[o] = Snap(u, o)
  BY <1>1, <1>2 DEF SlowOK
<1>6. CASE Steals(u)
  <2>1. view'[u][o] = CopyPtr(w, s)
    BY <1>1, <1>2, <1>6
  <2>2. Val(u, o)' = log[w][s][o]
    BY <1>1, <2>1, Pointers DEF Val
  <2> QED
    BY <1>4, <1>5, <1>6, <2>2
<1>7. CASE ~Steals(u)
  <2>1. view'[u][o] = Actual
    BY <1>1, <1>7
  <2>2. Val(u, o)' = actual[o]
    BY <1>1, <2>1 DEF Val
  <2> QED
    BY <1>4, <1>5, <1>7, <2>2
<1> QED
  BY <1>6, <1>7

LEMMA SeenStep ==
  ASSUME Ground, CountInv', NoRace, NEW u \in Threads, TxnStep(u),
         ~At(u, "crashed")', NEW t \in Threads,
         FlagsOK(t), SeenOK(t), SlowOK(t)
  PROVE SeenOK(t)'
<1> SUFFICES ASSUME InSection(t)', NEW o \in Objs, Seen(t, o)', ~HoldsLock(t, o)'
             PROVE Val(t, o)' = Snap(t, o)'
  BY DEF SeenOK
<1>1. /\ ViewInv /\ ~Crashed /\ (LibraryStep(u) \/ ClientStep(u))
      /\ TypeOK /\ Others(u)
  BY StepIsCall, OwnDataOnly DEF Ground, ViewInv, LockInv, TypeInv
<1>2. Keeps(t)
  BY <1>1, SectionStep
<1>3. CASE t = u /\ RegCommit(u) /\ ~InSection(t)
  <2>1. view[t][o] = Unseen /\ view' = view
    BY <1>1, <1>3 DEF ViewInv, OwnOK, RegCommit
  <2> QED
    BY <2>1 DEF Seen
<1>4. CASE InSection(t)
  <2>1. ~HoldsLock(t, o)
    <3>1. CASE t = u
      BY <1>1, <1>4, <3>1, LockKept
    <3>2. CASE t # u
      BY <1>1, <3>2 DEF Others, Same, HoldsLock, Cur
    <3> QED
      BY <3>1, <3>2
  <2>2. CASE view'[t][o] = view[t][o]
    BY <1>2, <1>4, <2>1, <2>2, SeenKept DEF Seen
  <2>3. CASE view'[t][o] # view[t][o]
    <3>1. t = u
      BY <1>1, <2>3 DEF Others, Same
    <3>2. Snap(t, o)' = Snap(t, o)
      BY <1>2, SnapStep
    <3>3. CASE Deref(u, o) \/ TryLockHeld(u, o)
      BY <2>1, <2>3, <3>1, <3>2, <3>3, DerefSeen
    <3>4. CASE DerefCheck(u) /\ o = arg[u]
      BY <3>1, <3>2, <3>4, SlowSeen
    <3>5. CASE TryLockCas(u) /\ CasSucceeds(u) /\ o = arg[u]
      <4>1. /\ log \in [Threads -> [Slots -> [Objs -> Vals \cup {NoVal}]]]
            /\ actual[o] \in Vals /\ Cur(u) \in Slots /\ NoVal \notin Vals
        BY <1>1, CurType, ConstantsAssumption DEF TypeOK
      <4>2. /\ log' = [log EXCEPT ![u][Cur(u)][o] = actual[o]] /\ tail' = tail
        BY <3>5 DEF TryLockCas, ring
      <4> QED
        BY <3>1, <4>1, <4>2 DEF HoldsLock, Cur
    <3> QED
      BY <1>1, <2>3, <3>1, <3>3, <3>4, <3>5, LookStep
  <2> QED
    BY <2>2, <2>3
<1> QED
  BY <1>1, <1>3, <1>4, SectionStep

(* The slow path is entered with either answer right, ...                   *)
LEMMA SlowEnter ==
  ASSUME Ground, NEW u \in Threads, NEW o \in Objs, Deref(u, o),
         At(u, "deref")'
  PROVE /\ arg'[u] = o /\ UNCHANGED <<log, actual>>
        /\ \A w \in Threads, s \in Slots : ptr'[u] = CopyPtr(w, s) =>
             /\ Shows(u, w) => log[w][s][o] = Snap(u, o)
             /\ \/ actual[o] = Snap(u, o)
                \/ Committed(o, w, s) /\ Shows(u, w)
<1> USE DEF mem, clocks, section, locals, ring, logs, quiesce
<1>1. /\ arg' = [arg EXCEPT ![u] = o] /\ ptr' = [ptr EXCEPT ![u] = copyOf[o]]
      /\ copyOf[o].thread # u
  BY DEF Deref, At
<1>2. /\ arg'[u] = o /\ ptr'[u] = copyOf[o] /\ UNCHANGED <<log, actual>>
  BY <1>1, Functions DEF Ground, ViewInv, LockInv, TypeInv, Deref
<1> SUFFICES ASSUME NEW w \in Threads, NEW s \in Slots, copyOf[o] = CopyPtr(w, s)
             PROVE /\ Shows(u, w) => log[w][s][o] = Snap(u, o)
                   /\ \/ actual[o] = Snap(u, o)
                      \/ Committed(o, w, s) /\ Shows(u, w)
  BY <1>2
<1>3. w # u
  BY <1>1, Pointers
<1>4. Shows(u, w) => Committed(o, w, s)
  <2>1. InSync(w) => ~Owns(w)
    BY DEF InSync, Published, Owns, InSection, At
  <2> QED
    BY <1>3, <2>1, HeaderAndLog DEF Ground, ViewInv, Shows
<1>5. ~Shows(u, w) => actual[o] = Snap(u, o)
  <2>1. ASSUME NEW v \in Threads, NEW r \in Slots, Committed(o, v, r)
        PROVE v = w
    <3>1. CopyPtr(v, r) = CopyPtr(w, s)
      BY <2>1 DEF Committed
    <3> QED
      BY <3>1, Pointers
  <2> QED
    BY <2>1, InObject
<1> QED
  BY <1>4, <1>5, InCopy

(* ... and stays so while the writer goes on.                               *)
LEMMA SlowStep ==
  ASSUME Ground, CountInv', NoRace, NEW u \in Threads, TxnStep(u),
         ~At(u, "crashed")', NEW t \in Threads, SlowOK(t)
  PROVE SlowOK(t)'
<1> SUFFICES ASSUME At(t, "deref")', NEW w \in Threads, NEW s \in Slots,
                    ptr'[t] = CopyPtr(w, s)
             PROVE /\ Shows(t, w)' => log'[w][s][arg'[t]] = Snap(t, arg[t])'
                   /\ \/ actual'[arg'[t]] = Snap(t, arg[t])'
                      \/ Committed(arg[t], w, s)' /\ Shows(t, w)'
  BY DEF SlowOK, CopyPtr
<1>1. /\ ViewInv /\ LockInv /\ ~Crashed /\ (LibraryStep(u) \/ ClientStep(u))
      /\ TypeOK /\ Others(u)
  BY StepIsCall, OwnDataOnly DEF Ground, ViewInv, LockInv, TypeInv
<1>2. InSection(t)' /\ Keeps(t)
  BY <1>1, SectionStep DEF InSection, At
<1>3. ASSUME NEW o \in Objs, arg'[t] = o,
             /\ Shows(t, w)' => log'[w][s][o] = Snap(t, o)'
             /\ \/ actual'[o] = Snap(t, o)'
                \/ Committed(o, w, s)' /\ Shows(t, w)'
      PROVE /\ Shows(t, w)' => log'[w][s][arg'[t]] = Snap(t, arg[t])'
            /\ \/ actual'[arg'[t]] = Snap(t, arg[t])'
               \/ Committed(arg[t], w, s)' /\ Shows(t, w)'
  BY <1>3 DEF Snap, Hidden, Committed
<1>4. CASE t # u
  <2>1. /\ At(t, "deref") /\ ptr[t] = CopyPtr(w, s) /\ arg'[t] = arg[t]
        /\ arg[t] \in Objs /\ w # t
    <3>1. At(t, "deref") /\ ptr[t] = CopyPtr(w, s) /\ arg'[t] = arg[t]
      BY <1>1, <1>4 DEF Others, Same, At
    <3> QED
      BY <1>1, <3>1, Pointers DEF ViewInv, OwnOK, LockInv, TypeInv, OperandsOK, At
  <2>2. PICK o \in Objs : o = arg[t]
    BY <2>1
  <2>3. /\ Shows(t, w) => log[w][s][o] = Snap(t, o)
        /\ \/ actual[o] = Snap(t, o)
           \/ Committed(o, w, s) /\ Shows(t, w)
    BY <2>1, <2>2 DEF SlowOK
  <2>4. Snap(t, o)' = Snap(t, o)
    BY <1>2, SnapStep
  <2>5. ASSUME Shows(t, w)' PROVE log'[w][s][o] = Snap(t, o)'
    <3>1. Shows(t, w)
      BY <1>1, <1>2, <2>5, ShowsStep
    <3>2. s \in Pending(w)
      BY <1>1, <2>1, <3>1 DEF ViewInv, LoadedOK, Shows
    <3>3. log'[w][s] = log[w][s]
      BY <1>1, <3>2, PendingKept
    <3> QED
      BY <2>3, <2>4, <3>1, <3>3
  <2>6. ASSUME Committed(o, w, s), Shows(t, w)
        PROVE \/ actual'[o] = Snap(t, o)'
              \/ Committed(o, w, s)' /\ Shows(t, w)'
    <3>1. CASE WritesOne(u, o)
      <4>1. ~Hidden(t, o)' /\ actual'[o] = commits'[o]
        BY <3>1 DEF WritesOne, WritesObj, Hidden, CountInv, CountOK
      <4> QED
        BY <4>1 DEF Snap
    <3>2. CASE SameOne(o)
      <4>1. ~(w = u /\ Retract(u))
        BY <1>1, <2>6, NoneLeft DEF Retract
      <4>2. Shows(t, w)'
        BY <1>1, <1>2, <2>6, <4>1, ShowsStep
      <4> QED
        BY <2>6, <3>2, <4>2 DEF SameOne, SameObj
    <3> QED
      BY <1>1, <2>6, <3>1, <3>2, CommittedStep DEF CommitsOne, CommitsObj
  <2>7. \/ actual'[o] = Snap(t, o)'
        \/ Committed(o, w, s)' /\ Shows(t, w)'
    BY <1>2, <2>3, <2>6, ActualStep
  <2> QED
    BY <1>3, <2>1, <2>2, <2>5, <2>7
<1>5. CASE t = u
  <2>1. PICK o \in Objs : Deref(u, o)
    BY <1>1, <1>5, EnterSlow
  <2>2. /\ arg'[u] = o /\ UNCHANGED <<log, actual>>
        /\ Shows(u, w) => log[w][s][o] = Snap(u, o)
        /\ \/ actual[o] = Snap(u, o)
           \/ Committed(o, w, s) /\ Shows(u, w)
    BY <1>5, <2>1, SlowEnter
  <2>3. Snap(u, o)' = Snap(u, o)
    BY <1>2, <1>5, SnapStep
  <2>4. Shows(u, w)' <=> Shows(u, w)
    BY <1>1, <1>2, <1>5, <2>1, ShowsStep DEF Deref, Retract, At
  <2>5. Committed(o, w, s)' <=> Committed(o, w, s)
    BY <2>1, CommittedNext DEF Deref, mem, ring, Committed, Pending, SlotsOf
  <2> QED
    BY <1>3, <1>5, <2>2, <2>3, <2>4, <2>5
<1> QED
  BY <1>4, <1>5

-----------------------------------------------------------------------------
(* What a step adds to the write sets that wait for their write-back.       *)
LEMMA PendingStep ==
  ASSUME LockInv, ~Crashed, NEW u \in Threads, TxnStep(u),
         NEW w \in Threads, NEW s \in Pending(w)'
  PROVE s \in Pending(w) \/ (Commit(u) /\ w = u /\ s = Cur(u))
<1> USE DEF mem, clocks, section, locals, ring, logs, quiesce
<1>1. CASE Commit(u)
  <2>1. CASE tail' = tail
    BY <1>1, <2>1 DEF Commit, Unlock, ReaderUnlock, Pending, SlotsOf
  <2> QED
    BY <1>1, <2>1, CommitPending DEF Commit, Unlock
<1>2. CASE UNCHANGED <<wb, tail>>
  BY <1>2 DEF Pending, SlotsOf
<1>3. CASE Retract(u)
  <2>1. /\ wb \in [Threads -> Nat] /\ tail[u] \in Nat
        /\ wb' = [wb EXCEPT ![u] = tail[u]] /\ tail' = tail
    BY <1>3, ThreadTypes, Functions DEF LockInv, TypeInv, Retract, WrittenBack
  <2>2. Pending(u)' = {}
    BY <2>1 DEF Pending, SlotsOf
  <2>3. w # u => Pending(w)' = Pending(w)
    BY <2>1 DEF Pending, SlotsOf
  <2> QED
    BY <2>2, <2>3
<1>4. CASE LibraryStep(u) /\ ~Retract(u)
  BY <1>2, <1>4 DEF LibraryStep, Register, RegVersion, RegCommit, DerefCheck,
     SendSyncRequest, TryLockCas, UnlockObj, ResetAborted, Checkpoint,
     SyncEnter, Publish, BumpWriter, InitQuiescence, WaitQuiescence, ResetSets,
     WriteBack, BumpCommit, ProcessFree
<1>5. CASE Call(u)
  BY <1>2, <1>5, CallIsClientCall DEF ReaderLock, ThreadFinish, Abort, Deref,
     TryLockHeld, TryLockFree, Write
<1> QED
  BY <1>1, <1>3, <1>4, <1>5 DEF TxnStep

LEMMA GroupsStep ==
  ASSUME LockInv, ~Crashed, CountInv, GroupsOK, NEW u \in Threads, TxnStep(u)
  PROVE GroupsOK'
<1> SUFFICES ASSUME NEW g \in Groups, NEW o \in g, NEW q \in g
             PROVE /\ commits'[o] = commits'[q]
                   /\ \A w \in Threads : \A s \in Pending(w)' :
                        o \in Locks(w, s)' => q \in Locks(w, s)'
  BY DEF GroupsOK
<1>1. o \in Objs /\ q \in Objs /\ commits[o] = commits[q]
  BY TxnAssumption DEF GroupsOK
<1>2. Commit(u) => (HoldsLock(u, o) <=> HoldsLock(u, q))
  BY DEF Commit, Unlock, Complete, Bumped
<1>3. commits'[o] = commits'[q]
  <2>1. CASE Commit(u)
    BY <1>1, <1>2, <2>1 DEF Commit
  <2>2. CASE UNCHANGED commits
    BY <1>1, <2>2
  <2> QED
    BY <2>1, <2>2 DEF TxnStep
<1>4. ASSUME NEW w \in Threads, NEW s \in Pending(w)', o \in Locks(w, s)'
      PROVE q \in Locks(w, s)'
  <2>1. CASE s \in Pending(w)
    <3>1. log'[w][s] = log[w][s]
      BY <2>1, StepIsCall, PendingKept
    <3> QED
      BY <1>1, <1>4, <2>1, <3>1 DEF Locks, GroupsOK
  <2>2. CASE Commit(u) /\ w = u /\ s = Cur(u)
    <3>1. log' = log
      BY <2>2 DEF Commit, Unlock, ReaderUnlock, logs
    <3> QED
      BY <1>1, <1>2, <1>4, <2>2, <3>1 DEF Locks, HoldsLock
  <2> QED
    BY <1>4, <2>1, <2>2, PendingStep
<1> QED
  BY <1>3, <1>4

(* A section reads one snapshot of a group.                                 *)
LEMMA SnapshotHolds ==
  ASSUME Ground, \A t \in Threads : SeenOK(t)
  PROVE Snapshot
<1> SUFFICES ASSUME NEW t \in Threads, InSection(t), NEW g \in Groups,
                    NEW o \in g, NEW q \in g,
                    Seen(t, o), ~HoldsLock(t, o), Seen(t, q), ~HoldsLock(t, q)
             PROVE Val(t, o) = Val(t, q)
  BY DEF Snapshot
<1>1. o \in Objs /\ q \in Objs /\ commits[o] = commits[q]
  BY TxnAssumption DEF Ground, GroupsOK
<1>2. Val(t, o) = Snap(t, o) /\ Val(t, q) = Snap(t, q)
  BY <1>1 DEF SeenOK
<1>3. ASSUME NEW x \in g, NEW y \in g, Hidden(t, x) PROVE Hidden(t, y)
  <2>1. PICK w \in Threads, s \in Slots : Committed(x, w, s) /\ ~Shows(t, w)
    BY <1>3 DEF Hidden
  <2>2. x \in Objs /\ y \in Objs
    BY TxnAssumption
  <2>3. x \in Locks(w, s) /\ s \in Pending(w)
    BY <2>1, <2>2, HeaderAndLog DEF Ground, ViewInv, Committed
  <2>4. y \in Locks(w, s)
    BY <2>3 DEF Ground, GroupsOK
  <2>5. ~At(w, "writeback")
    BY <2>1, Unshown DEF Ground, Reading
  <2>6. Committed(y, w, s)
    BY <2>2, <2>3, <2>4, <2>5, HeaderAndLog DEF Ground, ViewInv, Held, Committed
  <2> QED
    BY <2>1, <2>6 DEF Hidden
<1> QED
  BY <1>1, <1>2, <1>3 DEF Snap

(* rlu_try_lock copies what the section has seen.                           *)
LEMMA LockSeen ==
  ASSUME Ground, NEW u \in Threads, LibraryStep(u) \/ ClientStep(u),
         NEW t \in Threads, InSection(t), InSection(t)', NEW o \in Objs,
         ~HoldsLock(t, o), HoldsLock(t, o)'
  PROVE Val(t, o)' = Snap(t, o)
<1> USE DEF mem, clocks, section, locals, ring, logs, quiesce
<1>1. /\ TypeOK /\ Others(u) /\ Cur(t) \in Slots
      /\ log \in [Threads -> [Slots -> [Objs -> Vals \cup {NoVal}]]]
      /\ view \in [Threads -> [Objs -> CopyPtrs \cup {Actual, Unseen}]]
      /\ tail'[t] = tail[t] /\ ~At(t, "unlockobjs") /\ ~At(t, "reset")
  BY OwnDataOnly, CurType, Functions, RingKept
     DEF Ground, ViewInv, LockInv, TypeInv, InSection, At
<1>2. log'[t][Cur(t)][o] # log[t][Cur(t)][o]
  BY <1>1 DEF HoldsLock, Cur
<1>3. t = u /\ TryLockCas(u) /\ CasSucceeds(u) /\ o = arg[u]
  <2>1. t = u /\ ~UNCHANGED log
    BY <1>1, <1>2 DEF Others, Same
  <2>2. ASSUME NEW q \in Objs, NEW v \in Vals, Assigns(u, q, v) PROVE FALSE
    BY <1>1, <1>2, <2>1, <2>2 DEF Assigns, Assign, HoldsLock
  <2>3. TryLockCas(u)
    BY <1>1, <2>1, <2>2 DEF LibraryStep, ClientStep, Register, RegVersion,
       RegCommit, DerefCheck, SendSyncRequest, UnlockObj, ResetAborted,
       Checkpoint, SyncEnter, Publish, BumpWriter, InitQuiescence,
       WaitQuiescence, ResetSets, WriteBack, Retract, BumpCommit, ProcessFree,
       ReaderLock, ReaderUnlock, Abort, ThreadFinish, Deref, TryLockHeld,
       TryLockFree, At
  <2>4. CasSucceeds(u)
    BY <2>1, <2>3 DEF TryLockCas
  <2>5. log' = [log EXCEPT ![u][Cur(u)][arg[u]] = actual[arg[u]]]
    BY <2>3, <2>4 DEF TryLockCas
  <2> QED
    BY <1>1, <1>2, <2>1, <2>3, <2>4, <2>5
<1>4. /\ copyOf[o] = NoCopy
      /\ log' = [log EXCEPT ![u][Cur(u)][o] = actual[o]]
      /\ view' = [view EXCEPT ![u][o] = CopyPtr(u, Cur(u))]
  BY <1>3 DEF TryLockCas, CasSucceeds, See
<1>5. Val(t, o)' = actual[o]
  <2>1. /\ view'[t][o] = CopyPtr(t, Cur(t))
        /\ log'[t][Cur(t)][o] = actual[o]
    BY <1>1, <1>3, <1>4
  <2> QED
    BY <1>1, <2>1, Pointers DEF Val
<1>6. \A w \in Threads, s \in Slots : ~Committed(o, w, s)
  BY <1>4, Pointers DEF Committed
<1> QED
  BY <1>5, <1>6, InObject

(* The step in which an assertion fails leaves what the others see alone.   *)
LEMMA CrashKeeps ==
  ASSUME Ground, NEW u \in Threads, LibraryStep(u) \/ ClientStep(u), Crashed',
         NEW t \in Threads, NEW o \in Objs, InSection(t)', Seen(t, o)'
  PROVE /\ InSection(t) /\ Seen(t, o) /\ Val(t, o)' = Val(t, o)
        /\ HoldsLock(t, o)' = HoldsLock(t, o)
<1>1. ViewInv /\ ~Crashed /\ TypeOK
  BY DEF Ground, ViewInv, LockInv, TypeInv
<1>2. At(u, "crashed")' /\ Others(u) /\ (ResetSets(u) \/ Abort(u))
  BY <1>1, CrashStep
<1>3. t # u /\ Same(t)
  BY <1>2 DEF InSection, At, Others
<1>4. /\ InSection(t) /\ view'[t] = view[t] /\ Seen(t, o)
      /\ log'[t] = log[t] /\ HoldsLock(t, o)' = HoldsLock(t, o)
  BY <1>3, SameSync DEF Same, Seen, HoldsLock, Cur
<1>5. actual' = actual
  BY <1>2 DEF ResetSets, Abort, mem
<1>6. view[t][o] \in CopyPtrs \cup {Actual}
  BY <1>1, <1>4, Functions DEF Seen
<1>7. ASSUME NEW w \in Threads, NEW s \in Slots, view[t][o] = CopyPtr(w, s)
      PROVE Val(t, o)' = Val(t, o)
  <2>1. log'[w][s] = log[w][s]
    BY <1>1, <1>4, <1>7, StolenKept
  <2> QED
    BY <1>4, <1>7, <2>1, Pointers DEF Val
<1>8. CASE view[t][o] = Actual
  BY <1>4, <1>5, <1>8 DEF Val
<1> QED
  BY <1>4, <1>6, <1>7, <1>8, PointerOf

AllSeen == \A t \in Threads : SeenOK(t)

LEMMA SnapshotSeen == Ground /\ AllSeen => Snapshot
  BY SnapshotHolds DEF AllSeen

LEMMA SnapshotNext == Ground' /\ AllSeen' => Snapshot'
  BY SnapshotSeen, PTL

-----------------------------------------------------------------------------
(* The invariant.  An assertion that fails ends the process: only what has  *)
(* been read is of interest then.                                           *)
BaseInv ==
  /\ ViewInv /\ BoundInv /\ VersionsBounded /\ CountInv /\ HeadersInv

SyncInv == ~Crashed => AwaitInv /\ ActiveOK /\ GroupsOK

ReadInv == ~raced => (~Crashed => SnapInv) /\ Snapshot

LEMMA InitRead == TxnInit => SyncInv /\ ReadInv
<1> SUFFICES ASSUME TxnInit PROVE SyncInv /\ ReadInv
  OBVIOUS
<1>1. /\ \A t \in Threads : pc[t] = "idle" /\ wb[t] = 0 /\ tail[t] = 0
      /\ commits = [o \in Objs |-> 0] /\ gWriter = 0 /\ gCommit = 0
  BY DEF TxnInit, Init
<1>2. \A t \in Threads : /\ ~InSync(t) /\ ~Counted(t) /\ ~TakingVersion(t)
                         /\ ~Reading(t) /\ ~InSection(t) /\ ~At(t, "commit")
                         /\ ~At(t, "deref") /\ Pending(t) = {}
  BY <1>1 DEF InSync, Published, Counted, TakingVersion, Reading, InSection,
     At, Pending, SlotsOf
<1>3. AwaitInv
  BY <1>2 DEF AwaitInv, VersionOK, AwaitOK
<1>4. ActiveOK
  <2>1. Active = {}
    BY <1>2 DEF Active
  <2> QED
    BY <1>1, <2>1, FS_EmptySet DEF ActiveOK
<1>5. GroupsOK
  BY <1>1, <1>2, TxnAssumption DEF GroupsOK
<1>6. SnapInv
  BY <1>2 DEF SnapInv, NoRace, NewerOK, FlagsOK, SeenOK, SlowOK
<1>7. Snapshot
  BY <1>2 DEF Snapshot
<1> QED
  BY <1>3, <1>4, <1>5, <1>6, <1>7 DEF SyncInv, ReadInv

(* One step, with no assertion failing, and with one.                       *)
LEMMA ReadingGoesOn ==
  ASSUME BaseInv, BaseInv', SyncInv, ReadInv, NEW u \in Threads, TxnStep(u),
         ~Crashed'
  PROVE SyncInv' /\ ReadInv'
<1>1. /\ Ground /\ ViewInv /\ ViewInv' /\ LockInv /\ BoundInv /\ CountInv
      /\ CountInv' /\ ~Crashed /\ (LibraryStep(u) \/ ClientStep(u))
      /\ ~At(u, "crashed")'
  BY StepIsCall DEF BaseInv, SyncInv, Ground, TxnStep, ViewInv, Crashed, At
<1>2. AwaitInv' /\ ActiveOK' /\ GroupsOK'
  BY <1>1, NextAwaits, ActiveStep, GroupsStep DEF Ground
<1>3. Ground'
  BY <1>2 DEF BaseInv, Ground
<1>4. ASSUME ~raced' PROVE SnapInv' /\ Snapshot'
  <2>1. ~raced /\ ~Races
    BY <1>4 DEF TxnStep
  <2>2. /\ NoRace
        /\ \A t \in Threads : NewerOK(t) /\ FlagsOK(t) /\ SeenOK(t) /\ SlowOK(t)
    BY <1>1, <2>1 DEF ReadInv, SnapInv
  <2>3. NoRace'
    BY <1>1, <2>1, <2>2, NoRaceStep
  <2>4. ASSUME NEW t \in Threads
        PROVE NewerOK(t)' /\ FlagsOK(t)' /\ SeenOK(t)' /\ SlowOK(t)'
    <3>1. NewerOK(t)'
      BY <1>1, <2>2, NewerStep DEF Ground
    <3>2. FlagsOK(t)'
      BY <1>1, <2>2, FlagsStep DEF Ground
    <3>3. SeenOK(t)' /\ SlowOK(t)'
      BY <1>1, <2>2, SeenStep, SlowStep
    <3> QED
      BY <3>1, <3>2, <3>3
  <2>5. SnapInv'
    BY <2>3, <2>4 DEF SnapInv
  <2>6. Snapshot'
    BY <1>3, <2>4, SnapshotNext DEF AllSeen
  <2> QED
    BY <2>5, <2>6
<1> QED
  BY <1>2, <1>4 DEF SyncInv, ReadInv

LEMMA CrashRead ==
  ASSUME BaseInv, SyncInv, ReadInv, NEW u \in Threads, TxnStep(u), Crashed'
  PROVE SyncInv' /\ ReadInv'
<1>1. Ground /\ (LibraryStep(u) \/ ClientStep(u))
  BY StepIsCall DEF BaseInv, SyncInv, Ground, TxnStep
<1>2. ASSUME ~raced' PROVE Snapshot'
  <2>1. Snapshot
    BY <1>2 DEF TxnStep, ReadInv
  <2>2. \A g \in Groups, o \in Objs : o \in g => o \in Objs
    OBVIOUS
  <2> QED
    BY <1>1, <2>1, CrashKeeps, TxnAssumption DEF Snapshot
<1> QED
  BY <1>2 DEF SyncInv, ReadInv

LEMMA NextRead ==
  BaseInv /\ BaseInv' /\ SyncInv /\ ReadInv /\ [TxnNext]_txnVars
    => SyncInv' /\ ReadInv'
<1> SUFFICES ASSUME BaseInv, BaseInv', SyncInv, ReadInv, [TxnNext]_txnVars
             PROVE SyncInv' /\ ReadInv'
  OBVIOUS
<1>1. CASE UNCHANGED txnVars
  <2>1. SyncInv' <=> SyncInv
    BY <1>1 DEF txnVars, vars, mem, clocks, section, locals, ring, logs,
       quiesce, SyncInv, Crashed, At, AwaitInv, VersionOK, AwaitOK, Awaits,
       InSync, Published, SyncVersion, Counted, Reading, InSection, ActiveOK,
       Active, GroupsOK, Pending, SlotsOf, Locks
  <2>2. Snapshot' <=> Snapshot
    BY <1>1 DEF txnVars, vars, mem, section, ring, logs, Snapshot, InSection,
       Seen, HoldsLock, Cur, Val
  <2>3. SnapInv' <=> SnapInv
    <3>1. NoRace' <=> NoRace
      BY <1>1 DEF txnVars, vars, clocks, locals, NoRace, TakingVersion,
         SyncVersion, At
    <3>2. ASSUME NEW t \in Threads
          PROVE /\ NewerOK(t)' <=> NewerOK(t)
                /\ FlagsOK(t)' <=> FlagsOK(t)
                /\ SeenOK(t)' <=> SeenOK(t)
                /\ SlowOK(t)' <=> SlowOK(t)
      BY <1>1 DEF txnVars, vars, mem, clocks, section, locals, ring, logs,
         NewerOK, Reading, InSection, At, Newer, Counted, SyncVersion, FlagsOK,
         Shows, InSync, Published, SeenOK, Seen, HoldsLock, Cur, Val, Snap,
         Hidden, Committed, CopyPtr, Pending, SlotsOf, SlowOK
    <3> QED
      BY <3>1, <3>2 DEF SnapInv
  <2> QED
    BY <1>1, <2>1, <2>2, <2>3 DEF ReadInv, Crashed, At, txnVars, vars
<1>2. ASSUME NEW u \in Threads, TxnStep(u) PROVE SyncInv' /\ ReadInv'
  BY <1>2, ReadingGoesOn, CrashRead
<1> QED
  BY <1>1, <1>2 DEF TxnNext, Terminated, txnVars

LEMMA ReadInvariant == TxnSpec => [](BaseInv /\ SyncInv /\ ReadInv)
<1>1. TxnSpec => []BaseInv
  BY LibraryInv, CountInvariant, PTL DEF BaseInv
<1> QED
  BY <1>1, InitRead, NextRead, PTL DEF TxnSpec

(* For every number of threads, objects, groups and write sets, and as long *)
(* as no two writers have taken the same version: objects that are only     *)
(* written together never show a section one old and one new value, whether *)
(* it reads the object, a copy of its own or one that rlu_deref_slow_path   *)
(* steals (rlu.c:820-843), before, during and after the write-back of the   *)
(* writer (rlu.c:549-585).                                                  *)
THEOREM SectionsReadSnapshots == TxnSpec => []SnapshotUnlessRaced
<1>1. ReadInv => SnapshotUnlessRaced
  BY DEF ReadInv, SnapshotUnlessRaced
<1> QED
  BY <1>1, ReadInvariant, PTL

(* And what a section has read stays what it is until the section is over,  *)
(* also when the section then locks the object: rlu_try_lock copies the     *)
(* object itself (rlu.c:904-923), which is what the section has seen.       *)
THEOREM ReadsAreStable == TxnSpec => StableReads
<1>1. BaseInv /\ BaseInv' /\ SyncInv /\ ReadInv /\ SyncInv' /\ ReadInv'
        /\ [TxnNext]_txnVars => [~raced' => StableStep]_txnVars
  <2> SUFFICES ASSUME BaseInv, BaseInv', SyncInv, ReadInv, SyncInv', ReadInv',
                      [TxnNext]_txnVars, ~UNCHANGED txnVars, ~raced',
                      NEW t \in Threads, NEW o \in Objs,
                      InSection(t), Seen(t, o), ~HoldsLock(t, o),
                      InSection(t)', Seen(t, o)'
               PROVE Val(t, o)' = Val(t, o)
    BY DEF StableStep
  <2>1. PICK u \in Threads : TxnStep(u)
    BY DEF TxnNext, Terminated, txnVars
  <2>2. /\ Ground /\ ViewInv /\ TypeOK /\ CountInv'
        /\ (LibraryStep(u) \/ ClientStep(u)) /\ ~raced
    BY <2>1, StepIsCall
       DEF BaseInv, SyncInv, Ground, TxnStep, ViewInv, LockInv, TypeInv
  <2>3. CASE Crashed'
    BY <2>2, <2>3, CrashKeeps
  <2>4. CASE ~Crashed'
    <3>1. /\ SeenOK(t) /\ SeenOK(t)' /\ Keeps(t) /\ ~At(u, "crashed")'
      BY <2>2, <2>4, SectionStep DEF Ground, ReadInv, SnapInv, Crashed, At
    <3>2. Val(t, o) = Snap(t, o) /\ Snap(t, o)' = Snap(t, o)
      BY <2>1, <2>2, <3>1, SnapStep DEF SeenOK
    <3>3. CASE ~HoldsLock(t, o)'
      BY <3>1, <3>2, <3>3 DEF SeenOK
    <3>4. CASE HoldsLock(t, o)'
      BY <2>1, <2>2, <3>2, <3>4, LockSeen
    <3> QED
      BY <3>3, <3>4
  <2> QED
    BY <2>3, <2>4
<1> QED
  BY <1>1, ReadInvariant, PTL DEF TxnSpec, StableReads
=============================================================================
