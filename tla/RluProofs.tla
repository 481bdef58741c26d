----------------------------- MODULE RluProofs -----------------------------
(***************************************************************************)
(* TLAPS proves of the library Rlu, for any number of threads, objects and *)
(* write sets and for any client, that every variable keeps its type, that *)
(* the locks and the write-set logs agree, and that the ring of write sets *)
(* never overtakes itself.                                                 *)
(*                                                                         *)
(* The argument for locks and logs has three parts: arithmetic on the ring *)
(* (CurFresh, PendingNotOld), a frame lemma for the threads that do not    *)
(* move (SameInv), and one lemma for each action that touches either.      *)
(***************************************************************************)
EXTENDS Rlu, TLAPS

(* The calls of any client.  So that what is proved of them holds also of   *)
(* a client that reclaims memory, a write may come with what rlu_alloc and *)
(* rlu_free change: a node is no longer free, or is going to be.            *)
Assigns(t, o, v) ==
  /\ At(t, "in") /\ HoldsLock(t, o) /\ Assign(t, o, v)
  /\ freed' \subseteq freed
  /\ freeList' = freeList \/ \E q \in Objs : Free(t, q)
  /\ UNCHANGED <<actual, copyOf, clocks, section, locals, ring, wsRun, shape,
                 quiesce, pc, ret, isSync, wver, todo>>
ClientStep(t) ==
  \/ ReaderLock(t) \/ ReaderUnlock(t) \/ Abort(t) \/ ThreadFinish(t)
  \/ \E o \in Objs : Deref(t, o) \/ TryLockHeld(t, o) \/ TryLockFree(t, o)
  \/ \E o \in Objs, v \in Vals : Assigns(t, o, v)

LEMMA CallIsStep == ASSUME NEW t \in Threads, ClientCall(t) PROVE ClientStep(t)
<1>1. ASSUME NEW o \in Objs, NEW v \in Vals, Write(t, o, v)
      PROVE Assigns(t, o, v)
  BY <1>1 DEF Write, Assigns, mem
<1> QED
  BY <1>1 DEF ClientCall, ClientStep

(* The counter of a write set names one of the logs (WS_INDEX).            *)
LEMMA WsIndexType == ASSUME NEW c \in Nat PROVE WsIndex(c) \in Slots
  BY ConstantsAssumption DEF WsIndex, Slots

(* A thread in the middle of a call knows its operand.                     *)
OperandsOK ==
  \A t \in Threads :
    /\ pc[t] = "deref" => arg[t] \in Objs /\ ptr[t] \in CopyPtrs
    /\ pc[t] = "cas" => arg[t] \in Objs

(* The inductive form of TypeOK.                                            *)
TypeInv == TypeOK /\ OperandsOK

(* Writing one entry of a log leaves all logs well-typed.                  *)
LEMMA Update3 ==
  ASSUME NEW A, NEW B, NEW C, NEW R, NEW f \in [A -> [B -> [C -> R]]],
         NEW i \in A, NEW j \in B, NEW k \in C, NEW e \in R
  PROVE [f EXCEPT ![i][j][k] = e] \in [A -> [B -> [C -> R]]]
<1> DEFINE g == [f[i] EXCEPT ![j] = [f[i][j] EXCEPT ![k] = e]]
<1>1. f[i] \in [B -> [C -> R]] /\ f[i][j] \in [C -> R]
  OBVIOUS
<1>2. [f[i][j] EXCEPT ![k] = e] \in [C -> R]
  BY <1>1
<1>3. g \in [B -> [C -> R]]
  BY <1>1, <1>2
<1>4. [f EXCEPT ![i] = g] \in [A -> [B -> [C -> R]]]
  <2> HIDE DEF g
  <2> QED
    BY <1>3
<1>5. [f EXCEPT ![i][j][k] = e] = [f EXCEPT ![i] = g]
  OBVIOUS
<1> QED
  BY <1>4, <1>5

(* A new or changed log entry keeps the logs and shapes well-typed.         *)
LEMMA LogEntryType ==
  ASSUME TypeOK, NEW t \in Threads, NEW s \in Slots, NEW o \in Objs,
         NEW v \in Vals
  PROVE [log EXCEPT ![t][s][o] = v]
          \in [Threads -> [Slots -> [Objs -> Vals \cup {NoVal}]]]
<1> DEFINE R == Vals \cup {NoVal}
<1>1. v \in R /\ log \in [Threads -> [Slots -> [Objs -> R]]]
  BY DEF TypeOK
<1> HIDE DEF R
<1>2. [log EXCEPT ![t][s][o] = v] \in [Threads -> [Slots -> [Objs -> R]]]
  BY <1>1, Update3
<1> QED
  BY <1>2 DEF R

(* The current write set is a slot of the ring.                             *)
LEMMA CurType == ASSUME TypeOK, NEW t \in Threads PROVE Cur(t) \in Slots
  BY WsIndexType DEF Cur, TypeOK

(* The initial values have their types.                                     *)
LEMMA InitTypeInv == Init => TypeInv
<1> SUFFICES ASSUME Init PROVE TypeInv
  OBVIOUS
<1>1. OperandsOK
  BY DEF Init, OperandsOK
<1>2. /\ gWriter \in Nat /\ gCommit \in Nat
      /\ actual \in [Objs -> Vals]
      /\ copyOf \in [Objs -> CopyPtrs \cup {NoCopy}]
      /\ freed \subseteq Objs
  BY ConstantsAssumption DEF Init
<1>3. /\ pc \in [Threads -> Labels] /\ ret \in [Threads -> Returns]
      /\ arg \in [Threads -> Objs \cup {NoObj}]
      /\ ptr \in [Threads -> CopyPtrs \cup {NoCopy}]
      /\ ver \in [Threads -> Nat]
      /\ run \in [Threads -> Nat] /\ localV \in [Threads -> Nat]
      /\ steal \in [Threads -> BOOLEAN] /\ check \in [Threads -> BOOLEAN]
      /\ writeDet \in [Threads -> BOOLEAN] /\ failed \in [Threads -> BOOLEAN]
      /\ isSync \in [Threads -> BOOLEAN] /\ wver \in [Threads -> Nat]
  BY ConstantsAssumption DEF Init, Labels, Returns
<1>4. /\ head \in [Threads -> Nat] /\ wb \in [Threads -> Nat]
      /\ tail \in [Threads -> Nat]
      /\ log \in [Threads -> [Slots -> [Objs -> Vals \cup {NoVal}]]]
      /\ wsRun \in [Threads -> [Slots -> Nat]]
      /\ shape \in [Threads -> [Slots -> {"whole", "end", "inside"}]]
  BY DEF Init, EmptyLog
<1>5. /\ qrun \in [Threads -> [Threads -> Nat]]
      /\ qi \in [Threads -> 0 .. NThreads]
      /\ todo \in [Threads -> SUBSET Objs]
      /\ freeList \in [Threads -> SUBSET Objs]
      /\ view \in [Threads -> [Objs -> CopyPtrs \cup {Actual, Unseen}]]
  BY ConstantsAssumption DEF Init
<1> QED
  BY <1>1, <1>2, <1>3, <1>4, <1>5 DEF TypeInv, TypeOK

(* ReaderLock keeps the types.                                             *)
LEMMA ReaderLockType ==
  ASSUME TypeInv, NEW t \in Threads, ReaderLock(t)
  PROVE TypeInv'
<1>1. UNCHANGED <<mem, clocks, section, locals, ring, logs, quiesce, isSync,
                  wver, todo, freeList>>
  BY DEF ReaderLock
<1>2. pc' \in [Threads -> Labels] /\ ret' \in [Threads -> Returns]
  BY DEF TypeInv, TypeOK, ReaderLock, At, Goto, CallSync, Labels, Returns
<1>3. OperandsOK'
  BY DEF TypeInv, TypeOK, OperandsOK, ReaderLock, Goto, CallSync, locals
<1> QED
  BY <1>1, <1>2, <1>3
     DEF TypeInv, TypeOK, mem, clocks, section, locals, ring, logs, quiesce

(* ReaderUnlock keeps the types.                                           *)
LEMMA ReaderUnlockType ==
  ASSUME TypeInv, NEW t \in Threads, ReaderUnlock(t)
  PROVE TypeInv'
<1>1. UNCHANGED <<mem, clocks, localV, locals, head, wb, logs, quiesce, isSync,
                 wver, todo, freeList>>
  BY DEF ReaderUnlock
<1>2. pc' \in [Threads -> Labels] /\ ret' \in [Threads -> Returns]
  BY DEF TypeInv, TypeOK, ReaderUnlock, Goto, CallSync, Labels, Returns
<1>3. run' \in [Threads -> Nat] /\ tail' \in [Threads -> Nat]
  <2>1. run' = [run EXCEPT ![t] = run[t] + 1]
    BY DEF ReaderUnlock, LeaveSection
  <2>2. tail' = tail \/ tail' = [tail EXCEPT ![t] = tail[t] + 1]
    BY DEF ReaderUnlock
  <2>3. run \in [Threads -> Nat] /\ tail \in [Threads -> Nat]
    BY DEF TypeInv, TypeOK
  <2> QED
    BY <2>1, <2>2, <2>3
<1>4. /\ steal' \in [Threads -> BOOLEAN] /\ check' \in [Threads -> BOOLEAN]
      /\ writeDet' \in [Threads -> BOOLEAN] /\ failed' \in [Threads -> BOOLEAN]
      /\ view' \in [Threads -> [Objs -> CopyPtrs \cup {Actual, Unseen}]]
  BY DEF TypeInv, TypeOK, ReaderUnlock, LeaveSection
<1>5. OperandsOK'
  BY DEF TypeInv, TypeOK, OperandsOK, ReaderUnlock, Goto, CallSync, locals
<1> QED
  BY <1>1, <1>2, <1>3, <1>4, <1>5 DEF TypeInv, TypeOK, mem, clocks, locals,
     logs, quiesce

(* Abort keeps the types.                                                  *)
LEMMA AbortType ==
  ASSUME TypeInv, NEW t \in Threads, Abort(t)
  PROVE TypeInv'
<1>1. UNCHANGED <<mem, clocks, localV, locals, ring, logs, quiesce, ret,
                isSync, wver, freeList>>
  BY DEF Abort
<1>2. pc' \in [Threads -> Labels] /\ run' \in [Threads -> Nat]
  <2>1. run' = [run EXCEPT ![t] = run[t] + 1]
    BY DEF Abort, LeaveSection
  <2>2. \E l \in Labels : pc' = [pc EXCEPT ![t] = l]
    BY DEF Abort, Goto, Labels
  <2>3. run \in [Threads -> Nat] /\ pc \in [Threads -> Labels]
    BY DEF TypeInv, TypeOK
  <2> QED
    BY <2>1, <2>2, <2>3
<1>3. todo' \in [Threads -> SUBSET Objs]
  BY DEF TypeInv, TypeOK, Abort, Locks
<1>4. /\ steal' \in [Threads -> BOOLEAN] /\ check' \in [Threads -> BOOLEAN]
      /\ writeDet' \in [Threads -> BOOLEAN] /\ failed' \in [Threads -> BOOLEAN]
      /\ view' \in [Threads -> [Objs -> CopyPtrs \cup {Actual, Unseen}]]
  BY DEF TypeInv, TypeOK, Abort, LeaveSection
<1>5. OperandsOK'
  BY DEF TypeInv, TypeOK, OperandsOK, Abort, Goto, locals
<1> QED
  BY <1>1, <1>2, <1>3, <1>4, <1>5 DEF TypeInv, TypeOK, mem, clocks, locals,
     ring, logs, quiesce

(* Checkpoint keeps the types.                                             *)
LEMMA CheckpointType ==
  ASSUME TypeInv, NEW t \in Threads, Checkpoint(t)
  PROVE TypeInv'
<1>1. UNCHANGED <<mem, clocks, section, locals, ring, logs, quiesce, isSync,
                 wver, todo, freeList>>
  BY DEF Checkpoint
<1>2. pc' \in [Threads -> Labels] /\ ret' \in [Threads -> Returns]
  BY DEF TypeInv, TypeOK, Checkpoint, Goto, CallSync, Labels, Returns
<1>3. OperandsOK'
  BY DEF TypeInv, TypeOK, OperandsOK, Checkpoint, Goto, CallSync, locals
<1> QED
  BY <1>1, <1>2, <1>3 DEF TypeInv, TypeOK, mem, clocks, section, locals,
     ring, logs, quiesce

(* SyncEnter keeps the types.                                              *)
LEMMA SyncEnterType ==
  ASSUME TypeInv, NEW t \in Threads, SyncEnter(t)
  PROVE TypeInv'
<1>1. UNCHANGED <<mem, clocks, section, arg, ptr, ring, logs, quiesce, ret,
                 isSync, wver, todo, freeList>>
  BY DEF SyncEnter
<1>2. PICK l \in Returns \cup {"publish"} : pc' = [pc EXCEPT ![t] = l]
  BY DEF SyncEnter, Goto, TypeInv, TypeOK
<1>3. pc' \in [Threads -> Labels]
  BY <1>2 DEF TypeInv, TypeOK, Labels, Returns
<1>4. ver' \in [Threads -> Nat]
  <2>1. ver' = ver \/ ver' = [ver EXCEPT ![t] = gWriter + 1]
    BY DEF SyncEnter
  <2>2. ver \in [Threads -> Nat] /\ gWriter \in Nat
    BY DEF TypeInv, TypeOK
  <2> QED
    BY <2>1, <2>2
<1>5. OperandsOK'
  <2>1. l # "deref" /\ l # "cas"
    BY <1>2 DEF Returns
  <2>2. pc \in [Threads -> Labels] /\ OperandsOK
    BY DEF TypeInv, TypeOK
  <2> QED
    BY <1>1, <1>2, <2>1, <2>2 DEF OperandsOK
<1> QED
  BY <1>1, <1>3, <1>4, <1>5 DEF TypeInv, TypeOK, mem, clocks, section,
     locals, ring, logs, quiesce

(* BumpWriter keeps the types.                                             *)
LEMMA BumpWriterType ==
  ASSUME TypeInv, NEW t \in Threads, BumpWriter(t)
  PROVE TypeInv'
<1>1. UNCHANGED <<mem, gCommit, section, locals, ring, logs, qrun, ret, isSync,
                 wver, todo, freeList>>
  BY DEF BumpWriter
<1>2. pc' \in [Threads -> Labels] /\ gWriter' \in Nat
  BY DEF TypeInv, TypeOK, BumpWriter, Goto, Labels
<1>3. qi' \in [Threads -> 0 .. NThreads]
  BY ConstantsAssumption DEF TypeInv, TypeOK, BumpWriter
<1>4. OperandsOK'
  BY DEF TypeInv, TypeOK, OperandsOK, BumpWriter, Goto, locals
<1> QED
  BY <1>1, <1>2, <1>3, <1>4 DEF TypeInv, TypeOK, mem, clocks, section,
     locals, ring, logs, quiesce

(* InitQuiescence keeps the types.                                         *)
LEMMA InitQuiescenceType ==
  ASSUME TypeInv, NEW t \in Threads, InitQuiescence(t)
  PROVE TypeInv'
<1>1. UNCHANGED <<mem, clocks, section, locals, ring, logs, ret, isSync, wver,
                 todo, freeList>>
  BY DEF InitQuiescence
<1>0. qi \in [Threads -> 0 .. NThreads] /\ qi[t] < NThreads
  BY DEF InitQuiescence, TypeInv, TypeOK
<1>2. qi[t] \in Threads /\ qi[t] + 1 \in 0 .. NThreads /\ 0 \in 0 .. NThreads
  BY <1>0, ConstantsAssumption DEF Threads
<1>3. pc' \in [Threads -> Labels]
  BY DEF TypeInv, TypeOK, InitQuiescence, Goto, Labels
<1>4. qi' \in [Threads -> 0 .. NThreads]
  <2> qi' = [qi EXCEPT ![t] = qi[t] + 1] \/ qi' = [qi EXCEPT ![t] = 0]
    BY <1>0 DEF InitQuiescence
  <2> QED
    BY <1>0, <1>2
<1>5. qrun' \in [Threads -> [Threads -> Nat]]
  BY <1>2 DEF TypeInv, TypeOK, InitQuiescence
<1>6. OperandsOK'
  BY DEF TypeInv, TypeOK, OperandsOK, InitQuiescence, Goto, locals
<1> QED
  BY <1>1, <1>3, <1>4, <1>5, <1>6 DEF TypeInv, TypeOK, mem, clocks, section,
     locals, ring, logs

(* WaitQuiescence keeps the types.                                         *)
LEMMA WaitQuiescenceType ==
  ASSUME TypeInv, NEW t \in Threads, WaitQuiescence(t)
  PROVE TypeInv'
<1>1. UNCHANGED <<mem, clocks, section, locals, ring, logs, ret, isSync, wver,
                 todo, freeList>>
  BY DEF WaitQuiescence
<1>0. qi \in [Threads -> 0 .. NThreads] /\ qi[t] < NThreads
  BY DEF WaitQuiescence, TypeInv, TypeOK
<1>2. qi[t] \in Threads /\ qi[t] + 1 \in 0 .. NThreads
  BY <1>0, ConstantsAssumption DEF Threads
<1>3. pc' \in [Threads -> Labels]
  BY DEF TypeInv, TypeOK, WaitQuiescence, Goto, Labels
<1>4. qi' \in [Threads -> 0 .. NThreads]
  <2> qi' = [qi EXCEPT ![t] = qi[t] + 1]
    BY DEF WaitQuiescence
  <2> QED
    BY <1>0, <1>2
<1>5. qrun' \in [Threads -> [Threads -> Nat]]
  BY <1>2 DEF TypeInv, TypeOK, WaitQuiescence
<1>6. OperandsOK'
  BY DEF TypeInv, TypeOK, OperandsOK, WaitQuiescence, Goto, locals
<1> QED
  BY <1>1, <1>3, <1>4, <1>5, <1>6 DEF TypeInv, TypeOK, mem, clocks, section,
     locals, ring, logs

(* WriteBack keeps the types.                                              *)
LEMMA WriteBackType ==
  ASSUME TypeInv, NEW t \in Threads, WriteBack(t)
  PROVE TypeInv'
<1>1. UNCHANGED <<freed, clocks, section, locals, ring, logs, quiesce, pc, ret,
                 isSync, wver, freeList>>
  BY DEF WriteBack
<1>2. PICK s \in Pending(t), o \in todo[t] :
         /\ log[t][s][o] # NoVal
         /\ actual' = [actual EXCEPT ![o] = log[t][s][o]]
         /\ copyOf' = [copyOf EXCEPT ![o] = NoCopy]
         /\ todo' = [todo EXCEPT ![t] = @ \ {o}]
  BY DEF WriteBack
<1>3. s \in Slots /\ o \in Objs
  <2>1. wb[t] \in Nat /\ tail[t] \in Nat /\ todo[t] \subseteq Objs
    BY DEF TypeInv, TypeOK
  <2> QED
    BY <2>1, WsIndexType DEF Pending, SlotsOf
<1>4. log[t][s][o] \in Vals
  BY <1>2, <1>3 DEF TypeInv, TypeOK
<1>5. actual' \in [Objs -> Vals]
  BY <1>2, <1>3, <1>4 DEF TypeInv, TypeOK
<1>6. /\ copyOf' \in [Objs -> CopyPtrs \cup {NoCopy}]
      /\ todo' \in [Threads -> SUBSET Objs]
  BY <1>2, <1>3 DEF TypeInv, TypeOK
<1>7. OperandsOK'
  BY <1>1 DEF TypeInv, OperandsOK, locals
<1> QED
  BY <1>1, <1>5, <1>6, <1>7 DEF TypeInv, TypeOK, clocks, section, locals,
     ring, logs, quiesce

(* Retract keeps the types.                                                *)
LEMMA RetractType ==
  ASSUME TypeInv, NEW t \in Threads, Retract(t)
  PROVE TypeInv'
<1>1. UNCHANGED <<mem, clocks, section, locals, head, tail, logs, quiesce, ret,
                 isSync, todo, freeList>>
  BY DEF Retract
<1>2. /\ pc' \in [Threads -> Labels] /\ wb' \in [Threads -> Nat]
      /\ wver' \in [Threads -> Nat]
  BY ConstantsAssumption DEF TypeInv, TypeOK, Retract, WrittenBack, Goto,
     Labels
<1>3. OperandsOK'
  BY DEF TypeInv, TypeOK, OperandsOK, Retract, Goto, locals
<1> QED
  BY <1>1, <1>2, <1>3 DEF TypeInv, TypeOK, mem, clocks, section, locals,
     ring, logs, quiesce

(* Deref keeps the types.                                                  *)
LEMMA DerefType ==
  ASSUME TypeInv, NEW t \in Threads, NEW o \in Objs, Deref(t, o)
  PROVE TypeInv'
<1>1. UNCHANGED <<mem, clocks, run, localV, steal, check, writeDet, failed,
                 ver, ring, logs, quiesce, ret, isSync, wver, todo, freeList>>
  BY DEF Deref
<1>2. CASE See(t, o, Actual) /\ UNCHANGED <<pc, arg, ptr>>
  BY <1>1, <1>2 DEF TypeInv, TypeOK, OperandsOK, See, mem, clocks, locals,
     ring, logs, quiesce
<1>3. CASE OwnCopy(t, o) /\ See(t, o, copyOf[o]) /\ UNCHANGED <<pc, arg, ptr>>
  <2>1. copyOf[o] \in CopyPtrs
    <3>1. copyOf[o] \in CopyPtrs \/ copyOf[o] = NoCopy
      BY DEF TypeInv, TypeOK
    <3> QED
      BY <1>3, <3>1, ConstantsAssumption DEF OwnCopy, NoCopy, Threads
  <2> QED
    BY <1>1, <1>3, <2>1 DEF TypeInv, TypeOK, OperandsOK, See, mem, clocks,
       locals, ring, logs, quiesce
<1>4. CASE /\ copyOf[o] # NoCopy /\ Goto(t, "deref") /\ UNCHANGED view
           /\ arg' = [arg EXCEPT ![t] = o]
           /\ ptr' = [ptr EXCEPT ![t] = copyOf[o]]
  <2>1. copyOf[o] \in CopyPtrs
    BY <1>4 DEF TypeInv, TypeOK
  <2> QED
    BY <1>1, <1>4, <2>1 DEF TypeInv, TypeOK, OperandsOK, Goto, Labels, mem,
       clocks, locals, ring, logs, quiesce
<1> QED
  BY <1>2, <1>3, <1>4 DEF Deref

(* TryLockHeld keeps the types.                                            *)
LEMMA TryLockHeldType ==
  ASSUME TypeInv, NEW t \in Threads, NEW o \in Objs, TryLockHeld(t, o)
  PROVE TypeInv'
<1>1. UNCHANGED <<mem, clocks, run, localV, steal, check, writeDet, failed,
                arg, ver, ring, logs, quiesce, ret, isSync, wver, todo, freeList>>
  BY DEF TryLockHeld
<1>2. copyOf[o] \in CopyPtrs
  BY DEF TypeInv, TypeOK, TryLockHeld
<1>3. view' \in [Threads -> [Objs -> CopyPtrs \cup {Actual, Unseen}]]
  <2>1. view' = view \/ view' = [view EXCEPT ![t][o] = copyOf[o]]
    BY DEF TryLockHeld, See
  <2>2. view \in [Threads -> [Objs -> CopyPtrs \cup {Actual, Unseen}]]
    BY DEF TypeInv, TypeOK
  <2> QED
    BY <1>2, <2>1, <2>2
<1>4. /\ pc' \in [Threads -> Labels]
      /\ ptr' \in [Threads -> CopyPtrs \cup {NoCopy}]
  <2>1. pc' = pc \/ pc' = [pc EXCEPT ![t] = "request"]
    BY DEF TryLockHeld, Goto
  <2>2. ptr' = ptr \/ ptr' = [ptr EXCEPT ![t] = copyOf[o]]
    BY DEF TryLockHeld
  <2>3. pc \in [Threads -> Labels] /\ "request" \in Labels
    BY DEF TypeInv, TypeOK, Labels
  <2>4. ptr \in [Threads -> CopyPtrs \cup {NoCopy}]
    BY DEF TypeInv, TypeOK
  <2>5. pc' \in [Threads -> Labels]
    BY <2>1, <2>3
  <2>6. ptr' \in [Threads -> CopyPtrs \cup {NoCopy}]
    BY <1>2, <2>2, <2>4
  <2> QED
    BY <2>5, <2>6
<1>5. OperandsOK'
  <2>1. pc \in [Threads -> Labels] /\ OperandsOK /\ At(t, "in")
    BY DEF TypeInv, TypeOK, TryLockHeld
  <2>2. CASE UNCHANGED <<pc, ptr>>
    BY <1>1, <2>1, <2>2 DEF OperandsOK
  <2>3. CASE /\ pc' = [pc EXCEPT ![t] = "request"]
             /\ ptr' = [ptr EXCEPT ![t] = copyOf[o]]
    <3>1. ptr \in [Threads -> CopyPtrs \cup {NoCopy}]
      BY DEF TypeInv, TypeOK
    <3> QED
      BY <1>1, <2>1, <2>3, <3>1 DEF OperandsOK
  <2> QED
    BY <2>2, <2>3 DEF TryLockHeld, Goto
<1> QED
  BY <1>1, <1>3, <1>4, <1>5 DEF TypeInv, TypeOK, mem, clocks, section,
     locals, ring, logs, quiesce

(* SendSyncRequest keeps the types.                                        *)
LEMMA SendSyncRequestType ==
  ASSUME TypeInv, NEW t \in Threads, SendSyncRequest(t)
  PROVE TypeInv'
<1>1. UNCHANGED <<mem, clocks, run, localV, steal, check, writeDet, view, arg,
                 ver, ring, logs, quiesce, ret, wver, todo, freeList>>
  BY DEF SendSyncRequest
<1>2. isSync' \in [Threads -> BOOLEAN]
  <2>1. isSync' = [u \in Threads |-> u \in {t, ptr[t].thread} \/ isSync[u]]
    BY DEF SendSyncRequest
  <2>2. isSync \in [Threads -> BOOLEAN]
    BY DEF TypeInv, TypeOK
  <2> QED
    BY <2>1, <2>2
<1>3. /\ pc' \in [Threads -> Labels] /\ failed' \in [Threads -> BOOLEAN]
      /\ ptr' \in [Threads -> CopyPtrs \cup {NoCopy}]
  BY DEF SendSyncRequest, Fail, Goto, Labels, TypeInv, TypeOK
<1>4. OperandsOK'
  BY DEF SendSyncRequest, Goto, OperandsOK, TypeInv, TypeOK
<1> QED
  BY <1>1, <1>2, <1>3, <1>4 DEF TypeInv, TypeOK, mem, clocks, section,
     locals, ring, logs, quiesce

(* TryLockCas keeps the types.                                             *)
LEMMA TryLockCasType ==
  ASSUME TypeInv, NEW t \in Threads, TryLockCas(t)
  PROVE TypeInv'
<1>1. /\ Cur(t) \in Slots /\ arg[t] \in Objs
      /\ CopyPtr(t, Cur(t)) \in CopyPtrs
  BY CurType DEF TypeInv, OperandsOK, At, TryLockCas, CopyPtr, CopyPtrs
<1>2. UNCHANGED <<actual, freed, clocks, run, localV, steal, check, writeDet,
                  ptr, ver, ring, wsRun, quiesce, ret, isSync, wver, todo,
                  freeList>>
  BY DEF TryLockCas
<1>3. pc' \in [Threads -> Labels]
  BY DEF At, Goto, Labels, TypeInv, TypeOK, TryLockCas
<1>4. /\ arg' \in [Threads -> Objs \cup {NoObj}]
      /\ failed' \in [Threads -> BOOLEAN]
  BY DEF Fail, TypeInv, TypeOK, TryLockCas
<1>5. copyOf' \in [Objs -> CopyPtrs \cup {NoCopy}]
  <2>1. \/ copyOf' = copyOf
        \/ copyOf' = [copyOf EXCEPT ![arg[t]] = CopyPtr(t, Cur(t))]
    BY DEF TryLockCas
  <2>2. copyOf \in [Objs -> CopyPtrs \cup {NoCopy}]
    BY DEF TypeInv, TypeOK
  <2> QED
    BY <1>1, <2>1, <2>2
<1>6. log' \in [Threads -> [Slots -> [Objs -> Vals \cup {NoVal}]]]
  <2>1. log' = log \/ log' = [log EXCEPT ![t][Cur(t)][arg[t]] = actual[arg[t]]]
    BY DEF TryLockCas
  <2>2. actual[arg[t]] \in Vals
    BY <1>1 DEF TypeInv, TypeOK
  <2>3. CASE log' = log
    BY <2>3 DEF TypeInv, TypeOK
  <2>4. CASE log' = [log EXCEPT ![t][Cur(t)][arg[t]] = actual[arg[t]]]
    BY <1>1, <2>2, <2>4, LogEntryType DEF TypeInv
  <2> QED
    BY <2>1, <2>3, <2>4
<1>7. shape' \in [Threads -> [Slots -> {"whole", "end", "inside"}]]
  <2>1. \E x \in {"whole", "end", "inside"} :
          shape' = [shape EXCEPT ![t][Cur(t)] = x]
    BY <1>1 DEF TryLockCas, TypeInv, TypeOK
  <2>2. shape \in [Threads -> [Slots -> {"whole", "end", "inside"}]]
    BY DEF TypeInv, TypeOK
  <2> QED
    BY <1>1, <2>1, <2>2
<1>8. view' \in [Threads -> [Objs -> CopyPtrs \cup {Actual, Unseen}]]
  <2>1. \/ view' = view
        \/ view' = [view EXCEPT ![t][arg[t]] = CopyPtr(t, Cur(t))]
    BY DEF TryLockCas, See
  <2>2. view \in [Threads -> [Objs -> CopyPtrs \cup {Actual, Unseen}]]
    BY DEF TypeInv, TypeOK
  <2> QED
    BY <1>1, <2>1, <2>2
<1>9. OperandsOK'
  BY DEF OperandsOK, Goto, TypeInv, TypeOK, TryLockCas
<1> QED
  BY <1>2, <1>3, <1>4, <1>5, <1>6, <1>7, <1>8, <1>9
     DEF TypeInv, TypeOK, mem, clocks, section, locals, ring, logs, quiesce

(* Write keeps the types.                                                  *)
LEMMA WriteType ==
  ASSUME TypeInv, NEW t \in Threads, NEW o \in Objs, NEW v \in Vals,
         Assigns(t, o, v)
  PROVE TypeInv'
<1>1. /\ UNCHANGED <<actual, copyOf, clocks, section, locals, ring, wsRun,
                     shape, quiesce, pc, ret, isSync, wver, todo>>
      /\ freed' \subseteq freed
      /\ freeList' = freeList \/ \E q \in Objs : Free(t, q)
  BY DEF Assigns
<1>2. log' \in [Threads -> [Slots -> [Objs -> Vals \cup {NoVal}]]]
  BY CurType, LogEntryType DEF Assigns, Assign, TypeInv
<1>3. OperandsOK'
  BY <1>1 DEF TypeInv, OperandsOK, locals
<1>4. freed' \subseteq Objs
  BY <1>1 DEF TypeInv, TypeOK
<1>5. freeList' \in [Threads -> SUBSET Objs]
  <2>1. freeList \in [Threads -> SUBSET Objs]
    BY DEF TypeInv, TypeOK
  <2>2. ASSUME NEW q \in Objs, Free(t, q)
        PROVE freeList' \in [Threads -> SUBSET Objs]
    <3>1. freeList[t] \cup {q} \in SUBSET Objs
      BY <2>1
    <3> QED
      BY <2>1, <2>2, <3>1 DEF Free
  <2> QED
    BY <1>1, <2>1, <2>2
<1> QED
  BY <1>1, <1>2, <1>3, <1>4, <1>5
     DEF TypeInv, TypeOK, clocks, section, locals, ring, quiesce

(* A step of any thread keeps the types: the calls that change little here, *)
(* the others by the lemma of their name.                                  *)
LEMMA StepTypeInv ==
  ASSUME TypeInv, NEW t \in Threads, LibraryStep(t) \/ ClientStep(t)
  PROVE TypeInv'
<1> USE DEF At, Goto, CallSync, Labels, Returns,
            mem, clocks, section, locals, ring, logs, quiesce
<1>2. CASE Register(t)
  BY <1>2 DEF Register, TypeInv, TypeOK, OperandsOK
<1>3. CASE RegVersion(t)
  BY <1>3 DEF RegVersion, TypeInv, TypeOK, OperandsOK
<1>4. CASE RegCommit(t)
  BY <1>4 DEF RegCommit, SyncSeen, TypeInv, TypeOK, OperandsOK
<1>5. CASE DerefCheck(t)
  BY <1>5 DEF DerefCheck, See, Steals, TypeInv, TypeOK, OperandsOK
<1>6. CASE UnlockObj(t)
  BY <1>6 DEF UnlockObj, TypeInv, TypeOK, OperandsOK
<1>7. CASE ResetAborted(t)
  BY <1>7 DEF ResetAborted, EmptyLog, Cur, TypeInv, TypeOK, OperandsOK
<1>8. CASE ThreadFinish(t)
  BY <1>8 DEF ThreadFinish, TypeInv, TypeOK, OperandsOK
<1>9. CASE Publish(t)
  BY <1>9 DEF Publish, TypeInv, TypeOK, OperandsOK
<1>10. CASE ResetSets(t)
  BY <1>10 DEF ResetSets, EmptyLog, Locks, TypeInv, TypeOK, OperandsOK
<1>11. CASE BumpCommit(t)
  BY <1>11 DEF BumpCommit, TypeInv, TypeOK, OperandsOK
<1>12. CASE ProcessFree(t)
  BY <1>12 DEF ProcessFree, TypeInv, TypeOK, OperandsOK
<1>13. ASSUME NEW o \in Objs, TryLockFree(t, o)
       PROVE TypeInv'
  BY <1>13 DEF TryLockFree, Cur, TypeInv, TypeOK, OperandsOK
<1> HIDE DEF At, Goto, CallSync, Labels, Returns,
             mem, clocks, section, locals, ring, logs, quiesce
<1> QED
  BY <1>2, <1>3, <1>4, <1>5, <1>6, <1>7, <1>8,
     <1>9, <1>10, <1>11, <1>12, <1>13,
     ReaderLockType, ReaderUnlockType, AbortType, CheckpointType,
     SyncEnterType, BumpWriterType, InitQuiescenceType,
     WaitQuiescenceType, WriteBackType, RetractType,
     DerefType, TryLockHeldType, SendSyncRequestType, TryLockCasType, WriteType
     DEF LibraryStep, ClientStep

LEMMA NextTypeInv == TypeInv /\ [Next]_vars => TypeInv'
<1>1. ASSUME TypeInv, UNCHANGED vars PROVE TypeInv'
  BY <1>1 DEF vars, mem, clocks, section, locals, ring, logs, quiesce,
     TypeInv, TypeOK, OperandsOK
<1> QED
  BY <1>1, StepTypeInv, CallIsStep DEF Next, Terminated

(* Every variable keeps its type whatever the client does.                 *)
THEOREM TypeCorrect == Spec => []TypeOK
<1>1. TypeInv => TypeOK
  BY DEF TypeInv
<1> QED
  BY <1>1, InitTypeInv, NextTypeInv, PTL DEF Spec

-----------------------------------------------------------------------------
(* rlu_synchronize or rlu_writeback_and_unlock is running, up to the point  *)
(* where the pending write sets have been written back (rlu.c:536-576).     *)
Syncing(t) == pc[t] \in {"sync", "publish", "clock", "initq", "waitq",
                         "reset", "writeback"}

(* The current write set is in use: by a section, or by the abort that      *)
(* unlocks what it locked (rlu.c:945-963).                                  *)
Owns(t) == InSection(t) \/ At(t, "unlockobjs")

(* The three counters of the ring of write sets never cross, and each of    *)
(* the two windows between them fits its half of the ring. Outside a sync   *)
(* there is room for one more committed set: rlu_commit_write_set syncs     *)
(* when the window is full (rlu.c:601-605).                                 *)
RingOK(t) ==
  /\ head[t] <= wb[t] /\ wb[t] <= tail[t]
  /\ wb[t] - head[t] <= MaxActiveSets
  /\ tail[t] - wb[t] <= MaxActiveSets
  /\ ~Syncing(t) => tail[t] - wb[t] < MaxActiveSets
  /\ At(t, "writeback") => head[t] = wb[t]

(* Write set s is pending, waiting for reuse, or current.                   *)
InUse(t, s) ==
  \/ s \in SlotsOf(t, head[t], tail[t])
  \/ s = Cur(t) /\ Owns(t)

(* A write set that is not in use was emptied by rlu_reset_write_set.       *)
EmptyOK(t) ==
  \A s \in Slots : ~InUse(t, s) => Locks(t, s) = {} /\ shape[t][s] = "whole"

(* Until is_write_detected is set (rlu.c:900) the current set is empty, so  *)
(* a section that wrote nothing may skip rlu_commit_write_set (rlu.c:791).  *)
DetectOK(t) ==
  /\ InSection(t) /\ ~writeDet[t] =>
       Locks(t, Cur(t)) = {} /\ shape[t][Cur(t)] = "whole"
  /\ pc[t] \in {"regversion", "regcommit"} => ~writeDet[t]
  /\ At(t, "cas") => writeDet[t]

(* rlu_unlock_objs walks entries of the current set only.                   *)
TodoOK(t) ==
  At(t, "unlockobjs") => todo[t] \subseteq Locks(t, Cur(t))

(* What each thread keeps true of its own ring, unless a run-time assertion *)
(* has stopped it.                                                          *)
ThreadInv(t) ==
  ~At(t, "crashed") => RingOK(t) /\ EmptyOK(t) /\ DetectOK(t) /\ TodoOK(t)

(* The inductive invariant: LocksMatchLogs alone is not inductive, since a  *)
(* reset or a commit keeps the locks and the logs in step only if the       *)
(* counters are ordered and the unused sets are empty.                      *)
LockInv == TypeInv /\ (\A t \in Threads : ThreadInv(t)) /\ LocksMatchLogs

(* The division facts the solver does not find by itself.                   *)
LEMMA Quotient == ASSUME NEW m \in Nat \ {0}, NEW c \in Nat
  PROVE c % m \in Int /\ \E q \in Nat : c = m * q + (c % m)
<1>1. c = m * (c \div m) + (c % m) /\ c \div m \in Nat
  OBVIOUS
<1>2. c % m \in Int
  OBVIOUS
<1> QED
  BY <1>1, <1>2

(* A positive multiple is no smaller.                                       *)
LEMMA Multiple == ASSUME NEW m \in Nat, NEW q \in Nat, q >= 1 PROVE m * q >= m
  OBVIOUS

(* Counters less than one lap apart name different slots of a ring.         *)
LEMMA ModDistinct ==
  ASSUME NEW m \in Nat \ {0}, NEW c \in Nat, NEW d \in Nat, c < d, d < c + m
  PROVE c % m # d % m
<1> SUFFICES ASSUME c % m = d % m PROVE FALSE OBVIOUS
<1>1. PICK q \in Nat : c = m * q + (c % m)
  BY Quotient
<1>2. PICK p \in Nat : d = m * p + (d % m)
  BY Quotient
<1>3. c % m \in Int
  BY Quotient
<1>4. m * p - m * q = d - c
  BY <1>1, <1>2, <1>3
<1>5. CASE p <= q
  <2>1. q - p \in Nat
    BY <1>5
  <2>2. m * (q - p) \in Nat
    BY <2>1
  <2>3. m * (q - p) = m * q - m * p
    OBVIOUS
  <2> QED
    BY <1>4, <2>2, <2>3
<1>6. CASE p > q
  <2>1. p - q \in Nat /\ p - q >= 1
    BY <1>6
  <2>2. m * (p - q) >= m
    BY <2>1, Multiple
  <2>3. m * (p - q) = m * p - m * q
    OBVIOUS
  <2> QED
    BY <1>4, <2>2, <2>3
<1> QED BY <1>5, <1>6

(* The counters of a thread are naturals and its current set is a slot.     *)
LEMMA ThreadTypes ==
  ASSUME TypeOK, NEW t \in Threads
  PROVE /\ head[t] \in Nat /\ wb[t] \in Nat /\ tail[t] \in Nat
        /\ pc[t] \in Labels /\ ret[t] \in Returns /\ writeDet[t] \in BOOLEAN
        /\ todo[t] \subseteq Objs /\ Cur(t) \in Slots
  BY CurType DEF TypeOK

(* Write-set counters less than one lap apart name different sets           *)
(* (WS_INDEX, rlu.c:40).                                                    *)
LEMMA IndexDistinct ==
  ASSUME NEW c \in Nat, NEW d \in Nat, c < d, d < c + MaxWriteSets
  PROVE WsIndex(c) # WsIndex(d)
<1>1. MaxWriteSets \in Nat \ {0}
  BY ConstantsAssumption
<1> QED
  BY <1>1, ModDistinct DEF WsIndex

(* Outside a sync the current set is neither pending nor waiting for reuse. *)
LEMMA CurFresh ==
  ASSUME TypeOK, NEW t \in Threads, RingOK(t), ~Syncing(t)
  PROVE Cur(t) \notin SlotsOf(t, head[t], tail[t])
<1>1. /\ head[t] \in Nat /\ wb[t] \in Nat /\ tail[t] \in Nat
      /\ MaxWriteSets \in Nat /\ MaxActiveSets \in Nat
      /\ 2 * MaxActiveSets <= MaxWriteSets
  BY ThreadTypes, ConstantsAssumption
<1>2. tail[t] < head[t] + MaxWriteSets
  BY <1>1 DEF RingOK
<1>3. ASSUME NEW c \in head[t] .. tail[t] - 1 PROVE WsIndex(c) # Cur(t)
  <2>1. c \in Nat /\ c < tail[t] /\ tail[t] < c + MaxWriteSets
    BY <1>1, <1>2
  <2> QED
    BY <1>1, <2>1, IndexDistinct DEF Cur
<1> QED
  BY <1>3 DEF SlotsOf

(* The sets that a sync resets (rlu.c:248-262) are none of those it is      *)
(* about to write back.                                                     *)
LEMMA PendingNotOld ==
  ASSUME TypeOK, NEW t \in Threads, RingOK(t)
  PROVE Pending(t) \cap OldSets(t) = {}
<1>1. /\ head[t] \in Nat /\ wb[t] \in Nat /\ tail[t] \in Nat
      /\ MaxWriteSets \in Nat /\ MaxActiveSets \in Nat
      /\ 2 * MaxActiveSets <= MaxWriteSets
  BY ThreadTypes, ConstantsAssumption
<1>2. tail[t] <= head[t] + MaxWriteSets
  BY <1>1 DEF RingOK
<1>3. ASSUME NEW c \in head[t] .. wb[t] - 1, NEW d \in wb[t] .. tail[t] - 1
      PROVE WsIndex(c) # WsIndex(d)
  <2>1. c \in Nat /\ d \in Nat /\ c < d /\ d < c + MaxWriteSets
    BY <1>1, <1>2
  <2> QED
    BY <2>1, IndexDistinct
<1> QED
  BY <1>3 DEF Pending, OldSets, SlotsOf

(* The windows between the counters are sets of slots.                      *)
LEMMA SlotsTypes ==
  ASSUME TypeOK, NEW t \in Threads
  PROVE Pending(t) \subseteq Slots /\ OldSets(t) \subseteq Slots
<1>1. head[t] \in Nat /\ wb[t] \in Nat /\ tail[t] \in Nat
  BY ThreadTypes
<1> QED
  BY <1>1, WsIndexType DEF Pending, OldSets, SlotsOf

(* A step of t leaves the private data of the other threads alone.         *)
SameData(u) ==
  /\ pc'[u] = pc[u] /\ head'[u] = head[u] /\ wb'[u] = wb[u]
  /\ tail'[u] = tail[u] /\ log'[u] = log[u] /\ shape'[u] = shape[u]
  /\ writeDet'[u] = writeDet[u] /\ todo'[u] = todo[u]
Frame(t) == \A u \in Threads \ {t} : SameData(u)

(* A thread whose private data a step leaves alone keeps its invariant and  *)
(* what it holds.                                                           *)
LEMMA SameInv ==
  ASSUME NEW u \in Threads, SameData(u)
  PROVE /\ ThreadInv(u) => ThreadInv(u)'
        /\ \A s \in Slots : Held(u, s)' = Held(u, s)
<1> USE DEF SameData
<1>1. /\ Cur(u)' = Cur(u) /\ Pending(u)' = Pending(u)
      /\ \A s \in Slots : Locks(u, s)' = Locks(u, s)
      /\ InSection(u)' = InSection(u) /\ Owns(u)' = Owns(u)
      /\ Syncing(u)' = Syncing(u)
      /\ SlotsOf(u, head[u], tail[u])' = SlotsOf(u, head[u], tail[u])
  BY DEF Cur, Pending, Locks, InSection, Owns, Syncing, SlotsOf, At
<1>2. \A s \in Slots : Held(u, s)' = Held(u, s)
  BY <1>1 DEF Held, At
<1>3. \A s \in Slots : InUse(u, s)' = InUse(u, s)
  BY <1>1 DEF InUse
<1>4. RingOK(u)' = RingOK(u)
  BY <1>1 DEF RingOK, At
<1>5. EmptyOK(u)' = EmptyOK(u)
  BY <1>1, <1>3 DEF EmptyOK
<1>6. Locks(u, Cur(u))' = Locks(u, Cur(u))
  BY <1>1 DEF Locks
<1>7. DetectOK(u)' = DetectOK(u) /\ TodoOK(u)' = TodoOK(u)
  BY <1>1, <1>6 DEF DetectOK, TodoOK, At
<1> QED
  BY <1>2, <1>4, <1>5, <1>7 DEF ThreadInv, At

(* A step that changes neither copy pointers nor what is held keeps         *)
(* LocksMatchLogs.                                                          *)
LEMMA LocksKept ==
  ASSUME LocksMatchLogs, ~Crashed, copyOf' = copyOf,
         \A u \in Threads, s \in Slots : Held(u, s)' = Held(u, s)
  PROVE LocksMatchLogs'
  BY DEF LocksMatchLogs, CopyPtr

(* A step that touches neither logs nor locks, between two places of the   *)
(* same kind.                                                              *)
Kind(l) ==
  CASE l \in {"in", "deref", "cas", "request"} -> "section"
    [] l \in {"unlockobjs", "writeback", "crashed"} -> "special"
    [] OTHER -> "outside"

(* Such a step preserves the invariant when it enters a sync or leaves one  *)
(* only with the counters in order.                                         *)
LEMMA QuietStep ==
  ASSUME LockInv, TypeInv', ~Crashed, NEW t \in Threads, Frame(t),
         UNCHANGED <<head, wb, tail, log, shape, todo, copyOf>>,
         Kind(pc[t]) = Kind(pc'[t]), Kind(pc[t]) # "special",
         Syncing(t)' => Syncing(t) \/ tail[t] - wb[t] < MaxActiveSets,
         ~Syncing(t)' => ~Syncing(t) \/ tail[t] = head[t],
         writeDet'[t] \/ writeDet'[t] = writeDet[t]
           \/ pc'[t] \in {"regversion", "regcommit"},
         pc'[t] = "cas" => writeDet'[t],
         pc'[t] \in {"regversion", "regcommit"} => ~writeDet'[t]
  PROVE LockInv'
<1>1. TypeOK /\ TypeOK' /\ ThreadInv(t) /\ LocksMatchLogs
  BY DEF LockInv, TypeInv
<1>2. /\ InSection(t)' = InSection(t) /\ ~At(t, "crashed")
      /\ ~At(t, "unlockobjs") /\ ~At(t, "unlockobjs")'
      /\ ~At(t, "writeback") /\ ~At(t, "writeback")'
      /\ Owns(t)' = Owns(t)
  BY DEF Kind, InSection, Owns, At
<1>3. /\ Cur(t)' = Cur(t) /\ Pending(t)' = Pending(t)
      /\ \A s \in Slots : Locks(t, s)' = Locks(t, s)
      /\ SlotsOf(t, head[t], tail[t])' = SlotsOf(t, head[t], tail[t])
      /\ Cur(t) \in Slots
  BY <1>1, ThreadTypes DEF Cur, Pending, Locks, SlotsOf
<1>4. \A s \in Slots : Held(t, s)' = Held(t, s)
  BY <1>2, <1>3 DEF Held
<1>5. \A u \in Threads, s \in Slots : Held(u, s)' = Held(u, s)
  BY <1>4, SameInv DEF Frame
<1>6. LocksMatchLogs'
  BY <1>1, <1>5, LocksKept
<1>7. RingOK(t) /\ EmptyOK(t) /\ DetectOK(t)
  BY <1>1, <1>2 DEF ThreadInv
<1>8. RingOK(t)'
  <2>1. /\ head[t] \in Nat /\ wb[t] \in Nat /\ tail[t] \in Nat
        /\ MaxActiveSets \in Nat /\ MaxActiveSets >= 1
    BY <1>1, ThreadTypes, ConstantsAssumption
  <2>2. ~Syncing(t)' => tail[t] - wb[t] < MaxActiveSets
    BY <1>7, <2>1 DEF RingOK
  <2> QED
    BY <1>2, <1>7, <2>2 DEF RingOK
<1>9. EmptyOK(t)'
  <2>1. \A s \in Slots : InUse(t, s)' = InUse(t, s)
    BY <1>2, <1>3 DEF InUse
  <2> QED
    BY <1>3, <1>7, <2>1 DEF EmptyOK
<1>10. DetectOK(t)'
  <2>1. Locks(t, Cur(t))' = Locks(t, Cur(t))
    BY <1>3 DEF Locks
  <2>2. InSection(t)' /\ ~writeDet'[t] => ~writeDet[t]
    BY DEF InSection
  <2> QED
    BY <1>2, <1>3, <1>7, <2>1, <2>2 DEF DetectOK, At
<1>11. ThreadInv(t)'
  BY <1>2, <1>8, <1>9, <1>10 DEF ThreadInv, TodoOK
<1> QED
  BY <1>6, <1>11, SameInv DEF LockInv, Frame

(* QuietStep for the actions that only move the program counter.            *)
LEMMA QuietGoto ==
  ASSUME LockInv, TypeInv', ~Crashed, NEW t \in Threads, NEW l,
         pc' = [pc EXCEPT ![t] = l], writeDet' = writeDet,
         UNCHANGED <<head, wb, tail, log, shape, todo, copyOf>>,
         Kind(pc[t]) = Kind(l), Kind(pc[t]) # "special",
         Syncing(t)' => Syncing(t) \/ tail[t] - wb[t] < MaxActiveSets,
         ~Syncing(t)' => ~Syncing(t) \/ tail[t] = head[t],
         l # "cas",
         l = "regversion" => FALSE,
         l = "regcommit" => ~writeDet[t]
  PROVE LockInv'
<1>1. pc'[t] = l /\ pc \in [Threads -> Labels]
  BY DEF LockInv, TypeInv, TypeOK
<1>2. Frame(t)
  BY <1>1 DEF Frame, SameData
<1> QED
  BY <1>1, <1>2, QuietStep

(* The thread is not in a sync, so it has room for one more write set.     *)
LEMMA Room ==
  ASSUME LockInv, NEW t \in Threads, ~At(t, "crashed"), ~Syncing(t)
  PROVE tail[t] - wb[t] < MaxActiveSets
  BY DEF LockInv, ThreadInv, RingOK

(* Steps of a thread outside of its sections and write-backs.              *)
LEMMA OutsideSteps ==
  ASSUME LockInv, TypeInv', ~Crashed, NEW t \in Threads,
         \/ ReaderLock(t) \/ Checkpoint(t) \/ ThreadFinish(t) \/ SyncEnter(t)
         \/ Publish(t) \/ BumpWriter(t) \/ InitQuiescence(t)
         \/ WaitQuiescence(t) \/ BumpCommit(t) \/ ProcessFree(t)
  PROVE LockInv'
<1> USE DEF mem, clocks, section, locals, ring, logs, quiesce
<1>1. UNCHANGED <<head, wb, tail, log, shape, todo, copyOf, writeDet>>
  BY DEF ReaderLock, Checkpoint, ThreadFinish, SyncEnter, Publish, BumpWriter,
         InitQuiescence, WaitQuiescence, BumpCommit, ProcessFree
<1>2. TypeOK /\ pc \in [Threads -> Labels] /\ ret[t] \in Returns
  BY ThreadTypes DEF LockInv, TypeInv, TypeOK
<1>3. CASE ReaderLock(t) \/ Checkpoint(t) \/ ThreadFinish(t)
  <2>1. PICK l \in {"sync", "register", "idle"} : pc' = [pc EXCEPT ![t] = l]
    BY <1>3 DEF ReaderLock, Checkpoint, ThreadFinish, CallSync, Goto
  <2>2. pc[t] \in {"idle", "checkpoint", "finish"}
    BY <1>3 DEF ReaderLock, Checkpoint, ThreadFinish, At
  <2>3. ~Syncing(t) /\ ~At(t, "crashed")
    BY <2>2 DEF Syncing, At
  <2>4. tail[t] - wb[t] < MaxActiveSets
    BY <2>3, Room
  <2> QED
    BY <1>1, <2>1, <2>2, <2>3, <2>4, QuietGoto DEF Kind
<1>4. CASE SyncEnter(t)
  <2>0. \/ pc' = [pc EXCEPT ![t] = "publish"]
        \/ pc' = [pc EXCEPT ![t] = ret[t]] /\ tail[t] = head[t]
    BY <1>4 DEF SyncEnter, NothingToSync, Goto
  <2>1. PICK l \in Returns \cup {"publish"} :
          /\ pc' = [pc EXCEPT ![t] = l]
          /\ l = "publish" \/ tail[t] = head[t]
    BY <1>2, <2>0
  <2>2. pc[t] = "sync" /\ Syncing(t) /\ pc'[t] = l
    BY <1>2, <1>4, <2>1 DEF SyncEnter, Syncing, At
  <2>3. ~Syncing(t)' => tail[t] = head[t]
    BY <2>1, <2>2 DEF Syncing
  <2> QED
    BY <1>1, <2>1, <2>2, <2>3, QuietGoto DEF Kind, Returns
<1>5. CASE \/ Publish(t) \/ BumpWriter(t) \/ InitQuiescence(t)
           \/ WaitQuiescence(t)
  <2>1. PICK l \in {"clock", "initq", "waitq", "reset"} :
          pc' = [pc EXCEPT ![t] = l]
    BY <1>2, <1>5 DEF Publish, BumpWriter, InitQuiescence, WaitQuiescence,
                      Goto, At
  <2>2. pc[t] \in {"publish", "clock", "initq", "waitq"} /\ pc'[t] = l
    BY <1>2, <1>5, <2>1 DEF Publish, BumpWriter, InitQuiescence,
                            WaitQuiescence, At
  <2>3. Syncing(t) /\ Syncing(t)'
    BY <2>1, <2>2 DEF Syncing
  <2> QED
    BY <1>1, <2>1, <2>2, <2>3, QuietGoto DEF Kind
<1>6. CASE BumpCommit(t) \/ ProcessFree(t)
  <2>1. PICK l \in Returns \cup {"free"} : pc' = [pc EXCEPT ![t] = l]
    BY <1>2, <1>6 DEF BumpCommit, ProcessFree, Goto
  <2>2. pc[t] \in {"commit", "free"}
    BY <1>6 DEF BumpCommit, ProcessFree, At
  <2>3. ~Syncing(t) /\ ~At(t, "crashed")
    BY <2>2 DEF Syncing, At
  <2>4. tail[t] - wb[t] < MaxActiveSets
    BY <2>3, Room
  <2> QED
    BY <1>1, <2>1, <2>2, <2>3, <2>4, QuietGoto DEF Kind, Returns
<1> QED
  BY <1>3, <1>4, <1>5, <1>6

(* Steps into and within a section that lock nothing.                      *)
LEMMA RegisterStep ==
  ASSUME LockInv, TypeInv', ~Crashed, NEW t \in Threads,
         Register(t) \/ RegVersion(t)
  PROVE LockInv'
<1> USE DEF mem, clocks, section, locals, ring, logs, quiesce
<1>1. UNCHANGED <<head, wb, tail, log, shape, todo, copyOf>>
  BY DEF Register, RegVersion
<1>2. pc \in [Threads -> Labels] /\ writeDet \in [Threads -> BOOLEAN]
  BY DEF LockInv, TypeInv, TypeOK
<1>3. PICK l \in {"regversion", "regcommit"} : pc' = [pc EXCEPT ![t] = l]
  BY DEF Register, RegVersion, Goto
<1>4. /\ pc[t] \in {"register", "regversion"}
      /\ \/ writeDet' = [writeDet EXCEPT ![t] = FALSE]
         \/ writeDet' = writeDet /\ pc[t] = "regversion"
  BY DEF Register, RegVersion, At
<1>5. Frame(t) /\ pc'[t] = l
  BY <1>1, <1>2, <1>3, <1>4 DEF Frame, SameData
<1>6. ~writeDet'[t]
  <2>1. pc[t] = "regversion" => ~writeDet[t]
    BY DEF LockInv, ThreadInv, DetectOK, At
  <2> QED
    BY <1>2, <1>4, <2>1
<1>7. ~Syncing(t) /\ ~Syncing(t)' /\ ~At(t, "crashed")
  BY <1>3, <1>4, <1>5 DEF Syncing, At
<1> QED
  BY <1>1, <1>3, <1>4, <1>5, <1>6, <1>7, QuietStep DEF Kind

(* Reads, and the parts of RLU_TRY_LOCK before its compare-and-swap.        *)
LEMMA ReadStep ==
  ASSUME LockInv, TypeInv', ~Crashed, NEW t \in Threads,
         \/ \E o \in Objs :
              Deref(t, o) \/ TryLockHeld(t, o) \/ TryLockFree(t, o)
         \/ DerefCheck(t) \/ SendSyncRequest(t)
  PROVE LockInv'
<1> USE DEF mem, clocks, section, locals, ring, logs, quiesce
<1>1. UNCHANGED <<head, wb, tail, log, shape, todo, copyOf>>
  BY DEF Deref, DerefCheck, TryLockHeld, SendSyncRequest, TryLockFree
<1>2. pc \in [Threads -> Labels] /\ writeDet \in [Threads -> BOOLEAN]
  BY DEF LockInv, TypeInv, TypeOK
<1>3. \/ /\ writeDet' = writeDet
         /\ \/ pc' = pc
            \/ \E l \in {"in", "deref", "request"} : pc' = [pc EXCEPT ![t] = l]
      \/ /\ writeDet' = [writeDet EXCEPT ![t] = TRUE]
         /\ pc' = [pc EXCEPT ![t] = "cas"]
  <2>1. CASE DerefCheck(t) \/ \E o \in Objs : Deref(t, o)
    BY <2>1 DEF Deref, DerefCheck, Goto
  <2>2. CASE SendSyncRequest(t) \/ \E o \in Objs : TryLockHeld(t, o)
    BY <2>2 DEF TryLockHeld, SendSyncRequest, Goto
  <2>3. CASE \E o \in Objs : TryLockFree(t, o)
    BY <2>3 DEF TryLockFree, Goto
  <2> QED
    BY <2>1, <2>2, <2>3
<1>4. pc[t] \in {"in", "deref", "request"}
  BY DEF Deref, DerefCheck, TryLockHeld, SendSyncRequest, TryLockFree, At
<1>5. /\ Frame(t) /\ pc'[t] \in {"in", "deref", "request", "cas"}
      /\ pc'[t] = "cas" => writeDet'[t]
      /\ writeDet'[t] \/ writeDet'[t] = writeDet[t]
  BY <1>1, <1>2, <1>3, <1>4 DEF Frame, SameData
<1>6. ~Syncing(t) /\ ~Syncing(t)'
  BY <1>4, <1>5 DEF Syncing
<1> QED
  BY <1>1, <1>4, <1>5, <1>6, QuietStep DEF Kind

(* A section starts with an empty log.                                     *)
LEMMA EnterStep ==
  ASSUME LockInv, TypeInv', ~Crashed, NEW t \in Threads, RegCommit(t)
  PROVE LockInv'
<1> USE DEF mem, clocks, section, locals, ring, logs, quiesce
<1>1. UNCHANGED <<head, wb, tail, log, shape, todo, copyOf, writeDet>>
  BY DEF RegCommit
<1>2. TypeOK /\ ThreadInv(t) /\ LocksMatchLogs /\ pc \in [Threads -> Labels]
  BY DEF LockInv, TypeInv, TypeOK
<1>3. pc[t] = "regcommit" /\ pc'[t] = "in" /\ Frame(t)
  BY <1>1, <1>2 DEF RegCommit, At, Goto, Frame, SameData
<1>4. RingOK(t) /\ EmptyOK(t) /\ ~writeDet[t] /\ ~Syncing(t)
  BY <1>2, <1>3 DEF ThreadInv, DetectOK, At, Syncing
<1>5. Locks(t, Cur(t)) = {} /\ shape[t][Cur(t)] = "whole" /\ Cur(t) \in Slots
  <2>1. Cur(t) \in Slots /\ Cur(t) \notin SlotsOf(t, head[t], tail[t])
    BY <1>2, <1>4, CurFresh, ThreadTypes
  <2>2. ~InUse(t, Cur(t))
    BY <1>3, <2>1 DEF InUse, Owns, InSection, At
  <2> QED
    BY <1>4, <2>1, <2>2 DEF EmptyOK
<1>6. /\ Cur(t)' = Cur(t) /\ Pending(t)' = Pending(t)
      /\ \A s \in Slots : Locks(t, s)' = Locks(t, s)
      /\ SlotsOf(t, head[t], tail[t])' = SlotsOf(t, head[t], tail[t])
      /\ Locks(t, Cur(t))' = Locks(t, Cur(t))
  BY <1>1 DEF Cur, Pending, Locks, SlotsOf
<1>7. \A s \in Slots : Held(t, s)' = Held(t, s)
  BY <1>3, <1>5, <1>6 DEF Held, InSection, At
<1>8. LocksMatchLogs'
  <2>1. \A u \in Threads, s \in Slots : Held(u, s)' = Held(u, s)
    BY <1>3, <1>7, SameInv DEF Frame
  <2> QED
    BY <1>1, <1>2, <2>1, LocksKept
<1>9. RingOK(t)'
  BY <1>1, <1>3, <1>4 DEF RingOK, Syncing, At
<1>10. EmptyOK(t)'
  <2>1. \A s \in Slots : InUse(t, s) => InUse(t, s)'
    BY <1>3, <1>6 DEF InUse, Owns, InSection, At
  <2> QED
    BY <1>1, <1>4, <1>6, <2>1 DEF EmptyOK
<1>11. DetectOK(t)' /\ TodoOK(t)'
  BY <1>1, <1>3, <1>5, <1>6 DEF DetectOK, TodoOK, At
<1> QED
  BY <1>3, <1>8, <1>9, <1>10, <1>11, SameInv DEF LockInv, ThreadInv, Frame

(* Lock and copy.                                                          *)
LEMMA CasStep ==
  ASSUME LockInv, TypeInv', ~Crashed, NEW t \in Threads, TryLockCas(t)
  PROVE LockInv'
<1> USE DEF mem, clocks, section, locals, ring, logs, quiesce
<1>1. UNCHANGED <<head, wb, tail, todo, writeDet>>
  BY DEF TryLockCas
<1>2. /\ TypeOK /\ TypeOK' /\ ThreadInv(t) /\ LocksMatchLogs
      /\ pc \in [Threads -> Labels]
      /\ log \in [Threads -> [Slots -> [Objs -> Vals \cup {NoVal}]]]
      /\ shape \in [Threads -> [Slots -> {"whole", "end", "inside"}]]
      /\ copyOf \in [Objs -> CopyPtrs \cup {NoCopy}]
  BY DEF LockInv, TypeInv, TypeOK
<1>3. pc[t] = "cas" /\ pc' = [pc EXCEPT ![t] = "in"] /\ pc'[t] = "in"
  BY <1>2 DEF TryLockCas, At, Goto
<1>a. PICK o \in Objs : o = arg[t]
  BY <1>3 DEF LockInv, TypeInv, OperandsOK
<1>b. PICK c \in Slots : c = Cur(t)
  BY <1>2, ThreadTypes
<1>4. writeDet[t] /\ RingOK(t) /\ EmptyOK(t)
  BY <1>2, <1>3 DEF ThreadInv, DetectOK, At
<1>5. \/ /\ copyOf[o] = NoCopy
         /\ copyOf' = [copyOf EXCEPT ![o] = CopyPtr(t, c)]
         /\ log' = [log EXCEPT ![t][c][o] = actual[o]]
      \/ UNCHANGED <<copyOf, log>>
  BY <1>a, <1>b DEF TryLockCas, CasSucceeds
<1>6. \E x \in {"whole", "end", "inside"} : shape' = [shape EXCEPT ![t][c] = x]
  BY <1>2, <1>b DEF TryLockCas
<1>7. Frame(t)
  <2>1. log' = log \/ log' = [log EXCEPT ![t][c][o] = actual[o]]
    BY <1>5
  <2> QED
    BY <1>1, <1>2, <1>3, <1>6, <2>1 DEF Frame, SameData
<1>8. /\ \A s \in Slots \ {c} :
           log'[t][s] = log[t][s] /\ shape'[t][s] = shape[t][s]
  BY <1>2, <1>4, <1>5, <1>6
<1>9. /\ Cur(t) = c /\ Cur(t)' = c /\ Pending(t)' = Pending(t)
      /\ SlotsOf(t, head[t], tail[t])' = SlotsOf(t, head[t], tail[t])
      /\ \A s \in Slots \ {c} : Locks(t, s)' = Locks(t, s)
  BY <1>1, <1>8, <1>b DEF Cur, Pending, Locks, SlotsOf
<1>10. /\ InSection(t) /\ InSection(t)'
       /\ ~At(t, "writeback") /\ ~At(t, "writeback")'
       /\ ~At(t, "unlockobjs") /\ ~At(t, "unlockobjs")'
       /\ ~At(t, "crashed") /\ Owns(t) /\ Owns(t)'
  BY <1>3 DEF InSection, At, Owns
<1>11. \A s \in Slots \ {c} : Held(t, s)' = Held(t, s)
  BY <1>9, <1>10 DEF Held
<1>12. Held(t, c) = Locks(t, c) /\ Held(t, c)' = Locks(t, c)'
  BY <1>9, <1>10 DEF Held
<1>13. LocksMatchLogs'
  <2>1. \A u \in Threads \ {t}, s \in Slots : Held(u, s)' = Held(u, s)
    BY <1>7, SameInv DEF Frame
  <2>2. CASE UNCHANGED <<copyOf, log>>
    <3>1. Locks(t, c)' = Locks(t, c)
      BY <2>2 DEF Locks
    <3> QED
      BY <1>2, <1>11, <1>12, <2>1, <2>2, <3>1, LocksKept
  <2>3. CASE /\ copyOf[o] = NoCopy
             /\ copyOf' = [copyOf EXCEPT ![o] = CopyPtr(t, c)]
             /\ log' = [log EXCEPT ![t][c][o] = actual[o]]
    <3>1. Locks(t, c)' = Locks(t, c) \cup {o}
      <4>1. actual[o] # NoVal
        BY <1>2, <1>4, ConstantsAssumption DEF TypeOK
      <4>2. /\ \A q \in Objs \ {o} : log'[t][c][q] = log[t][c][q]
            /\ log'[t][c][o] = actual[o]
        BY <1>2, <1>4, <2>3
      <4> QED
        BY <4>1, <4>2 DEF Locks
    <3>2. SUFFICES ASSUME NEW q \in Objs, NEW u \in Threads, NEW s \in Slots
                   PROVE copyOf'[q] = CopyPtr(u, s) <=> q \in Held(u, s)'
      BY DEF LocksMatchLogs, CopyPtr
    <3>3. copyOf[q] = CopyPtr(u, s) <=> q \in Held(u, s)
      BY <1>2 DEF LocksMatchLogs
    <3>4. CASE q # o
      <4>1. copyOf'[q] = copyOf[q]
        BY <1>2, <2>3, <3>4
      <4>2. CASE u = t /\ s = c
        BY <1>12, <3>1, <3>3, <3>4, <4>1, <4>2
      <4>3. CASE ~(u = t /\ s = c)
        <5>1. Held(u, s)' = Held(u, s)
          BY <1>11, <2>1, <4>3
        <5> QED
          BY <3>3, <4>1, <5>1
      <4> QED
        BY <4>2, <4>3
    <3>5. CASE q = o
      <4>1. q \notin Held(u, s)
        <5>1. NoCopy # CopyPtr(u, s)
          BY ConstantsAssumption DEF NoCopy, CopyPtr, Threads
        <5> QED
          BY <2>3, <3>3, <3>5, <5>1
      <4>2. CASE u = t /\ s = c
        BY <1>2, <1>4, <1>9, <1>12, <2>3, <3>1, <3>5, <4>2
      <4>3. CASE ~(u = t /\ s = c)
        <5>1. Held(u, s)' = Held(u, s)
          BY <1>11, <2>1, <4>3
        <5>2. CopyPtr(t, c) # CopyPtr(u, s)
          BY <4>3 DEF CopyPtr
        <5> QED
          BY <1>2, <1>4, <2>3, <3>5, <4>1, <5>1, <5>2
      <4> QED
        BY <4>2, <4>3
    <3> QED
      BY <3>4, <3>5
  <2> QED
    BY <1>5, <2>2, <2>3
<1>14. RingOK(t)'
  BY <1>1, <1>3, <1>4 DEF RingOK, Syncing, At
<1>15. EmptyOK(t)'
  <2>1. \A s \in Slots : InUse(t, s)' = InUse(t, s)
    BY <1>9, <1>10 DEF InUse
  <2>2. InUse(t, c)
    BY <1>9, <1>10 DEF InUse
  <2> QED
    BY <1>4, <1>8, <1>9, <2>1, <2>2 DEF EmptyOK
<1>16. DetectOK(t)' /\ TodoOK(t)'
  BY <1>1, <1>3, <1>4 DEF DetectOK, TodoOK, At
<1> QED
  BY <1>7, <1>13, <1>14, <1>15, <1>16, SameInv DEF LockInv, ThreadInv, Frame

(* Writing the private copy of an object that is locked.                    *)
LEMMA WriteStep ==
  ASSUME LockInv, TypeInv', ~Crashed, NEW t \in Threads,
         NEW o \in Objs, NEW v \in Vals, Assigns(t, o, v)
  PROVE LockInv'
<1> USE DEF mem, clocks, section, locals, ring, logs, quiesce
<1>1. UNCHANGED <<head, wb, tail, todo, writeDet, pc, shape, copyOf>>
  BY DEF Assigns
<1>2. /\ TypeOK /\ TypeOK' /\ ThreadInv(t) /\ LocksMatchLogs
      /\ log \in [Threads -> [Slots -> [Objs -> Vals \cup {NoVal}]]]
  BY DEF LockInv, TypeInv, TypeOK
<1>3. PICK c \in Slots : c = Cur(t)
  BY <1>2, ThreadTypes
<1>4. log' = [log EXCEPT ![t][c][o] = v] /\ log[t][c][o] # NoVal
  BY <1>3 DEF Assigns, Assign, HoldsLock
<1>5. \A u \in Threads, s \in Slots : Locks(u, s)' = Locks(u, s)
  <2>1. v # NoVal
    BY ConstantsAssumption
  <2> QED
    BY <1>2, <1>4, <2>1 DEF Locks
<1>6. \A u \in Threads :
        /\ Cur(u)' = Cur(u) /\ Pending(u)' = Pending(u)
        /\ SlotsOf(u, head[u], tail[u])' = SlotsOf(u, head[u], tail[u])
        /\ InSection(u)' = InSection(u) /\ Owns(u)' = Owns(u)
        /\ Syncing(u)' = Syncing(u) /\ Cur(u) \in Slots
  BY <1>1, <1>2, ThreadTypes
     DEF Cur, Pending, SlotsOf, InSection, Owns, Syncing, At
<1>7. \A u \in Threads, s \in Slots : Held(u, s)' = Held(u, s)
  BY <1>1, <1>5, <1>6 DEF Held, At
<1>8. LocksMatchLogs'
  BY <1>1, <1>2, <1>7, LocksKept
<1>9. ASSUME NEW u \in Threads PROVE ThreadInv(u)'
  <2>1. ThreadInv(u)
    BY DEF LockInv
  <2>2. \A s \in Slots : InUse(u, s)' = InUse(u, s)
    BY <1>6 DEF InUse
  <2>3. Locks(u, Cur(u))' = Locks(u, Cur(u))
    BY <1>5, <1>6 DEF Locks
  <2>4. RingOK(u)' = RingOK(u)
    BY <1>1, <1>6 DEF RingOK, At
  <2>5. EmptyOK(u)' = EmptyOK(u)
    BY <1>1, <1>5, <2>2 DEF EmptyOK
  <2>6. DetectOK(u)' = DetectOK(u) /\ TodoOK(u)' = TodoOK(u)
    BY <1>1, <1>6, <2>3 DEF DetectOK, TodoOK, At
  <2> QED
    BY <1>1, <2>1, <2>4, <2>5, <2>6 DEF ThreadInv, At
<1> QED
  BY <1>8, <1>9 DEF LockInv

(* Committing moves the section's log to the pending ones.                 *)
LEMMA UnlockStep ==
  ASSUME LockInv, TypeInv', ~Crashed, NEW t \in Threads, ReaderUnlock(t)
  PROVE LockInv'
<1> USE DEF mem, clocks, section, locals, ring, logs, quiesce
<1>1. /\ UNCHANGED <<head, wb, todo, log, shape, copyOf>>
      /\ writeDet' = [writeDet EXCEPT ![t] = FALSE]
  BY DEF ReaderUnlock, LeaveSection
<1>2. /\ TypeOK /\ ThreadInv(t) /\ LocksMatchLogs /\ pc \in [Threads -> Labels]
      /\ tail \in [Threads -> Nat] /\ head[t] \in Nat /\ wb[t] \in Nat
      /\ tail[t] \in Nat /\ writeDet \in [Threads -> BOOLEAN]
  BY ThreadTypes DEF LockInv, TypeInv, TypeOK
<1>3. /\ pc[t] = "in" /\ pc'[t] \in {"sync", "checkpoint"}
      /\ \E l : pc' = [pc EXCEPT ![t] = l]
  <2>1. pc[t] = "in"
    BY DEF ReaderUnlock, At
  <2>2. \/ pc' = [pc EXCEPT ![t] = "sync"]
        \/ pc' = [pc EXCEPT ![t] = "checkpoint"]
    BY DEF ReaderUnlock, Goto, CallSync
  <2> QED
    BY <1>2, <2>1, <2>2
<1>4. \/ writeDet[t] /\ tail' = [tail EXCEPT ![t] = tail[t] + 1]
      \/ ~writeDet[t] /\ tail' = tail /\ pc'[t] = "checkpoint"
  BY <1>2 DEF ReaderUnlock, Goto
<1>5. Frame(t)
  <2>1. tail' = tail \/ tail' = [tail EXCEPT ![t] = tail[t] + 1]
    BY <1>4
  <2> QED
    BY <1>1, <1>2, <1>3, <2>1 DEF Frame, SameData
<1>6. /\ InSection(t) /\ Owns(t) /\ ~InSection(t)' /\ ~Owns(t)'
      /\ ~At(t, "writeback") /\ ~At(t, "writeback")' /\ ~At(t, "unlockobjs")
      /\ ~At(t, "unlockobjs")' /\ ~At(t, "cas")' /\ ~At(t, "crashed")
      /\ ~Syncing(t) /\ pc'[t] \notin {"regversion", "regcommit"}
  BY <1>3 DEF InSection, Owns, Syncing, At
<1>7. RingOK(t) /\ EmptyOK(t) /\ DetectOK(t)
  BY <1>2, <1>6 DEF ThreadInv
<1>8. \A s \in Slots : Locks(t, s)' = Locks(t, s)
  BY <1>1 DEF Locks
<1>9. CASE ~writeDet[t]
  <2>1. /\ tail' = tail /\ Cur(t)' = Cur(t) /\ Pending(t)' = Pending(t)
        /\ SlotsOf(t, head[t], tail[t])' = SlotsOf(t, head[t], tail[t])
    BY <1>1, <1>4, <1>9 DEF Cur, Pending, SlotsOf
  <2>2. /\ Cur(t) \in Slots /\ Locks(t, Cur(t)) = {}
        /\ shape[t][Cur(t)] = "whole"
    BY <1>2, <1>6, <1>7, <1>9, ThreadTypes DEF DetectOK
  <2>3. \A s \in Slots : Held(t, s)' = Held(t, s)
    BY <1>6, <1>8, <2>1, <2>2 DEF Held
  <2>4. EmptyOK(t)'
    <3>1. ASSUME NEW s \in Slots, ~InUse(t, s)', InUse(t, s)
          PROVE s = Cur(t)
      BY <1>6, <2>1, <3>1 DEF InUse
    <3> QED
      BY <1>1, <1>7, <1>8, <2>2, <3>1 DEF EmptyOK
  <2>5. RingOK(t)'
    BY <1>1, <1>6, <1>7, <2>1 DEF RingOK
  <2>6. ThreadInv(t)'
    BY <1>6, <2>4, <2>5 DEF ThreadInv, DetectOK, TodoOK
  <2>7. LocksMatchLogs'
    <3>1. \A u \in Threads, s \in Slots : Held(u, s)' = Held(u, s)
      BY <1>5, <2>3, SameInv DEF Frame
    <3> QED
      BY <1>1, <1>2, <3>1, LocksKept
  <2> QED
    BY <1>5, <2>6, <2>7, SameInv DEF LockInv, Frame
<1>10. CASE writeDet[t]
  <2>1. tail'[t] = tail[t] + 1 /\ head'[t] = head[t] /\ wb'[t] = wb[t]
    BY <1>1, <1>2, <1>4, <1>10
  <2>2. head[t] <= wb[t] /\ wb[t] <= tail[t] /\ tail[t] - wb[t] < MaxActiveSets
    BY <1>6, <1>7 DEF RingOK
  <2>3. ASSUME NEW lo \in Nat, lo <= tail[t]
        PROVE SlotsOf(t, lo, tail[t] + 1)
                = SlotsOf(t, lo, tail[t]) \cup {Cur(t)}
    <3>1. lo .. tail[t] = (lo .. tail[t] - 1) \cup {tail[t]}
      BY <1>2, <2>3
    <3>2. tail[t] + 1 - 1 = tail[t]
      BY <1>2
    <3> QED
      BY <3>1, <3>2 DEF SlotsOf, Cur
  <2>4. Pending(t)' = Pending(t) \cup {Cur(t)}
    <3>1. Pending(t)' = SlotsOf(t, wb[t], tail[t] + 1)
      BY <2>1 DEF Pending, SlotsOf
    <3> QED
      BY <1>2, <2>2, <2>3, <3>1 DEF Pending
  <2>5. SlotsOf(t, head[t], tail[t])'
          = SlotsOf(t, head[t], tail[t]) \cup {Cur(t)}
    <3>1. SlotsOf(t, head[t], tail[t])' = SlotsOf(t, head[t], tail[t] + 1)
      BY <2>1 DEF SlotsOf
    <3>2. head[t] <= tail[t]
      BY <1>2, <2>2
    <3> QED
      BY <1>2, <2>3, <3>1, <3>2
  <2>6. \A s \in Slots : Held(t, s)' = Held(t, s)
    BY <1>6, <1>8, <2>4 DEF Held
  <2>7. EmptyOK(t)'
    <3>1. \A s \in Slots : InUse(t, s) => InUse(t, s)'
      BY <2>5 DEF InUse
    <3> QED
      BY <1>1, <1>7, <1>8, <3>1 DEF EmptyOK
  <2>8. RingOK(t)'
    <3>1. MaxActiveSets \in Nat /\ wb[t] - head[t] <= MaxActiveSets
      BY <1>7, ConstantsAssumption DEF RingOK
    <3>2. pc'[t] = "checkpoint" => tail[t] + 1 - wb[t] < MaxActiveSets
      <4>1. MustSync(t, tail[t] + 1) => pc' = [pc EXCEPT ![t] = "sync"]
        BY <1>10 DEF ReaderUnlock, CallSync, Goto
      <4>2. pc'[t] = "checkpoint" => ~MustSync(t, tail[t] + 1)
        BY <1>2, <4>1
      <4> QED
        BY <1>2, <3>1, <4>2 DEF MustSync
    <3>3. Syncing(t)' <=> pc'[t] = "sync"
      BY <1>3 DEF Syncing
    <3> QED
      BY <1>2, <1>3, <1>6, <2>1, <2>2, <3>1, <3>2, <3>3 DEF RingOK
  <2>9. ThreadInv(t)'
    BY <1>6, <2>7, <2>8 DEF ThreadInv, DetectOK, TodoOK
  <2>10. LocksMatchLogs'
    <3>1. \A u \in Threads, s \in Slots : Held(u, s)' = Held(u, s)
      BY <1>5, <2>6, SameInv DEF Frame
    <3> QED
      BY <1>1, <1>2, <3>1, LocksKept
  <2> QED
    BY <1>5, <2>9, <2>10, SameInv DEF LockInv, Frame
<1> QED
  BY <1>9, <1>10

(* RLU_ABORT starts to unlock what the current set holds, or has nothing to *)
(* unlock.                                                                  *)
LEMMA AbortStep ==
  ASSUME LockInv, TypeInv', NEW t \in Threads, Abort(t), ~Crashed
  PROVE LockInv'
<1> USE DEF mem, clocks, section, locals, ring, logs, quiesce
<1>1. /\ UNCHANGED <<head, wb, tail, log, shape, copyOf>>
      /\ writeDet' = [writeDet EXCEPT ![t] = FALSE]
  BY DEF Abort, LeaveSection
<1>2. /\ TypeOK /\ ThreadInv(t) /\ LocksMatchLogs /\ pc \in [Threads -> Labels]
      /\ todo \in [Threads -> SUBSET Objs] /\ writeDet \in [Threads -> BOOLEAN]
  BY DEF LockInv, TypeInv, TypeOK
<1>3. pc[t] = "in"
  BY DEF Abort, At
<1>4. \/ /\ ~writeDet[t] /\ pc' = [pc EXCEPT ![t] = "checkpoint"]
         /\ todo' = todo
      \/ pc' = [pc EXCEPT ![t] = "crashed"] /\ todo' = todo
      \/ /\ pc' = [pc EXCEPT ![t] = "unlockobjs"]
         /\ todo' = [todo EXCEPT ![t] = Locks(t, Cur(t))]
  BY DEF Abort, Goto
<1>5. Frame(t)
  <2>1. todo' = todo \/ todo' = [todo EXCEPT ![t] = Locks(t, Cur(t))]
    BY <1>4
  <2>2. \E l : pc' = [pc EXCEPT ![t] = l]
    BY <1>4
  <2> QED
    BY <1>1, <1>2, <2>1, <2>2 DEF Frame, SameData
<1>6. /\ InSection(t) /\ Owns(t) /\ ~Syncing(t) /\ ~At(t, "crashed")
      /\ ~At(t, "writeback") /\ ~At(t, "unlockobjs")
  BY <1>3 DEF InSection, Owns, Syncing, At
<1>7. RingOK(t) /\ EmptyOK(t) /\ DetectOK(t)
  BY <1>2, <1>6 DEF ThreadInv
<1>8. /\ \A s \in Slots : Locks(t, s)' = Locks(t, s)
      /\ Cur(t)' = Cur(t) /\ Pending(t)' = Pending(t) /\ Cur(t) \in Slots
      /\ Locks(t, Cur(t))' = Locks(t, Cur(t))
      /\ SlotsOf(t, head[t], tail[t])' = SlotsOf(t, head[t], tail[t])
  BY <1>1, <1>2, ThreadTypes DEF Locks, Cur, Pending, SlotsOf
<1>9. CASE ~writeDet[t] /\ pc' = [pc EXCEPT ![t] = "checkpoint"]
  <2>1. /\ ~InSection(t)' /\ ~Owns(t)' /\ ~At(t, "writeback")'
        /\ ~At(t, "unlockobjs")' /\ ~Syncing(t)' /\ pc'[t] = "checkpoint"
    BY <1>2, <1>9 DEF InSection, Owns, Syncing, At
  <2>2. Locks(t, Cur(t)) = {} /\ shape[t][Cur(t)] = "whole"
    BY <1>6, <1>7, <1>9 DEF DetectOK
  <2>3. \A s \in Slots : Held(t, s)' = Held(t, s)
    BY <1>6, <1>8, <2>1, <2>2 DEF Held
  <2>4. EmptyOK(t)'
    <3>1. ASSUME NEW s \in Slots, ~InUse(t, s)', InUse(t, s)
          PROVE s = Cur(t)
      BY <1>6, <1>8, <2>1, <3>1 DEF InUse
    <3> QED
      BY <1>1, <1>7, <1>8, <2>2, <3>1 DEF EmptyOK
  <2>5. RingOK(t)'
    BY <1>1, <1>6, <1>7, <2>1 DEF RingOK
  <2>6. ThreadInv(t)'
    BY <2>1, <2>4, <2>5 DEF ThreadInv, DetectOK, TodoOK, At
  <2>7. LocksMatchLogs'
    <3>1. \A u \in Threads, s \in Slots : Held(u, s)' = Held(u, s)
      BY <1>5, <2>3, SameInv DEF Frame
    <3> QED
      BY <1>1, <1>2, <3>1, LocksKept
  <2> QED
    BY <1>5, <2>6, <2>7, SameInv DEF LockInv, Frame
<1>10. CASE pc' = [pc EXCEPT ![t] = "crashed"]
  <2>1. pc'[t] = "crashed"
    BY <1>2, <1>10
  <2>2. LocksMatchLogs' /\ ThreadInv(t)'
    BY <2>1 DEF LocksMatchLogs, Crashed, ThreadInv, At
  <2> QED
    BY <1>5, <2>2, SameInv DEF LockInv, Frame
<1>11. CASE /\ pc' = [pc EXCEPT ![t] = "unlockobjs"]
            /\ todo' = [todo EXCEPT ![t] = Locks(t, Cur(t))]
  <2>1. /\ pc'[t] = "unlockobjs" /\ todo'[t] = Locks(t, Cur(t))
        /\ ~InSection(t)' /\ Owns(t)' /\ ~At(t, "writeback")'
        /\ At(t, "unlockobjs")' /\ ~Syncing(t)'
    BY <1>2, <1>11 DEF InSection, Owns, Syncing, At
  <2>2. \A s \in Slots : Held(t, s)' = Held(t, s)
    <3>1. ASSUME NEW s \in Slots, s = Cur(t)
          PROVE Held(t, s)' = Locks(t, s) /\ Held(t, s) = Locks(t, s)
      <4>1. Held(t, s)' = Locks(t, s)' \cap todo'[t]
        BY <1>8, <2>1, <3>1 DEF Held
      <4>2. Held(t, s) = Locks(t, s)
        BY <1>6, <3>1 DEF Held
      <4> QED
        BY <1>8, <2>1, <3>1, <4>1, <4>2
    <3>2. ASSUME NEW s \in Slots, s # Cur(t)
          PROVE Held(t, s)' = Held(t, s)
      BY <1>6, <1>8, <2>1, <3>2 DEF Held
    <3> QED
      BY <3>1, <3>2
  <2>3. EmptyOK(t)'
    <3>1. \A s \in Slots : InUse(t, s)' = InUse(t, s)
      BY <1>6, <1>8, <2>1 DEF InUse
    <3> QED
      BY <1>1, <1>7, <1>8, <3>1 DEF EmptyOK
  <2>4. RingOK(t)'
    BY <1>1, <1>6, <1>7, <2>1 DEF RingOK
  <2>5. TodoOK(t)' /\ DetectOK(t)'
    BY <1>8, <2>1 DEF TodoOK, DetectOK, At
  <2>6. LocksMatchLogs'
    <3>1. \A u \in Threads, s \in Slots : Held(u, s)' = Held(u, s)
      BY <1>5, <2>2, SameInv DEF Frame
    <3> QED
      BY <1>1, <1>2, <3>1, LocksKept
  <2> QED
    BY <1>5, <2>3, <2>4, <2>5, <2>6, SameInv DEF LockInv, ThreadInv, Frame
<1> QED
  BY <1>4, <1>9, <1>10, <1>11

(* Unlocking an object that one log holds.                                 *)
LEMMA LocksDropped ==
  ASSUME LocksMatchLogs, ~Crashed, NEW o \in Objs,
         copyOf \in [Objs -> CopyPtrs \cup {NoCopy}],
         copyOf' = [copyOf EXCEPT ![o] = NoCopy],
         \A u \in Threads, s \in Slots : Held(u, s)' = Held(u, s) \ {o}
  PROVE LocksMatchLogs'
<1> SUFFICES ASSUME NEW q \in Objs, NEW u \in Threads, NEW s \in Slots
             PROVE copyOf'[q] = CopyPtr(u, s) <=> q \in Held(u, s)'
  BY DEF LocksMatchLogs, CopyPtr
<1>1. CopyPtr(u, s) # NoCopy
  BY ConstantsAssumption DEF NoCopy, CopyPtr, Threads
<1>2. copyOf[q] = CopyPtr(u, s) <=> q \in Held(u, s)
  BY DEF LocksMatchLogs
<1>3. q \in Held(u, s)' <=> q \in Held(u, s) /\ q # o
  OBVIOUS
<1>4. copyOf'[q] = IF q = o THEN NoCopy ELSE copyOf[q]
  OBVIOUS
<1> QED
  BY <1>1, <1>2, <1>3, <1>4

(* An object has one owner.                                                *)
LEMMA OneOwner ==
  ASSUME LocksMatchLogs, ~Crashed, NEW o \in Objs,
         NEW t \in Threads, NEW c \in Slots, o \in Held(t, c),
         NEW u \in Threads, NEW s \in Slots, ~(u = t /\ s = c)
  PROVE o \notin Held(u, s)
<1>1. copyOf[o] = CopyPtr(t, c)
  BY DEF LocksMatchLogs
<1>2. CopyPtr(t, c) # CopyPtr(u, s)
  BY DEF CopyPtr
<1> QED
  BY <1>1, <1>2 DEF LocksMatchLogs

(* rlu_unlock_objs publishes that one more object is free.                  *)
LEMMA UnlockObjStep ==
  ASSUME LockInv, TypeInv', ~Crashed, NEW t \in Threads, UnlockObj(t)
  PROVE LockInv'
<1> USE DEF mem, clocks, section, locals, ring, logs, quiesce
<1>1. UNCHANGED <<head, wb, tail, log, shape, writeDet, pc>>
  BY DEF UnlockObj
<1>2. /\ TypeOK /\ ThreadInv(t) /\ LocksMatchLogs
      /\ todo \in [Threads -> SUBSET Objs]
      /\ copyOf \in [Objs -> CopyPtrs \cup {NoCopy}]
  BY DEF LockInv, TypeInv, TypeOK
<1>3. pc[t] = "unlockobjs"
  BY DEF UnlockObj, At
<1>4. PICK o \in todo[t] : /\ copyOf' = [copyOf EXCEPT ![o] = NoCopy]
                           /\ todo' = [todo EXCEPT ![t] = @ \ {o}]
  BY DEF UnlockObj
<1>5. /\ Owns(t) /\ ~InSection(t) /\ ~Syncing(t)
      /\ ~At(t, "writeback") /\ At(t, "unlockobjs") /\ ~At(t, "crashed")
  BY <1>3 DEF InSection, Owns, Syncing, At
<1>6. RingOK(t) /\ EmptyOK(t) /\ DetectOK(t) /\ TodoOK(t)
  BY <1>2, <1>5 DEF ThreadInv
<1>7. /\ todo'[t] = todo[t] \ {o} /\ Cur(t) \in Slots
      /\ o \in Objs /\ o \in Locks(t, Cur(t)) /\ Frame(t)
  BY <1>1, <1>2, <1>4, <1>5, <1>6, ThreadTypes DEF TodoOK, Frame, SameData
<1>8. /\ \A s \in Slots : Locks(t, s)' = Locks(t, s)
      /\ Cur(t)' = Cur(t) /\ Pending(t)' = Pending(t)
      /\ Locks(t, Cur(t))' = Locks(t, Cur(t))
      /\ SlotsOf(t, head[t], tail[t])' = SlotsOf(t, head[t], tail[t])
      /\ InSection(t)' = InSection(t) /\ Owns(t)' = Owns(t)
      /\ Syncing(t)' = Syncing(t)
      /\ At(t, "writeback")' = At(t, "writeback")
      /\ At(t, "unlockobjs")' = At(t, "unlockobjs")
  BY <1>1 DEF Locks, Cur, Pending, SlotsOf, InSection, Owns, Syncing, At
<1>9. Cur(t) \notin Pending(t)
  <2>1. Cur(t) \notin SlotsOf(t, head[t], tail[t])
    BY <1>2, <1>5, <1>6, CurFresh
  <2>2. head[t] <= wb[t] /\ head[t] \in Nat /\ wb[t] \in Nat /\ tail[t] \in Nat
    BY <1>2, <1>6, ThreadTypes DEF RingOK
  <2>3. wb[t] .. tail[t] - 1 \subseteq head[t] .. tail[t] - 1
    BY <2>2
  <2> QED
    BY <2>1, <2>3 DEF Pending, SlotsOf
<1>10. o \in Held(t, Cur(t))
  BY <1>3, <1>5, <1>7 DEF Held
<1>11. \A u \in Threads, s \in Slots : Held(u, s)' = Held(u, s) \ {o}
  <2>2. ASSUME NEW u \in Threads, NEW s \in Slots, ~(u = t /\ s = Cur(t))
        PROVE Held(u, s)' = Held(u, s) /\ o \notin Held(u, s)
    <3>1. o \notin Held(u, s)
      BY <1>2, <1>7, <1>10, <2>2, OneOwner
    <3>2. CASE u = t
      <4>1. Held(t, s)' = Held(t, s)
        BY <1>5, <1>8, <2>2, <3>2 DEF Held
      <4> QED
        BY <3>1, <3>2, <4>1
    <3>3. CASE u # t
      BY <1>7, <3>1, <3>3, SameInv DEF Frame
    <3> QED
      BY <3>2, <3>3
  <2>3. \A s \in Slots : s = Cur(t) => Held(t, s)' = Held(t, s) \ {o}
    <3>1. ASSUME NEW s \in Slots, s = Cur(t)
          PROVE Held(t, s)' = Held(t, s) \ {o}
      <4>1. Held(t, s) = Locks(t, s) \cap todo[t]
        BY <1>5, <1>9, <3>1 DEF Held
      <4>2. Held(t, s)' = Locks(t, s) \cap todo'[t]
        BY <1>5, <1>8, <1>9, <3>1 DEF Held
      <4> QED
        BY <1>7, <4>1, <4>2
    <3> QED
      BY <3>1
  <2> QED
    BY <2>2, <2>3
<1>12. LocksMatchLogs'
  BY <1>2, <1>4, <1>7, <1>11, LocksDropped
<1>13. ThreadInv(t)'
  <2>1. RingOK(t)' = RingOK(t)
    BY <1>1, <1>8 DEF RingOK
  <2>2. \A s \in Slots : InUse(t, s)' = InUse(t, s)
    BY <1>8 DEF InUse
  <2>3. EmptyOK(t)' = EmptyOK(t)
    BY <1>1, <1>8, <2>2 DEF EmptyOK
  <2>4. DetectOK(t)'
    BY <1>1, <1>6, <1>8 DEF DetectOK, At
  <2>5. TodoOK(t)'
    BY <1>6, <1>7, <1>8 DEF TodoOK
  <2> QED
    BY <1>6, <2>1, <2>3, <2>4, <2>5 DEF ThreadInv
<1> QED
  BY <1>7, <1>12, <1>13, SameInv DEF LockInv, Frame

(* The abort empties the set after its last object has been unlocked.       *)
LEMMA ResetAbortedStep ==
  ASSUME LockInv, TypeInv', ~Crashed, NEW t \in Threads, ResetAborted(t)
  PROVE LockInv'
<1> USE DEF mem, clocks, section, locals, ring, logs, quiesce
<1>1. UNCHANGED <<head, wb, tail, todo, writeDet, copyOf>>
  BY DEF ResetAborted
<1>2. /\ TypeOK /\ ThreadInv(t) /\ LocksMatchLogs /\ pc \in [Threads -> Labels]
      /\ log \in [Threads -> [Slots -> [Objs -> Vals \cup {NoVal}]]]
      /\ shape \in [Threads -> [Slots -> {"whole", "end", "inside"}]]
  BY DEF LockInv, TypeInv, TypeOK
<1>3. /\ pc[t] = "unlockobjs" /\ pc' = [pc EXCEPT ![t] = "checkpoint"]
      /\ pc'[t] = "checkpoint" /\ todo[t] = {}
  BY <1>2 DEF ResetAborted, At, Goto
<1>4. PICK c \in Slots : c = Cur(t)
  BY <1>2, ThreadTypes
<1>5. /\ log' = [log EXCEPT ![t][c] = EmptyLog]
      /\ shape' = [shape EXCEPT ![t][c] = "whole"]
  BY <1>4 DEF ResetAborted
<1>6. Frame(t)
  BY <1>1, <1>2, <1>3, <1>5 DEF Frame, SameData
<1>7. /\ ~InSection(t) /\ ~InSection(t)' /\ ~Owns(t)'
      /\ ~Syncing(t) /\ ~Syncing(t)' /\ ~At(t, "crashed")
      /\ ~At(t, "writeback") /\ ~At(t, "writeback")'
      /\ At(t, "unlockobjs") /\ ~At(t, "unlockobjs")'
  BY <1>3 DEF InSection, Owns, Syncing, At
<1>8. RingOK(t) /\ EmptyOK(t)
  BY <1>2, <1>7 DEF ThreadInv
<1>9. /\ \A s \in Slots \ {c} :
           log'[t][s] = log[t][s] /\ shape'[t][s] = shape[t][s]
      /\ log'[t][c] = EmptyLog /\ shape'[t][c] = "whole"
  BY <1>2, <1>5
<1>10. /\ \A s \in Slots \ {c} : Locks(t, s)' = Locks(t, s)
       /\ Locks(t, c)' = {}
       /\ Cur(t)' = c /\ Pending(t)' = Pending(t)
       /\ SlotsOf(t, head[t], tail[t])' = SlotsOf(t, head[t], tail[t])
  BY <1>1, <1>4, <1>9 DEF Locks, Cur, Pending, SlotsOf, EmptyLog
<1>11. c \notin Pending(t)
  <2>1. c \notin SlotsOf(t, head[t], tail[t])
    BY <1>2, <1>4, <1>7, <1>8, CurFresh
  <2>2. head[t] <= wb[t] /\ head[t] \in Nat /\ wb[t] \in Nat /\ tail[t] \in Nat
    BY <1>2, <1>8, ThreadTypes DEF RingOK
  <2>3. wb[t] .. tail[t] - 1 \subseteq head[t] .. tail[t] - 1
    BY <2>2
  <2> QED
    BY <2>1, <2>3 DEF Pending, SlotsOf
<1>12. \A s \in Slots : Held(t, s)' = Held(t, s)
  <2>1. Held(t, c) = {} /\ Held(t, c)' = {}
    BY <1>3, <1>7, <1>10, <1>11 DEF Held
  <2>2. \A s \in Slots \ {c} : Held(t, s)' = Held(t, s)
    BY <1>4, <1>7, <1>10 DEF Held
  <2> QED
    BY <2>1, <2>2
<1>13. LocksMatchLogs'
  <2>1. \A u \in Threads, s \in Slots : Held(u, s)' = Held(u, s)
    BY <1>6, <1>12, SameInv DEF Frame
  <2> QED
    BY <1>1, <1>2, <2>1, LocksKept
<1>14. ThreadInv(t)'
  <2>1. RingOK(t)'
    BY <1>1, <1>7, <1>8 DEF RingOK
  <2>2. EmptyOK(t)'
    <3>1. \A s \in Slots \ {c} : InUse(t, s)' = InUse(t, s)
      BY <1>4, <1>7, <1>10 DEF InUse
    <3> QED
      BY <1>8, <1>9, <1>10, <3>1 DEF EmptyOK
  <2>3. DetectOK(t)' /\ TodoOK(t)'
    BY <1>3, <1>7 DEF DetectOK, TodoOK, At
  <2> QED
    BY <2>1, <2>2, <2>3 DEF ThreadInv
<1> QED
  BY <1>6, <1>13, <1>14, SameInv DEF LockInv, Frame

(* The logs that are reset are not the pending ones.                       *)
LEMMA ResetSetsStep ==
  ASSUME LockInv, TypeInv', ~Crashed, NEW t \in Threads, ResetSets(t)
  PROVE LockInv'
<1> USE DEF mem, clocks, section, locals, ring, logs, quiesce
<1>1. UNCHANGED <<wb, tail, writeDet, copyOf>>
  BY DEF ResetSets
<1>2. /\ TypeOK /\ ThreadInv(t) /\ LocksMatchLogs /\ pc \in [Threads -> Labels]
      /\ log \in [Threads -> [Slots -> [Objs -> Vals \cup {NoVal}]]]
      /\ shape \in [Threads -> [Slots -> {"whole", "end", "inside"}]]
      /\ head \in [Threads -> Nat] /\ todo \in [Threads -> SUBSET Objs]
      /\ head[t] \in Nat /\ wb[t] \in Nat /\ tail[t] \in Nat
      /\ MaxActiveSets \in Nat
  BY ThreadTypes, ConstantsAssumption DEF LockInv, TypeInv, TypeOK
<1>3. PICK l \in {"writeback", "crashed"} : pc' = [pc EXCEPT ![t] = l]
  BY DEF ResetSets, Goto
<1>4. pc[t] = "reset" /\ pc'[t] = l
  BY <1>2, <1>3 DEF ResetSets, At
<1>5. /\ head' = [head EXCEPT ![t] = wb[t]] /\ head'[t] = wb[t]
      /\ todo' = [todo EXCEPT ![t] = UNION {Locks(t, s) : s \in Pending(t)}]
      /\ todo'[t] = UNION {Locks(t, s) : s \in Pending(t)}
  BY <1>2 DEF ResetSets
<1>6. /\ \A u \in Threads \ {t} : log'[u] = log[u] /\ shape'[u] = shape[u]
      /\ \A s \in Slots \ OldSets(t) :
           log'[t][s] = log[t][s] /\ shape'[t][s] = shape[t][s]
      /\ \A s \in Slots \cap OldSets(t) :
           log'[t][s] = EmptyLog /\ shape'[t][s] = "whole"
  <2>1. /\ log' = [log EXCEPT ![t] =
             [s \in Slots |->
                IF s \in OldSets(t) THEN EmptyLog ELSE log[t][s]]]
        /\ shape' = [shape EXCEPT ![t] =
             [s \in Slots |->
                IF s \in OldSets(t) THEN "whole" ELSE shape[t][s]]]
    BY DEF ResetSets
  <2> QED
    BY <1>2, <2>1
<1>7. Frame(t)
  BY <1>1, <1>2, <1>3, <1>5, <1>6 DEF Frame, SameData
<1>8. CASE l = "crashed"
  <2>1. LocksMatchLogs' /\ ThreadInv(t)'
    BY <1>4, <1>8 DEF LocksMatchLogs, Crashed, ThreadInv, At
  <2> QED
    BY <1>7, <2>1, SameInv DEF LockInv, Frame
<1>9. CASE l = "writeback"
  <2>1. /\ ~InSection(t) /\ ~InSection(t)' /\ ~Owns(t) /\ ~Owns(t)'
        /\ Syncing(t) /\ Syncing(t)' /\ ~At(t, "crashed")
        /\ ~At(t, "writeback") /\ At(t, "writeback")'
        /\ ~At(t, "unlockobjs") /\ ~At(t, "unlockobjs")'
    BY <1>4, <1>9 DEF InSection, Owns, Syncing, At
  <2>2. RingOK(t) /\ EmptyOK(t)
    BY <1>2, <2>1 DEF ThreadInv
  <2>3. Pending(t)' = Pending(t) /\ Cur(t)' = Cur(t)
    BY <1>1 DEF Pending, Cur, SlotsOf
  <2>4. Pending(t) \cap OldSets(t) = {} /\ Pending(t) \subseteq Slots
    BY <1>2, <2>2, PendingNotOld, SlotsTypes
  <2>5. /\ \A s \in Slots \ OldSets(t) : Locks(t, s)' = Locks(t, s)
        /\ \A s \in Slots \cap OldSets(t) : Locks(t, s)' = {}
    BY <1>6 DEF Locks, EmptyLog
  <2>6. \A s \in Slots : Held(t, s)' = Held(t, s)
    <3>1. ASSUME NEW s \in Slots, s \in Pending(t)
          PROVE Held(t, s)' = Held(t, s)
      <4>1. Locks(t, s)' = Locks(t, s) /\ Locks(t, s) \subseteq todo'[t]
        BY <1>5, <2>4, <2>5, <3>1
      <4>2. Held(t, s) = Locks(t, s)
        BY <2>1, <3>1 DEF Held
      <4>3. Held(t, s)' = Locks(t, s)' \cap todo'[t]
        BY <2>1, <2>3, <3>1 DEF Held
      <4> QED
        BY <4>1, <4>2, <4>3
    <3>2. ASSUME NEW s \in Slots, s \notin Pending(t)
          PROVE Held(t, s)' = Held(t, s)
      BY <2>1, <2>3, <3>2 DEF Held
    <3> QED
      BY <3>1, <3>2
  <2>7. LocksMatchLogs'
    <3>1. \A u \in Threads, s \in Slots : Held(u, s)' = Held(u, s)
      BY <1>7, <2>6, SameInv DEF Frame
    <3> QED
      BY <1>1, <1>2, <3>1, LocksKept
  <2>8. RingOK(t)'
    BY <1>1, <1>2, <1>5, <2>1, <2>2 DEF RingOK
  <2>9. EmptyOK(t)'
    <3>1. ASSUME NEW s \in Slots \ OldSets(t), ~InUse(t, s)'
          PROVE ~InUse(t, s)
      <4>1. s \notin SlotsOf(t, wb[t], tail[t])
        BY <1>1, <1>5, <3>1 DEF InUse, SlotsOf
      <4>2. s \notin SlotsOf(t, head[t], wb[t])
        BY <3>1 DEF OldSets
      <4>3. head[t] .. tail[t] - 1 =
              (head[t] .. wb[t] - 1) \cup (wb[t] .. tail[t] - 1)
        BY <1>2, <2>2 DEF RingOK
      <4>4. s \notin SlotsOf(t, head[t], tail[t])
        BY <4>1, <4>2, <4>3 DEF SlotsOf
      <4> QED
        BY <2>1, <4>4 DEF InUse
    <3>2. ASSUME NEW s \in Slots, ~InUse(t, s)'
          PROVE Locks(t, s)' = {} /\ shape'[t][s] = "whole"
      BY <1>6, <2>2, <2>5, <3>1, <3>2 DEF EmptyOK
    <3> QED
      BY <3>2 DEF EmptyOK
  <2>10. DetectOK(t)' /\ TodoOK(t)'
    BY <1>4, <1>9, <2>1 DEF DetectOK, TodoOK, At
  <2> QED
    BY <1>7, <2>7, <2>8, <2>9, <2>10, SameInv DEF LockInv, ThreadInv, Frame
<1> QED
  BY <1>8, <1>9

(* Writing back one object releases exactly the lock of its entry.          *)
LEMMA WriteBackStep ==
  ASSUME LockInv, TypeInv', ~Crashed, NEW t \in Threads, WriteBack(t)
  PROVE LockInv'
<1> USE DEF mem, clocks, section, locals, ring, logs, quiesce
<1>1. UNCHANGED <<head, wb, tail, log, shape, writeDet, pc>>
  BY DEF WriteBack
<1>2. /\ TypeOK /\ ThreadInv(t) /\ LocksMatchLogs
      /\ todo \in [Threads -> SUBSET Objs]
      /\ copyOf \in [Objs -> CopyPtrs \cup {NoCopy}]
      /\ Pending(t) \subseteq Slots
  BY SlotsTypes DEF LockInv, TypeInv, TypeOK
<1>3. pc[t] = "writeback"
  BY DEF WriteBack, At
<1>4. PICK c \in Pending(t), o \in todo[t] :
         /\ log[t][c][o] # NoVal
         /\ copyOf' = [copyOf EXCEPT ![o] = NoCopy]
         /\ todo' = [todo EXCEPT ![t] = @ \ {o}]
  BY DEF WriteBack
<1>5. /\ ~Owns(t) /\ ~InSection(t) /\ Syncing(t)
      /\ At(t, "writeback") /\ ~At(t, "unlockobjs") /\ ~At(t, "crashed")
  BY <1>3 DEF InSection, Owns, Syncing, At
<1>6. RingOK(t) /\ EmptyOK(t)
  BY <1>2, <1>5 DEF ThreadInv
<1>7. /\ todo'[t] = todo[t] \ {o} /\ c \in Slots
      /\ o \in Objs /\ o \in Locks(t, c) /\ Frame(t)
  BY <1>1, <1>2, <1>4 DEF Locks, Frame, SameData
<1>8. /\ \A s \in Slots : Locks(t, s)' = Locks(t, s)
      /\ Cur(t)' = Cur(t) /\ Pending(t)' = Pending(t)
      /\ SlotsOf(t, head[t], tail[t])' = SlotsOf(t, head[t], tail[t])
      /\ InSection(t)' = InSection(t) /\ Owns(t)' = Owns(t)
      /\ Syncing(t)' = Syncing(t)
      /\ At(t, "writeback")' = At(t, "writeback")
      /\ At(t, "unlockobjs")' = At(t, "unlockobjs")
  BY <1>1 DEF Locks, Cur, Pending, SlotsOf, InSection, Owns, Syncing, At
<1>9. o \in Held(t, c)
  BY <1>4, <1>7 DEF Held
<1>10. \A u \in Threads, s \in Slots : Held(u, s)' = Held(u, s) \ {o}
  <2>1. ASSUME NEW s \in Slots PROVE Held(t, s)' = Held(t, s) \ {o}
    <3>1. Held(t, s) = {q \in Locks(t, s) : s \in Pending(t) /\ q \in todo[t]}
      BY <1>5 DEF Held
    <3>2. Held(t, s)'
            = {q \in Locks(t, s) : s \in Pending(t) /\ q \in todo'[t]}
      BY <1>5, <1>8 DEF Held
    <3> QED
      BY <1>7, <3>1, <3>2
  <2>2. ASSUME NEW u \in Threads \ {t}, NEW s \in Slots
        PROVE Held(u, s)' = Held(u, s) \ {o}
    <3>1. o \notin Held(u, s)
      BY <1>2, <1>7, <1>9, OneOwner
    <3>2. Held(u, s)' = Held(u, s)
      BY <1>7, SameInv DEF Frame
    <3> QED
      BY <3>1, <3>2
  <2> QED
    BY <2>1, <2>2
<1>11. LocksMatchLogs'
  BY <1>2, <1>4, <1>7, <1>10, LocksDropped
<1>12. ThreadInv(t)'
  <2>1. RingOK(t)' = RingOK(t)
    BY <1>1, <1>8 DEF RingOK
  <2>2. \A s \in Slots : InUse(t, s)' = InUse(t, s)
    BY <1>8 DEF InUse
  <2>3. EmptyOK(t)' = EmptyOK(t)
    BY <1>1, <1>8, <2>2 DEF EmptyOK
  <2>4. DetectOK(t)' /\ TodoOK(t)'
    BY <1>1, <1>3, <1>5, <1>8 DEF DetectOK, TodoOK, At
  <2> QED
    BY <1>6, <2>1, <2>3, <2>4 DEF ThreadInv
<1> QED
  BY <1>7, <1>11, <1>12, SameInv DEF LockInv, Frame

(* The end of the write-back moves the middle counter over the pending      *)
(* sets, none of which holds a lock any more.                               *)
LEMMA RetractStep ==
  ASSUME LockInv, TypeInv', ~Crashed, NEW t \in Threads, Retract(t)
  PROVE LockInv'
<1> USE DEF mem, clocks, section, locals, ring, logs, quiesce
<1>1. UNCHANGED <<head, tail, log, shape, writeDet, todo, copyOf>>
  BY DEF Retract
<1>2. /\ TypeOK /\ ThreadInv(t) /\ LocksMatchLogs
      /\ pc \in [Threads -> Labels] /\ wb \in [Threads -> Nat]
      /\ head[t] \in Nat /\ wb[t] \in Nat /\ tail[t] \in Nat
      /\ MaxActiveSets \in Nat /\ MaxActiveSets >= 1
  BY ThreadTypes, ConstantsAssumption DEF LockInv, TypeInv, TypeOK
<1>3. /\ pc[t] = "writeback" /\ pc' = [pc EXCEPT ![t] = "commit"]
      /\ pc'[t] = "commit" /\ todo[t] = {}
      /\ wb' = [wb EXCEPT ![t] = tail[t]] /\ wb'[t] = tail[t]
  BY <1>2 DEF Retract, WrittenBack, At, Goto
<1>4. Frame(t)
  BY <1>1, <1>2, <1>3 DEF Frame, SameData
<1>5. /\ ~Owns(t) /\ ~Owns(t)' /\ ~InSection(t) /\ ~InSection(t)'
      /\ ~Syncing(t)' /\ At(t, "writeback") /\ ~At(t, "writeback")'
      /\ ~At(t, "unlockobjs") /\ ~At(t, "unlockobjs")' /\ ~At(t, "crashed")
  BY <1>3 DEF InSection, Owns, Syncing, At
<1>6. RingOK(t) /\ EmptyOK(t)
  BY <1>2, <1>5 DEF ThreadInv
<1>7. /\ \A s \in Slots : Locks(t, s)' = Locks(t, s)
      /\ Cur(t)' = Cur(t) /\ Pending(t)' = {}
      /\ SlotsOf(t, head[t], tail[t])' = SlotsOf(t, head[t], tail[t])
  <2>1. Pending(t)' = SlotsOf(t, tail[t], tail[t])
    BY <1>1, <1>3 DEF Pending, SlotsOf
  <2>2. tail[t] .. tail[t] - 1 = {}
    BY <1>2
  <2> QED
    BY <1>1, <2>1, <2>2 DEF Locks, Cur, SlotsOf
<1>8. \A s \in Slots : Held(t, s)' = Held(t, s)
  <2>1. ASSUME NEW s \in Slots PROVE Held(t, s) = {} /\ Held(t, s)' = {}
    <3>1. Held(t, s) = {}
      BY <1>3, <1>5 DEF Held
    <3>2. Held(t, s)' = {}
      BY <1>5, <1>7 DEF Held
    <3> QED
      BY <3>1, <3>2
  <2> QED
    BY <2>1
<1>9. LocksMatchLogs'
  <2>1. \A u \in Threads, s \in Slots : Held(u, s)' = Held(u, s)
    BY <1>4, <1>8, SameInv DEF Frame
  <2> QED
    BY <1>1, <1>2, <2>1, LocksKept
<1>10. ThreadInv(t)'
  <2>1. RingOK(t)'
    BY <1>1, <1>2, <1>3, <1>5, <1>6 DEF RingOK
  <2>2. EmptyOK(t)'
    <3>1. \A s \in Slots : InUse(t, s)' = InUse(t, s)
      BY <1>5, <1>7 DEF InUse
    <3> QED
      BY <1>1, <1>6, <1>7, <3>1 DEF EmptyOK
  <2>3. DetectOK(t)' /\ TodoOK(t)'
    BY <1>3, <1>5 DEF DetectOK, TodoOK, At
  <2> QED
    BY <2>1, <2>2, <2>3 DEF ThreadInv
<1> QED
  BY <1>4, <1>9, <1>10, SameInv DEF LockInv, Frame

(* Nothing is locked or logged initially.                                   *)
LEMMA InitLockInv == Init => LockInv
<1> SUFFICES ASSUME Init PROVE LockInv
  OBVIOUS
<1>1. TypeInv
  BY InitTypeInv
<1>2. ASSUME NEW t \in Threads
      PROVE /\ pc[t] = "idle" /\ head[t] = 0 /\ wb[t] = 0 /\ tail[t] = 0
            /\ \A s \in Slots : Locks(t, s) = {} /\ shape[t][s] = "whole"
  BY DEF Init, Locks, EmptyLog
<1>3. ASSUME NEW t \in Threads PROVE ThreadInv(t)
  <2>1. ~InSection(t) /\ ~Owns(t) /\ ~Syncing(t)
    BY <1>2 DEF InSection, Owns, Syncing, At
  <2>2. RingOK(t)
    BY <1>2, <2>1, ConstantsAssumption DEF RingOK, At
  <2>3. EmptyOK(t) /\ DetectOK(t) /\ TodoOK(t)
    BY <1>2, <2>1 DEF EmptyOK, DetectOK, TodoOK, At
  <2> QED
    BY <2>2, <2>3 DEF ThreadInv
<1>4. LocksMatchLogs
  <2>1. ASSUME NEW o \in Objs, NEW t \in Threads, NEW s \in Slots
        PROVE copyOf[o] # CopyPtr(t, s) /\ o \notin Held(t, s)
    <3>1. copyOf[o] = NoCopy /\ NoCopy # CopyPtr(t, s)
      BY ConstantsAssumption DEF Init, NoCopy, CopyPtr, Threads
    <3>2. o \notin Held(t, s)
      BY <1>2 DEF Held
    <3> QED
      BY <3>1, <3>2
  <2> QED
    BY <2>1 DEF LocksMatchLogs
<1> QED
  BY <1>1, <1>3, <1>4 DEF LockInv

(* The invariant speaks of the state only.                                  *)
LEMMA StutterLockInv == LockInv /\ UNCHANGED vars => LockInv'
<1> SUFFICES ASSUME LockInv, UNCHANGED vars PROVE LockInv'
  OBVIOUS
<1> USE DEF mem, clocks, section, locals, ring, logs, quiesce
<1>1. UNCHANGED <<head, wb, tail, log, shape, writeDet, todo, copyOf, pc>>
  BY DEF vars
<1>2. \A u \in Threads : SameData(u)
  BY <1>1 DEF SameData
<1>3. TypeInv'
  BY NextTypeInv DEF LockInv
<1>4. \A u \in Threads, s \in Slots : Held(u, s)' = Held(u, s)
  BY <1>2, SameInv
<1>5. LocksMatchLogs'
  BY <1>1, <1>4 DEF LockInv, LocksMatchLogs, CopyPtr, Crashed, At
<1> QED
  BY <1>2, <1>3, <1>5, SameInv DEF LockInv

(* Every step of every thread preserves the invariant.                      *)
LEMMA StepLockInv ==
  ASSUME LockInv, ~Crashed, NEW t \in Threads, LibraryStep(t) \/ ClientStep(t)
  PROVE LockInv'
<1>1. TypeInv'
  BY StepTypeInv DEF LockInv
<1>3. CASE LibraryStep(t)
  <2>1. CASE Register(t) \/ RegVersion(t)
    BY <1>1, <1>3, <2>1, RegisterStep
  <2>2. CASE RegCommit(t)
    BY <1>1, <1>3, <2>2, EnterStep
  <2>3. CASE DerefCheck(t) \/ SendSyncRequest(t)
    BY <1>1, <1>3, <2>3, ReadStep
  <2>4. CASE TryLockCas(t)
    BY <1>1, <1>3, <2>4, CasStep
  <2>5. CASE \/ Checkpoint(t) \/ SyncEnter(t) \/ Publish(t) \/ BumpWriter(t)
             \/ InitQuiescence(t) \/ WaitQuiescence(t) \/ BumpCommit(t)
             \/ ProcessFree(t)
    BY <1>1, <1>3, <2>5, OutsideSteps
  <2> QED
    BY <1>1, <1>3, <2>1, <2>2, <2>3, <2>4, <2>5, UnlockObjStep,
       ResetAbortedStep, ResetSetsStep, WriteBackStep, RetractStep
       DEF LibraryStep
<1>4. CASE ClientStep(t)
  <2>1. CASE ReaderLock(t) \/ ThreadFinish(t)
    BY <1>1, <1>4, <2>1, OutsideSteps
  <2>2. ASSUME NEW o \in Objs,
               Deref(t, o) \/ TryLockHeld(t, o) \/ TryLockFree(t, o)
        PROVE LockInv'
    BY <1>1, <1>4, <2>2, ReadStep
  <2>3. ASSUME NEW o \in Objs, NEW v \in Vals, Assigns(t, o, v)
        PROVE LockInv'
    BY <1>1, <1>4, <2>3, WriteStep
  <2> QED
    BY <1>1, <1>4, <2>1, <2>2, <2>3, UnlockStep, AbortStep DEF ClientStep
<1> QED
  BY <1>3, <1>4

LEMMA NextLockInv == LockInv /\ [Next]_vars => LockInv'
  BY StutterLockInv, StepLockInv, CallIsStep DEF Next, Terminated

(* For every number of threads, objects and values, and every ring and      *)
(* window size allowed by ConstantsAssumption: a copy pointer an object     *)
(* publishes is exactly a log entry that still holds its lock, and no two   *)
(* write sets hold one object.  This is what the compare-and-swap of        *)
(* RLU_TRY_LOCK (rlu.c:904-914) and the resets of                           *)
(* rlu_writeback_and_unlock, rlu_unlock_objs and rlu_reset_write_set keep   *)
(* between them.                                                            *)
THEOREM LocksMatch == Spec => []LocksMatchLogs
<1>1. LockInv => LocksMatchLogs
  BY DEF LockInv
<1> QED
  BY InitLockInv, NextLockInv, <1>1, PTL DEF Spec

(* Whatever the sizes, a section never starts in a write set that has not   *)
(* been synced, nor in one with entries left from an earlier lap: the ring  *)
(* of RLU_MAX_WRITE_SETS sets indexed by WS_INDEX (rlu.c:40) and the limit  *)
(* that rlu_commit_write_set enforces (rlu.c:592-610) suffice.              *)
THEOREM RingIsFresh == Spec => []RingFresh
<1>1. LockInv => RingFresh
  <2> SUFFICES ASSUME LockInv, NEW t \in Threads,
                      pc[t] \in {"idle", "register", "regversion", "regcommit"}
               PROVE /\ Cur(t) \notin SlotsOf(t, head[t], tail[t])
                     /\ Locks(t, Cur(t)) = {} /\ shape[t][Cur(t)] = "whole"
    BY DEF RingFresh
  <2>1. TypeOK /\ RingOK(t) /\ EmptyOK(t)
    BY DEF LockInv, TypeInv, ThreadInv, At
  <2>2. ~Syncing(t) /\ ~Owns(t)
    BY DEF Syncing, Owns, InSection, At
  <2>3. Cur(t) \in Slots /\ Cur(t) \notin SlotsOf(t, head[t], tail[t])
    BY <2>1, <2>2, CurFresh, ThreadTypes
  <2> QED
    BY <2>1, <2>2, <2>3 DEF EmptyOK, InUse
<1> QED
  BY InitLockInv, NextLockInv, <1>1, PTL DEF Spec

-----------------------------------------------------------------------------
(* From the end of the write-back to the end of the sync every committed    *)
(* write set has been written back (rlu.c:574).                             *)
WrittenBackOK ==
  \A t \in Threads : pc[t] \in {"commit", "free"} => wb[t] = tail[t]

LEMMA InitWrittenBack == Init => WrittenBackOK
  BY DEF Init, WrittenBackOK

(* Only Retract leads there, and nobody commits before the sync is over.    *)
LEMMA StepWrittenBack ==
  ASSUME TypeOK, WrittenBackOK, NEW t \in Threads, LibraryStep(t) \/ ClientCall(t)
  PROVE  WrittenBackOK'
<1> SUFFICES ASSUME NEW u \in Threads, pc'[u] \in {"commit", "free"}
             PROVE  wb'[u] = tail'[u]
  BY DEF WrittenBackOK
<1> USE DEF TypeOK, At, Goto, CallSync, mem, clocks, section, locals, ring,
            logs, quiesce
<1>1. CASE Retract(t)
  BY <1>1 DEF Retract, WrittenBack, WrittenBackOK
<1>2. CASE BumpCommit(t)
  BY <1>2 DEF BumpCommit, WrittenBackOK
<1>3. CASE ReaderUnlock(t)
  <2>1. pc' = [pc EXCEPT ![t] = "checkpoint"] \/ pc' = [pc EXCEPT ![t] = "sync"]
    BY <1>3 DEF ReaderUnlock
  <2>2. u # t /\ pc[u] \in {"commit", "free"} BY <2>1
  <2>3. wb' = wb /\ tail'[u] = tail[u] BY <1>3, <2>2 DEF ReaderUnlock
  <2> QED BY <2>2, <2>3 DEF WrittenBackOK
<1>4. CASE SyncEnter(t) \/ ProcessFree(t)
  <2>1. pc' = [pc EXCEPT ![t] = ret[t]] \/ pc' = [pc EXCEPT ![t] = "publish"]
    BY <1>4 DEF SyncEnter, ProcessFree
  <2>2. ret[t] \notin {"commit", "free"} BY DEF Returns
  <2>3. UNCHANGED <<wb, tail>> BY <1>4 DEF SyncEnter, ProcessFree
  <2> QED BY <2>1, <2>2, <2>3 DEF WrittenBackOK
<1>5. CASE \/ Register(t) \/ RegVersion(t) \/ RegCommit(t) \/ DerefCheck(t)
           \/ SendSyncRequest(t) \/ TryLockCas(t) \/ UnlockObj(t)
           \/ ResetAborted(t) \/ Checkpoint(t)
  BY <1>5 DEF Register, RegVersion, RegCommit, DerefCheck, SendSyncRequest,
              TryLockCas, UnlockObj, ResetAborted, Checkpoint, WrittenBackOK
<1>6. CASE \/ Publish(t) \/ BumpWriter(t) \/ InitQuiescence(t)
           \/ WaitQuiescence(t) \/ ResetSets(t) \/ WriteBack(t)
  BY <1>6 DEF Publish, BumpWriter, InitQuiescence, WaitQuiescence, ResetSets,
              WriteBack, WrittenBackOK
<1>7. CASE ReaderLock(t) \/ Abort(t) \/ ThreadFinish(t)
  BY <1>7 DEF ReaderLock, Abort, ThreadFinish, WrittenBackOK
<1>8. ASSUME NEW o \in Objs, NEW v \in Vals,
             \/ Deref(t, o) \/ TryLockHeld(t, o) \/ TryLockFree(t, o)
             \/ Write(t, o, v)
      PROVE  wb'[u] = tail'[u]
  BY <1>8 DEF Deref, TryLockHeld, TryLockFree, Write, WrittenBackOK
<1>9. PICK v \in Vals : TRUE BY ConstantsAssumption
<1> QED
  BY <1>1, <1>2, <1>3, <1>4, <1>5, <1>6, <1>7, <1>8, <1>9
  DEF LibraryStep, ClientCall

LEMMA NextWrittenBack ==
  TypeOK /\ WrittenBackOK /\ [Next]_vars => WrittenBackOK'
<1>1. TypeOK /\ WrittenBackOK /\ UNCHANGED vars => WrittenBackOK'
  BY DEF WrittenBackOK, vars, ring
<1> QED BY <1>1, StepWrittenBack DEF Next, Terminated

(* A request is only taken back at the end of a sync.                       *)
LEMMA RequestCleared ==
  ASSUME TypeOK, NEW t \in Threads, NEW u \in Threads,
         LibraryStep(t) \/ ClientCall(t), isSync[u], ~isSync'[u]
  PROVE  ProcessFree(t) /\ u = t
<1>1. CASE SendSyncRequest(t) BY <1>1 DEF SendSyncRequest, TypeOK
<1>2. CASE ProcessFree(t) BY <1>2 DEF ProcessFree, TypeOK
<1>3. CASE LibraryStep(t) /\ ~SendSyncRequest(t) /\ ~ProcessFree(t)
  <2>1. isSync' = isSync
    BY <1>3 DEF LibraryStep, Register, RegVersion, RegCommit, DerefCheck,
      TryLockCas, UnlockObj, ResetAborted, Checkpoint, SyncEnter, Publish,
      BumpWriter, InitQuiescence, WaitQuiescence, ResetSets, WriteBack,
      Retract, BumpCommit
  <2> QED BY <2>1
<1>4. CASE ClientCall(t)
  <2>1. isSync' = isSync
    BY <1>4 DEF ClientCall, ReaderLock, ReaderUnlock, Abort, ThreadFinish,
      Deref, TryLockHeld, TryLockFree, Write
  <2> QED BY <2>1
<1> QED BY <1>1, <1>2, <1>3, <1>4

(* For any number of threads, objects and write sets: a request for a sync  *)
(* is taken back (rlu.c:578-580) only when the thread has no object locked. *)
THEOREM RequestsAreServed == Spec => RequestsServed
<1>1. TypeOK /\ LockInv /\ WrittenBackOK /\ [Next]_vars =>
        [\A t \in Threads : isSync[t] /\ ~isSync'[t] =>
           \A o \in Objs : copyOf'[o].thread # t]_vars
  <2> SUFFICES ASSUME TypeOK, LockInv, WrittenBackOK, Next,
                      NEW t \in Threads, isSync[t], ~isSync'[t], NEW o \in Objs
               PROVE  copyOf'[o].thread # t
    OBVIOUS
  <2>1. ~Crashed /\ ProcessFree(t)
    BY RequestCleared DEF Next, Terminated, vars
  <2>2. wb[t] = tail[t] /\ pc[t] = "free" /\ copyOf' = copyOf
    BY <2>1 DEF ProcessFree, At, WrittenBackOK
  <2>3. tail[t] \in Nat /\ copyOf[o] \in CopyPtrs \cup {NoCopy}
    BY DEF TypeOK
  <2>4. Pending(t) = {} BY <2>2, <2>3 DEF Pending, SlotsOf
  <2>5. ASSUME NEW s \in Slots PROVE copyOf[o] # CopyPtr(t, s)
    <3>1. o \notin Held(t, s)
      BY <2>2, <2>4 DEF Held, InSection, At
    <3> QED BY <2>1, <3>1 DEF LockInv, LocksMatchLogs
  <2> QED BY <2>2, <2>3, <2>5, ConstantsAssumption
          DEF CopyPtrs, CopyPtr, NoCopy, Threads
<1>2. LockInv => TypeOK BY DEF LockInv, TypeInv
<1> QED
  BY InitLockInv, NextLockInv, InitWrittenBack, NextWrittenBack, <1>1, <1>2,
     PTL DEF Spec, RequestsServed

=============================================================================
