-------------------------- MODULE RluReclaimProofs --------------------------
(***************************************************************************)
(* TLAPS proves of the clients of RluReclaim, for any number of threads,   *)
(* nodes and write sets, that no section has a way to a freed node, and    *)
(* that nothing is freed twice, as long as no two writers have taken the   *)
(* same version.                                                           *)
(*                                                                         *)
(* The argument follows a node from the section that removes it            *)
(* (RemovingOK) over the commit and the write-back (GoneOK) to             *)
(* rlu_process_free (FreedOK).  From the commit on no copy of the parent   *)
(* leads to it, the parent itself only until it is written back, and a     *)
(* section that still has a way to it (MaySee) is one that does not read   *)
(* what the remover has committed: the sync of the remover waits for it    *)
(* (AwaitInv of RluVersionProofs), so that when the write-back begins      *)
(* there is none left.                                                     *)
(***************************************************************************)
EXTENDS RluReclaim, RluVersionProofs

(* The section of t has a way to the node n, or will have one without       *)
(* looking at a header again: it has looked at n, or has a child slot with  *)
(* n in it, or is about to get one of these.                                *)
MaySee(t, n) ==
  /\ InSection(t)
  /\ \/ Seen(t, n)
     \/ Seen(t, Root) /\ Child(t) = n
     \/ pc[t] \in {"deref", "cas"} /\ arg[t] = n
     \/ /\ At(t, "deref") /\ arg[t] = Root
        /\ \E w \in Threads, s \in Slots :
             /\ ptr[t] = CopyPtr(w, s)
             /\ \/ Shows(t, w) /\ log[w][s][Root] = n
                \/ ~(Shows(t, w) /\ Committed(Root, w, s)) /\ actual[Root] = n

(* The copy of the root, if it has one, does not lead to n.                 *)
Unlinked(n) ==
  \A w \in Threads, s \in Slots :
    copyOf[Root] = CopyPtr(w, s) => log[w][s][Root] # n

(* A section that removes n has it locked, and the slot is empty; ...       *)
Removing(w, n) == n \in freeList[w] /\ InSection(w) /\ HoldsLock(w, n)
RemovingOK(w, n) ==
  Removing(w, n) => At(w, "in") /\ log[w][Cur(w)][Root] = Nil

(* ... then n is gone for whoever comes after the commit.                   *)
Gone(w, n) == n \in freeList[w] /\ ~Removing(w, n)
GoneOK(w, n) ==
  Gone(w, n) =>
    /\ Unlinked(n)
    /\ actual[Root] = n => \E s \in Slots : Committed(Root, w, s)
    /\ \/ \E s \in Slots : Committed(n, w, s)
       \/ copyOf[n] = NoCopy /\ pc[w] \in {"writeback", "commit", "free"}
    /\ \A t \in Threads : MaySee(t, n) =>
         ~Shows(t, w) /\ pc[w] \notin {"commit", "free"}

(* A free node is out of reach: nothing leads to it, and nobody has it      *)
(* locked or has a way to it.                                               *)
Unreachable(n) ==
  /\ Unlinked(n) /\ actual[Root] # n /\ copyOf[n] = NoCopy
  /\ \A t \in Threads : ~MaySee(t, n)
FreedOK(n) == n \in freed => Unreachable(n)

NodesOK ==
  \A n \in Nodes : /\ actual[n] = Nil
                   /\ \A t \in Threads, s \in Slots : log[t][s][n] \in {Nil, NoVal}
ListsOK ==
  /\ freed \subseteq Nodes
  /\ \A w \in Threads : freeList[w] \subseteq Nodes /\ freeList[w] \cap freed = {}
  /\ \A w, v \in Threads : w # v => freeList[w] \cap freeList[v] = {}

ReclaimOK ==
  /\ NodesOK /\ ListsOK
  /\ \A n \in Nodes : FreedOK(n) /\ \A w \in Threads : GoneOK(w, n) /\ RemovingOK(w, n)
-----------------------------------------------------------------------------
(* What the proof rests on as long as the program runs.                     *)
Ground ==
  /\ ViewInv /\ BoundInv /\ VersionsBounded /\ ~Crashed
  /\ AwaitInv /\ ActiveOK /\ NoRace
  /\ \A t \in Threads : NewerOK(t) /\ FlagsOK(t)
  /\ ReclaimOK

Step(u) == LibraryStep(u) \/ Call(u)

LEMMA NodeTypes == Root \in Objs /\ Nodes \subseteq Objs /\ Root \notin Nodes
  BY ReclaimAssumption DEF Nodes

(* A node that is taken from the free ones holds what a new one holds, and  *)
(* is not locked, so that this client is one of those of Rlu.               *)
LEMMA AddIsWrite ==
  ASSUME Ground, NEW u \in Threads, AddChild(u)
  PROVE \E n \in Nodes : /\ n \in freed /\ freed' = freed \ {n}
                         /\ Assigns(u, Root, n) /\ freeList' = freeList
<1>1. PICK n \in Nodes : Alloc(n, Nil) /\ Assign(u, Root, n)
  BY DEF AddChild
<1>2. actual[n] = Nil /\ copyOf[n] = NoCopy
  BY <1>1 DEF Ground, ReclaimOK, NodesOK, FreedOK, Unreachable, Alloc
<1>3. actual \in [Objs -> Vals] /\ copyOf \in [Objs -> CopyPtrs \cup {NoCopy}]
  BY DEF Ground, ViewInv, LockInv, TypeInv, TypeOK
<1>4. actual' = actual /\ copyOf' = copyOf
  BY <1>1, <1>2, <1>3 DEF Alloc
<1> QED
  BY <1>1, <1>4 DEF Alloc, AddChild, Assigns, Untouched

LEMMA RemoveIsWrite ==
  ASSUME NEW u \in Threads, RemoveChild(u)
  PROVE \E n \in Nodes : /\ HoldsLock(u, n) /\ HoldsLock(u, Root) /\ At(u, "in")
                         /\ Assigns(u, Root, Nil) /\ Free(u, n) /\ freed' = freed
  BY NodeTypes DEF RemoveChild, BothLocked, Assigns, Untouched, mem

LEMMA StepIsClient ==
  ASSUME Ground, NEW u \in Threads, Step(u)
  PROVE LibraryStep(u) \/ ClientStep(u)
<1>1. CASE AddChild(u)
  BY <1>1, AddIsWrite, NodeTypes, ReclaimAssumption DEF ClientStep
<1>2. CASE RemoveChild(u)
  BY <1>2, RemoveIsWrite, NodeTypes, ReclaimAssumption DEF ClientStep
<1>3. CASE Seen(u, Root) /\ Child(u) \in Nodes /\ Deref(u, Child(u))
  BY <1>3, NodeTypes DEF ClientStep
<1> QED
  BY <1>1, <1>2, <1>3, NodeTypes
     DEF Step, Call, AddFails, LookAtParent, LookAtChild, LockParent, LockChild,
         TryLock, ClientStep

-----------------------------------------------------------------------------
(* The step does not give out the memory of n.                              *)
Stays(n) == n \in freed => n \in freed'

(* A reset empties logs.                                                    *)
LEMMA EmptiedLogs ==
  ASSUME TypeOK, NEW u \in Threads, ResetAborted(u) \/ ResetSets(u),
         NEW v \in Threads, NEW r \in Slots
  PROVE log'[v][r] = log[v][r] \/ log'[v][r] = EmptyLog
<1>1. log \in [Threads -> [Slots -> [Objs -> Vals \cup {NoVal}]]]
  BY DEF TypeOK
<1>2. CASE ResetAborted(u)
  BY <1>1, <1>2 DEF ResetAborted
<1>3. CASE ResetSets(u)
  <2>1. log' = [log EXCEPT ![u] =
                  [s \in Slots |-> IF s \in OldSets(u) THEN EmptyLog
                                  ELSE log[u][s]]]
    BY <1>3 DEF ResetSets
  <2> QED
    BY <1>1, <2>1
<1> QED
  BY <1>2, <1>3

(* A copy of the root gets n in its slot from the root only.                *)
CopiesRoot(u) == TryLockCas(u) /\ CasSucceeds(u) /\ arg[u] = Root
LEMMA RootLogStep ==
  ASSUME Ground, NEW u \in Threads, Step(u), NEW n \in Nodes, Stays(n),
         NEW w \in Threads, NEW s \in Slots, log'[w][s][Root] = n
  PROVE \/ log[w][s][Root] = n
        \/ w = u /\ s = Cur(u) /\ CopiesRoot(u) /\ actual[Root] = n
<1> USE DEF mem, clocks, section, locals, ring, logs, quiesce
<1>1. /\ log \in [Threads -> [Slots -> [Objs -> Vals \cup {NoVal}]]]
      /\ n \in Vals /\ n # NoVal /\ n # Nil /\ Root \in Objs /\ Cur(u) \in Slots
      /\ TypeOK
      /\ LibraryStep(u) \/ ClientStep(u)
  BY NodeTypes, ReclaimAssumption, ConstantsAssumption, CurType, StepIsClient
     DEF Ground, ViewInv, LockInv, TypeInv, TypeOK
<1>2. CASE UNCHANGED log
  BY <1>2
<1>3. CASE TryLockCas(u)
  <2>1. PICK o \in Objs : o = arg[u]
    BY <1>3 DEF TryLockCas, Ground, ViewInv, LockInv, TypeInv, OperandsOK, At
  <2>2. CASE CasSucceeds(u)
    <3>1. log' = [log EXCEPT ![u][Cur(u)][o] = actual[o]]
      BY <1>3, <2>1, <2>2 DEF TryLockCas
    <3> QED
      BY <1>1, <1>3, <2>1, <2>2, <3>1 DEF CopiesRoot
  <2> QED
    BY <1>2, <1>3, <2>2 DEF TryLockCas
<1>4. CASE ResetAborted(u) \/ ResetSets(u)
  BY <1>1, <1>4, EmptiedLogs DEF EmptyLog
<1>5. CASE AddChild(u)
  <2>1. PICK q \in Nodes : q \in freed /\ freed' = freed \ {q} /\ Assigns(u, Root, q)
    BY <1>5, AddIsWrite
  <2>2. q # n
    BY <2>1 DEF Stays
  <2> QED
    BY <1>1, <2>1, <2>2 DEF Assigns, Assign
<1>6. CASE RemoveChild(u)
  BY <1>1, <1>6, RemoveIsWrite DEF Assigns, Assign
<1>7. CASE LibraryStep(u) /\ ~(TryLockCas(u) \/ ResetAborted(u) \/ ResetSets(u))
  BY <1>2, <1>7 DEF LibraryStep, Register, RegVersion, RegCommit, DerefCheck,
     SendSyncRequest, UnlockObj, Checkpoint, SyncEnter, Publish, BumpWriter,
     InitQuiescence, WaitQuiescence, WriteBack, Retract, BumpCommit, ProcessFree
<1>8. CASE Call(u) /\ ~(AddChild(u) \/ RemoveChild(u))
  BY <1>2, <1>8 DEF Call, ReaderLock, ThreadFinish, AddFails, Abort, ReaderUnlock,
     LookAtParent, LookAtChild, LockParent, LockChild, TryLock, Deref,
     TryLockHeld, TryLockFree
<1> QED
  BY <1>3, <1>4, <1>5, <1>6, <1>7, <1>8 DEF Step

(* A header changes by the first lock, by an unlock and by a write-back.    *)
LEMMA HeaderStep ==
  ASSUME Ground, NEW u \in Threads, Step(u), NEW o \in Objs
  PROVE \/ copyOf'[o] = copyOf[o] \/ copyOf'[o] = NoCopy
        \/ /\ TryLockCas(u) /\ CasSucceeds(u) /\ At(u, "cas") /\ arg[u] = o
           /\ copyOf'[o] = CopyPtr(u, Cur(u))
<1> USE DEF mem, clocks, section, locals, ring, logs, quiesce
<1>1. /\ copyOf \in [Objs -> CopyPtrs \cup {NoCopy}]
      /\ LibraryStep(u) \/ ClientStep(u)
  BY StepIsClient DEF Ground, ViewInv, LockInv, TypeInv, TypeOK
<1>2. CASE UNCHANGED copyOf
  BY <1>2
<1>3. CASE TryLockCas(u)
  BY <1>1, <1>3 DEF TryLockCas
<1>4. CASE UnlockObj(u) \/ WriteBack(u)
  BY <1>1, <1>4 DEF UnlockObj, WriteBack
<1> QED
  BY <1>1, <1>2, <1>3, <1>4
     DEF LibraryStep, ClientStep, Register, RegVersion, RegCommit, DerefCheck,
         SendSyncRequest, ResetAborted, Checkpoint, SyncEnter, Publish,
         BumpWriter, InitQuiescence, WaitQuiescence, ResetSets, Retract,
         BumpCommit, ProcessFree, ReaderLock, ThreadFinish, ReaderUnlock, Abort,
         Deref, TryLockHeld, TryLockFree, Assigns

(* So the copy of the root does not lead to n again.                        *)
LEMMA UnlinkedStep ==
  ASSUME Ground, NEW u \in Threads, Step(u), NEW n \in Nodes, Stays(n),
         Unlinked(n), copyOf[Root] = NoCopy => actual[Root] # n
  PROVE Unlinked(n)'
<1> SUFFICES ASSUME NEW w \in Threads, NEW s \in Slots,
                    copyOf'[Root] = CopyPtr(w, s), log'[w][s][Root] = n
             PROVE FALSE
  BY DEF Unlinked, CopyPtr
<1>1. Cur(u) \in Slots
  BY CurType DEF Ground, ViewInv, LockInv, TypeInv
<1>2. CASE log[w][s][Root] = n
  <2>1. copyOf[Root] # CopyPtr(w, s)
    BY <1>2 DEF Unlinked
  <2>2. CopiesRoot(u) /\ copyOf'[Root] = CopyPtr(u, Cur(u))
    BY <2>1, HeaderStep, NodeTypes, Pointers DEF CopiesRoot
  <2>3. w = u /\ s = Cur(u)
    <3>1. CopyPtr(w, s) = CopyPtr(u, Cur(u))
      BY <2>2
    <3> QED
      BY <1>1, <3>1, Pointers
  <2>4. log'[u][Cur(u)][Root] = actual[Root] /\ copyOf[Root] = NoCopy
    <3>1. log' = [log EXCEPT ![u][Cur(u)][Root] = actual[Root]]
      BY <2>2 DEF CopiesRoot, TryLockCas
    <3>2. log \in [Threads -> [Slots -> [Objs -> Vals \cup {NoVal}]]]
      BY DEF Ground, ViewInv, LockInv, TypeInv, TypeOK
    <3> QED
      BY <1>1, <2>2, <3>1, <3>2, NodeTypes DEF CopiesRoot, CasSucceeds
  <2> QED
    BY <2>3, <2>4
<1>3. CASE CopiesRoot(u) /\ actual[Root] = n
  BY <1>3 DEF CopiesRoot, CasSucceeds
<1> QED
  BY <1>2, <1>3, RootLogStep

(* Nor does the slot itself, and who reads it goes on to read n there only  *)
(* while the copy that replaces it is not written back.                     *)
LEMMA SlotStep ==
  ASSUME Ground, NEW u \in Threads, Step(u), NEW n \in Nodes, Unlinked(n),
         actual'[Root] = n
  PROVE /\ actual[Root] = n
        /\ \A w \in Threads, s \in Slots :
             Committed(Root, w, s) => Committed(Root, w, s)'
<1>1. CASE SameObj(Root)
  BY <1>1 DEF SameObj
<1>2. CASE CommitsObj(u, Root)
  BY <1>2 DEF CommitsObj, ReaderUnlock, mem
<1>3. CASE WritesObj(u, Root)
  BY <1>3 DEF WritesObj, Unlinked, Committed
<1> QED
  BY <1>1, <1>2, <1>3, ObjStep, StepIsClient, NodeTypes DEF Ground, ViewInv

(* No section but the one that moves gets a way to n.                       *)
LEMMA OthersSee ==
  ASSUME Ground, NEW u \in Threads, Step(u), ~At(u, "crashed")',
         NEW n \in Nodes, Stays(n), Unlinked(n),
         NEW t \in Threads \ {u}, MaySee(t, n)'
  PROVE MaySee(t, n)
<1>1. /\ LibraryStep(u) \/ ClientStep(u)
      /\ Same(t) /\ ViewInv /\ ~Crashed /\ TypeOK
      /\ view[t] \in [Objs -> CopyPtrs \cup {Actual, Unseen}]
  BY StepIsClient, OwnDataOnly, Functions
     DEF Ground, ViewInv, LockInv, TypeInv, Others
<1>2. InSection(t) /\ Keeps(t)
  BY <1>1, SameSync, SectionStep DEF MaySee
<1>3. CASE Seen(t, n)' \/ (pc'[t] \in {"deref", "cas"} /\ arg'[t] = n)
  BY <1>1, <1>2, <1>3 DEF MaySee, Seen, Same
<1>4. CASE Seen(t, Root)' /\ Child(t)' = n
  <2>1. Seen(t, Root) /\ view'[t][Root] = view[t][Root]
    BY <1>1, <1>4 DEF Seen, Same
  <2>2. CASE view[t][Root] = Actual
    BY <1>2, <1>4, <2>1, <2>2, SlotStep DEF Child, Val, MaySee
  <2>3. CASE view[t][Root] # Actual
    <3>1. PICK w \in Threads, s \in Slots : view[t][Root] = CopyPtr(w, s)
      BY <1>1, <2>1, <2>3, NodeTypes, PointerOf DEF Seen
    <3>2. log'[w][s] = log[w][s]
      BY <1>1, <3>1, NodeTypes, StolenKept DEF Same
    <3>3. Child(t)' = log'[w][s][Root] /\ Child(t) = log[w][s][Root]
      BY <2>1, <2>3, <3>1, Pointers DEF Child, Val
    <3> QED
      BY <1>2, <1>4, <2>1, <3>2, <3>3 DEF MaySee
  <2> QED
    BY <2>2, <2>3
<1>5. ASSUME At(t, "deref")', arg'[t] = Root, NEW w \in Threads, NEW s \in Slots,
             ptr'[t] = CopyPtr(w, s),
             \/ Shows(t, w)' /\ log'[w][s][Root] = n
             \/ ~(Shows(t, w)' /\ Committed(Root, w, s)') /\ actual'[Root] = n
      PROVE MaySee(t, n)
  <2>1. At(t, "deref") /\ arg[t] = Root /\ ptr[t] = CopyPtr(w, s)
    BY <1>1, <1>5 DEF Same, At
  <2>4. w # t
    BY <1>1, <2>1, Pointers DEF ViewInv, OwnOK
  <2>2. CASE Shows(t, w)' /\ log'[w][s][Root] = n
    <3>1. Shows(t, w)
      BY <1>1, <1>2, <2>2, ShowsStep
    <3>2. s \in Pending(w)
      BY <1>1, <2>1, <2>4, <3>1 DEF Shows, ViewInv, LoadedOK
    <3>3. log'[w][s] = log[w][s]
      BY <1>1, <3>2, PendingKept DEF ViewInv
    <3> QED
      BY <1>2, <2>1, <2>2, <3>1, <3>3 DEF MaySee
  <2>3. CASE ~(Shows(t, w)' /\ Committed(Root, w, s)') /\ actual'[Root] = n
    <3>1. actual[Root] = n /\ (Committed(Root, w, s) => Committed(Root, w, s)')
      BY <2>3, SlotStep
    <3>2. ~(Shows(t, w) /\ Committed(Root, w, s))
      <4> SUFFICES ASSUME Shows(t, w), Committed(Root, w, s) PROVE FALSE
        OBVIOUS
      <4>1. w = u /\ Retract(u)
        BY <1>1, <1>2, <2>3, <3>1, ShowsStep
      <4> QED
        BY <1>1, <4>1, NoneLeft, NodeTypes DEF Retract, ViewInv
    <3> QED
      BY <1>2, <2>1, <3>1, <3>2 DEF MaySee
  <2> QED
    BY <1>5, <2>2, <2>3
<1> QED
  BY <1>3, <1>4, <1>5 DEF MaySee, CopyPtr

(* What a section does while it goes on.                                    *)
LEMMA SectionCall ==
  ASSUME Ground, NEW u \in Threads, Step(u), InSection(u), InSection(u)'
  PROVE \/ DerefCheck(u) /\ At(u, "deref")
        \/ TryLockCas(u) /\ At(u, "cas")
        \/ SendSyncRequest(u) \/ AddChild(u) \/ RemoveChild(u)
        \/ \E o \in Objs : Deref(u, o) /\ (o = Root \/ (Seen(u, Root) /\ Child(u) = o))
        \/ \E o \in Objs : Seen(u, o) /\ (TryLockHeld(u, o) \/ TryLockFree(u, o))
<1>1. pc \in [Threads -> Labels] /\ Root \in Objs /\ Nodes \subseteq Objs
  BY NodeTypes, Functions DEF Ground, ViewInv, LockInv, TypeInv
<1>2. CASE LibraryStep(u)
  BY <1>2 DEF InSection, At, LibraryStep, Register, RegVersion, RegCommit,
     DerefCheck, SendSyncRequest, TryLockCas, UnlockObj, ResetAborted, Checkpoint,
     SyncEnter, Publish, BumpWriter, InitQuiescence, WaitQuiescence, ResetSets,
     WriteBack, Retract, BumpCommit, ProcessFree
<1>3. CASE ReaderUnlock(u) \/ Abort(u)
  <2>1. \E l \in {"sync", "checkpoint", "crashed", "unlockobjs"} :
          pc' = [pc EXCEPT ![u] = l]
    BY <1>3 DEF ReaderUnlock, Abort, Goto, CallSync
  <2> QED
    BY <1>1, <2>1 DEF InSection
<1>4. CASE ReaderLock(u) \/ ThreadFinish(u)
  BY <1>4 DEF ReaderLock, ThreadFinish, InSection, At
<1>5. CASE LookAtParent(u) \/ LookAtChild(u)
  BY <1>1, <1>5 DEF LookAtParent, LookAtChild
<1>6. CASE LockParent(u) \/ \E o \in Nodes : LockChild(u, o)
  BY <1>1, <1>6 DEF LockParent, LockChild, TryLock
<1> QED
  BY <1>2, <1>3, <1>4, <1>5, <1>6 DEF Step, Call, AddFails

(* A section that reads the root itself, and finds n.                       *)
ReadsSlot(t, n) ==
  /\ actual[Root] = n
  /\ \A w \in Threads, s \in Slots : Committed(Root, w, s) => ~Shows(t, w)

(* It does when rlu_deref returns the object, ...                           *)
LEMMA FlagsRead ==
  ASSUME Ground, NEW u \in Threads, InSection(u),
         \/ ~check[u] \/ copyOf[Root] = NoCopy
         \/ copyOf[Root].thread # u /\ ~steal[u],
         NEW w \in Threads, NEW s \in Slots, Committed(Root, w, s)
  PROVE ~Shows(u, w)
<1>1. copyOf[Root] = CopyPtr(w, s) /\ s \in Pending(w) /\ FlagsOK(u) /\ TypeOK
  BY DEF Committed, Ground, ViewInv, LockInv, TypeInv
<1>2. copyOf[Root].thread = w /\ copyOf[Root] # NoCopy
  BY <1>1, Pointers
<1>3. CASE ~check[u]
  <2>1. ~steal[u] /\ tail[u] = wb[u] /\ tail[u] \in Nat
    BY <1>1, <1>3, ThreadTypes DEF FlagsOK
  <2>2. Pending(u) = {}
    BY <2>1 DEF Pending, SlotsOf
  <2> QED
    BY <1>1, <2>1, <2>2 DEF FlagsOK
<1> QED
  BY <1>1, <1>2, <1>3 DEF FlagsOK

(* ... and when it locks it.                                                *)
LEMMA CasReads ==
  ASSUME Ground, NEW u \in Threads, NEW n \in Nodes, copyOf[Root] = NoCopy,
         actual[Root] = n
  PROVE ReadsSlot(u, n)
  BY Pointers DEF ReadsSlot, Committed

(* What a section has read of the root before leads to n only then.         *)
LEMMA ChildKept ==
  ASSUME Ground, NEW u \in Threads, Step(u), NEW n \in Nodes, Stays(n),
         Unlinked(n), view'[u][Root] = view[u][Root], Seen(u, Root)',
         Child(u)' = n
  PROVE (Seen(u, Root) /\ Child(u) = n) \/ ReadsSlot(u, n)
<1>1. view[u][Root] \in CopyPtrs \cup {Actual, Unseen} /\ Seen(u, Root)
  BY NodeTypes, Functions DEF Ground, ViewInv, LockInv, TypeInv, Seen
<1>2. CASE view[u][Root] = Actual
  BY <1>1, <1>2, SlotStep DEF Child, Val
<1>3. CASE view[u][Root] # Actual
  <2>1. PICK w \in Threads, s \in Slots : view[u][Root] = CopyPtr(w, s)
    BY <1>1, <1>3, PointerOf DEF Seen
  <2>2. Child(u)' = log'[w][s][Root] /\ Child(u) = log[w][s][Root]
    BY <1>3, <2>1, Pointers DEF Child, Val
  <2>3. CASE CopiesRoot(u) /\ actual[Root] = n
    BY <2>3, CasReads DEF CopiesRoot, CasSucceeds
  <2> QED
    BY <1>1, <2>2, <2>3, RootLogStep
<1> QED
  BY <1>2, <1>3

(* The pointer that a section gets for the root.                            *)
LEMMA RootSeen ==
  ASSUME Ground, NEW u \in Threads, Step(u), InSection(u), InSection(u)',
         NEW n \in Nodes, Unlinked(n), view'[u][Root] # view[u][Root],
         Child(u)' = n
  PROVE MaySee(u, n) \/ ReadsSlot(u, n)
<1> USE DEF mem, clocks, section, locals, ring, logs, quiesce
<1>1. /\ TypeOK /\ view \in [Threads -> [Objs -> CopyPtrs \cup {Actual, Unseen}]]
      /\ log \in [Threads -> [Slots -> [Objs -> Vals \cup {NoVal}]]]
      /\ Root \in Objs /\ Nodes \subseteq Objs /\ Cur(u) \in Slots
      /\ copyOf \in [Objs -> CopyPtrs \cup {NoCopy}] /\ ViewInv /\ ~Crashed
      /\ NoRace /\ VersionsBounded
  BY NodeTypes, CurType, Functions DEF Ground, ViewInv, LockInv, TypeInv, TypeOK
<1>2. ASSUME DerefCheck(u), At(u, "deref") PROVE MaySee(u, n)
  <2>1. arg[u] = Root /\ UNCHANGED <<actual, log>>
    BY <1>1, <1>2 DEF DerefCheck, See
  <2>2. PICK w \in Threads, s \in Slots : ptr[u] = CopyPtr(w, s)
    BY <1>1, <1>2, PointerOf DEF ViewInv, LockInv, TypeInv, OperandsOK, At
  <2>3. w # u /\ ptr[u].thread = w /\ ptr[u].slot = s
    BY <1>2, <2>2, Pointers, <1>1 DEF ViewInv, OwnOK
  <2>4. Steals(u) <=> Shows(u, w)
    BY <1>1, <2>3, StealsShown
  <2>5. CASE Steals(u)
    <3>1. view'[u][Root] = CopyPtr(w, s)
      BY <1>1, <1>2, <2>1, <2>2, <2>5 DEF DerefCheck, See
    <3>2. Child(u)' = log[w][s][Root]
      BY <2>1, <3>1, Pointers DEF Child, Val
    <3> QED
      BY <1>2, <2>1, <2>2, <2>4, <2>5, <3>2 DEF MaySee
  <2>6. CASE ~Steals(u)
    <3>1. view'[u][Root] = Actual
      BY <1>1, <1>2, <2>1, <2>6 DEF DerefCheck, See
    <3>2. Child(u)' = actual[Root]
      BY <2>1, <3>1 DEF Child, Val
    <3> QED
      BY <1>2, <2>1, <2>2, <2>4, <2>6, <3>2 DEF MaySee
  <2> QED
    BY <2>5, <2>6
<1>3. ASSUME TryLockCas(u) PROVE ReadsSlot(u, n)
  <2>1. CasSucceeds(u) /\ arg[u] = Root
    BY <1>1, <1>3 DEF TryLockCas, See
  <2>2. /\ view'[u][Root] = CopyPtr(u, Cur(u))
        /\ log'[u][Cur(u)][Root] = actual[Root]
    BY <1>1, <1>3, <2>1 DEF TryLockCas, See
  <2>3. Child(u)' = actual[Root]
    BY <1>1, <2>2, Pointers DEF Child, Val
  <2> QED
    BY <2>1, <2>3, CasReads DEF CasSucceeds
<1>4. ASSUME NEW p \in CopyPtrs, view'[u][Root] = p, copyOf[Root] = p,
             UNCHANGED log
      PROVE FALSE
  <2>1. PICK w \in Threads, s \in Slots : p = CopyPtr(w, s)
    BY PointerOf
  <2>2. Child(u)' = log[w][s][Root]
    BY <1>4, <2>1, Pointers DEF Child, Val
  <2> QED
    BY <1>4, <2>1, <2>2 DEF Unlinked
<1>5. ASSUME Deref(u, Root) PROVE ReadsSlot(u, n)
  <2>1. CASE OwnCopy(u, Root) /\ See(u, Root, copyOf[Root])
    <3>1. copyOf[Root] \in CopyPtrs
      BY <1>1, <2>1 DEF OwnCopy, NoCopy, Threads
    <3>2. view'[u][Root] = copyOf[Root]
      BY <1>1, <2>1 DEF See
    <3> QED
      BY <1>4, <1>5, <3>1, <3>2 DEF Deref
  <2>2. CASE /\ \/ ~check[u] \/ copyOf[Root] = NoCopy
                \/ copyOf[Root].thread # u /\ ~steal[u]
             /\ See(u, Root, Actual)
    <3>1. view'[u][Root] = Actual
      BY <1>1, <2>2 DEF See
    <3>2. Child(u)' = actual[Root]
      BY <1>5, <3>1 DEF Child, Val, Deref
    <3> QED
      BY <2>2, <3>2, FlagsRead DEF ReadsSlot
  <2> QED
    BY <1>5, <2>1, <2>2 DEF Deref
<1>6. ASSUME TryLockHeld(u, Root) PROVE FALSE
  <2>1. See(u, Root, copyOf[Root]) /\ copyOf[Root] # NoCopy
    BY <1>6 DEF TryLockHeld
  <2>2. view'[u][Root] = copyOf[Root] /\ copyOf[Root] \in CopyPtrs
    BY <1>1, <2>1 DEF See
  <2> QED
    BY <1>4, <1>6, <2>2 DEF TryLockHeld
<1>7. ASSUME NEW o \in Objs, Deref(u, o) \/ TryLockHeld(u, o) PROVE o = Root
  BY <1>1, <1>7 DEF Deref, TryLockHeld, See
<1>8. ~AddChild(u) /\ ~RemoveChild(u) /\ ~SendSyncRequest(u)
  BY DEF AddChild, RemoveChild, SendSyncRequest, Untouched
<1>9. ASSUME NEW o \in Objs PROVE ~TryLockFree(u, o)
  BY DEF TryLockFree
<1> QED
  BY <1>2, <1>3, <1>5, <1>6, <1>7, <1>8, <1>9, SectionCall

(* A section gets a way to n from the slot, or from a way it has.           *)
LEMMA OwnSee ==
  ASSUME Ground, NEW u \in Threads, Step(u), ~At(u, "crashed")',
         NEW n \in Nodes, Stays(n), Unlinked(n), MaySee(u, n)'
  PROVE MaySee(u, n) \/ ReadsSlot(u, n)
<1> USE DEF mem, clocks, section, locals, ring, logs, quiesce
<1>1. /\ TypeOK /\ view \in [Threads -> [Objs -> CopyPtrs \cup {Actual, Unseen}]]
      /\ pc \in [Threads -> Labels] /\ arg \in [Threads -> Objs \cup {NoObj}]
      /\ ptr \in [Threads -> CopyPtrs \cup {NoCopy}]
      /\ Root \in Objs /\ Nodes \subseteq Objs /\ n # Root /\ n \in Objs
      /\ ViewInv /\ ~Crashed /\ (LibraryStep(u) \/ ClientStep(u))
  BY NodeTypes, StepIsClient, Functions DEF Ground, ViewInv, LockInv, TypeInv
<1>2. InSection(u)' /\ Keeps(u)
  BY <1>1, SectionStep DEF MaySee
<1>3. InSection(u)
  <2> SUFFICES ASSUME ~InSection(u) PROVE FALSE
    OBVIOUS
  <2>1. RegCommit(u)
    BY <1>1, <1>2, SectionStep
  <2>2. \A o \in Objs : view'[u][o] = Unseen
    BY <1>1, <2>1 DEF ViewInv, OwnOK, RegCommit
  <2>3. pc'[u] = "in"
    BY <1>1, <2>1 DEF RegCommit, Goto
  <2> QED
    BY <1>1, <2>2, <2>3 DEF MaySee, Seen, At
<1>4. ASSUME Seen(u, n)', ~Seen(u, n) PROVE MaySee(u, n)
  <2>1. view'[u][n] # view[u][n]
    BY <1>4 DEF Seen
  <2>2. CASE DerefCheck(u) /\ At(u, "deref")
    BY <1>1, <1>3, <2>1, <2>2 DEF DerefCheck, See, MaySee, At
  <2>3. CASE TryLockCas(u) /\ At(u, "cas")
    BY <1>1, <1>3, <2>1, <2>3 DEF TryLockCas, See, MaySee, At
  <2>4. ASSUME NEW o \in Objs, Deref(u, o) \/ TryLockHeld(u, o) PROVE o = n
    BY <1>1, <2>1, <2>4 DEF Deref, TryLockHeld, See
  <2>5. /\ ~AddChild(u) /\ ~RemoveChild(u) /\ ~SendSyncRequest(u)
        /\ \A o \in Objs : ~TryLockFree(u, o)
    BY <2>1 DEF AddChild, RemoveChild, SendSyncRequest, Untouched, TryLockFree
  <2> QED
    BY <1>1, <1>2, <1>3, <1>4, <2>2, <2>3, <2>4, <2>5, SectionCall DEF MaySee
<1>5. ASSUME Seen(u, Root)', Child(u)' = n PROVE MaySee(u, n) \/ ReadsSlot(u, n)
  BY <1>2, <1>3, <1>5, ChildKept, RootSeen DEF MaySee
<1>6. ASSUME pc'[u] \in {"deref", "cas"}
      PROVE \E o \in Objs :
              /\ arg'[u] = o
              /\ \/ Deref(u, o) /\ (o = Root \/ (Seen(u, Root) /\ Child(u) = o))
                 \/ Seen(u, o)
  <2>1. ~DerefCheck(u) /\ ~TryLockCas(u) /\ ~SendSyncRequest(u)
    BY <1>1, <1>6 DEF DerefCheck, TryLockCas, SendSyncRequest, Goto
  <2>2. ~AddChild(u) /\ ~RemoveChild(u)
    BY <1>1, <1>6 DEF AddChild, RemoveChild, Untouched, At
  <2>3. ASSUME NEW o \in Objs, Deref(u, o) PROVE arg'[u] = o
    BY <1>1, <1>6, <2>3 DEF Deref, At, Goto
  <2>4. ASSUME NEW o \in Objs PROVE ~TryLockHeld(u, o)
    BY <1>1, <1>6 DEF TryLockHeld, Goto, At
  <2>5. ASSUME NEW o \in Objs, TryLockFree(u, o) PROVE arg'[u] = o
    BY <1>1, <2>5 DEF TryLockFree
  <2> QED
    BY <1>2, <1>3, <2>1, <2>2, <2>3, <2>4, <2>5, SectionCall
<1>7. ASSUME pc'[u] \in {"deref", "cas"}, arg'[u] = n PROVE MaySee(u, n)
  BY <1>1, <1>3, <1>6, <1>7 DEF MaySee
<1>8. ASSUME At(u, "deref")', arg'[u] = Root, NEW w \in Threads, NEW s \in Slots,
             ptr'[u] = CopyPtr(w, s),
             \/ Shows(u, w)' /\ log'[w][s][Root] = n
             \/ ~(Shows(u, w)' /\ Committed(Root, w, s)') /\ actual'[Root] = n
      PROVE MaySee(u, n) \/ ReadsSlot(u, n)
  <2>1. PICK o \in Objs : Deref(u, o)
    BY <1>1, <1>8, EnterSlow
  <2>2. o = Root /\ copyOf[Root] = CopyPtr(w, s)
    BY <1>1, <1>8, <2>1 DEF Deref, At, Goto
  <2>3. UNCHANGED <<actual, copyOf, log, wb, tail>> /\ At(u, "in")
    BY <2>1 DEF Deref
  <2>4. log'[w][s][Root] # n
    BY <2>2, <2>3 DEF Unlinked
  <2>5. Committed(Root, w, s)' <=> Committed(Root, w, s)
    BY <2>3 DEF Committed, CopyPtr, Pending, SlotsOf
  <2>6. Shows(u, w) => Shows(u, w)'
    BY <1>1, <1>2, <2>3, ShowsStep DEF Retract, At
  <2>7. actual[Root] = n /\ ~(Shows(u, w) /\ Committed(Root, w, s))
    BY <1>8, <2>3, <2>4, <2>5, <2>6
  <2>8. ASSUME NEW v \in Threads, NEW r \in Slots, Committed(Root, v, r)
        PROVE ~Shows(u, v)
    <3>1. CopyPtr(v, r) = CopyPtr(w, s)
      BY <2>2, <2>8 DEF Committed
    <3> QED
      BY <2>7, <2>8, <3>1, Pointers
  <2> QED
    BY <2>7, <2>8 DEF ReadsSlot
<1> QED
  BY <1>3, <1>4, <1>5, <1>7, <1>8 DEF MaySee, CopyPtr

(* How sections get their ways to a node that no copy of the root leads to. *)
LEMMA MaySeeStep ==
  ASSUME Ground, NEW u \in Threads, Step(u), ~At(u, "crashed")',
         NEW n \in Nodes, Stays(n), Unlinked(n), NEW t \in Threads, MaySee(t, n)'
  PROVE /\ Keeps(t)
        /\ MaySee(t, n) \/ ReadsSlot(t, n)
  BY OwnSee, OthersSee, SectionStep, StepIsClient DEF Ground, MaySee

-----------------------------------------------------------------------------
(* The lists of what is free and of what will be.                           *)
Removes(u, n) ==
  /\ At(u, "in") /\ At(u, "in")' /\ HoldsLock(u, n) /\ HoldsLock(u, Root)
  /\ freed' = freed /\ Free(u, n)
  /\ log' = [log EXCEPT ![u][Cur(u)][Root] = Nil] /\ tail' = tail
LEMMA ListStep ==
  ASSUME Ground, NEW u \in Threads, Step(u)
  PROVE \/ freeList' = freeList /\ freed' \subseteq freed
        \/ \E n \in Nodes : Removes(u, n)
        \/ ProcessFree(u)
<1> USE DEF mem, clocks, section, locals, ring, logs, quiesce
<1>1. CASE AddChild(u)
  BY <1>1, AddIsWrite
<1>2. CASE RemoveChild(u)
  <2>1. PICK n \in Nodes : /\ HoldsLock(u, n) /\ HoldsLock(u, Root) /\ At(u, "in")
                           /\ Assigns(u, Root, Nil) /\ Free(u, n) /\ freed' = freed
    BY <1>2, RemoveIsWrite
  <2>2. Removes(u, n)
    BY <2>1 DEF Removes, Assigns, Assign, At
  <2> QED
    BY <2>2
<1>3. CASE LibraryStep(u) /\ ~ProcessFree(u)
  BY <1>3 DEF LibraryStep, Register, RegVersion, RegCommit, DerefCheck,
     SendSyncRequest, TryLockCas, UnlockObj, ResetAborted, Checkpoint, SyncEnter,
     Publish, BumpWriter, InitQuiescence, WaitQuiescence, ResetSets, WriteBack,
     Retract, BumpCommit
<1>4. CASE Call(u) /\ ~(AddChild(u) \/ RemoveChild(u))
  BY <1>4 DEF Call, ReaderLock, ThreadFinish, AddFails, Abort, ReaderUnlock,
     LookAtParent, LookAtChild, LockParent, LockChild, TryLock, Deref,
     TryLockHeld, TryLockFree
<1> QED
  BY <1>1, <1>2, <1>3, <1>4 DEF Step

(* What a section has locked is committed by nobody.                        *)
LEMMA LockedHeader ==
  ASSUME Ground, NEW w \in Threads, InSection(w), NEW o \in Objs, HoldsLock(w, o)
  PROVE /\ copyOf[o] = CopyPtr(w, Cur(w)) /\ copyOf[o] # NoCopy
        /\ \A v \in Threads, s \in Slots : ~Committed(o, v, s)
<1>1. Cur(w) \in Slots /\ LockInv /\ ~Crashed /\ ~At(w, "crashed")
  BY CurType DEF Ground, ViewInv, LockInv, TypeInv, Crashed
<1>2. o \in Held(w, Cur(w))
  BY DEF Held, Locks, HoldsLock
<1>3. copyOf[o] = CopyPtr(w, Cur(w))
  BY <1>1, <1>2, HeaderAndLog
<1>4. ASSUME NEW v \in Threads, NEW s \in Slots, Committed(o, v, s) PROVE FALSE
  <2>1. CopyPtr(v, s) = CopyPtr(w, Cur(w)) /\ s \in Pending(v)
    BY <1>3, <1>4 DEF Committed
  <2> QED
    BY <1>1, <2>1, Pointers, CurNotPending
<1> QED
  BY <1>1, <1>3, <1>4, Pointers

(* Nobody has a node locked that is gone, nor two threads one node.         *)
LEMMA GoneUnheld ==
  ASSUME Ground, NEW w \in Threads, NEW n \in Nodes, Gone(w, n),
         NEW v \in Threads, InSection(v)
  PROVE ~HoldsLock(v, n)
  BY LockedHeader, NodeTypes DEF Ground, ReclaimOK, GoneOK

LEMMA OneHolder ==
  ASSUME Ground, NEW w \in Threads, NEW v \in Threads, NEW o \in Objs,
         InSection(w), InSection(v), HoldsLock(w, o), HoldsLock(v, o)
  PROVE w = v
<1>1. CopyPtr(w, Cur(w)) = CopyPtr(v, Cur(v))
  BY LockedHeader
<1>2. Cur(w) \in Slots /\ Cur(v) \in Slots
  BY CurType DEF Ground, ViewInv, LockInv, TypeInv
<1> QED
  BY <1>1, <1>2, Pointers

LEMMA ListsStep ==
  ASSUME Ground, NEW u \in Threads, Step(u) PROVE ListsOK'
<1>1. /\ freeList \in [Threads -> SUBSET Objs] /\ ListsOK
  BY DEF Ground, ReclaimOK, ViewInv, LockInv, TypeInv, TypeOK
<1>2. CASE freeList' = freeList /\ freed' \subseteq freed
  BY <1>1, <1>2 DEF ListsOK
<1>3. ASSUME NEW n \in Nodes, Removes(u, n) PROVE ListsOK'
  <2>1. InSection(u) /\ HoldsLock(u, n) /\ n \in Objs
    BY <1>3, NodeTypes DEF Removes, InSection, At
  <2>2. n \notin freed
    BY <2>1, LockedHeader DEF Ground, ReclaimOK, FreedOK, Unreachable
  <2>3. ASSUME NEW v \in Threads \ {u} PROVE n \notin freeList[v]
    <3>1. CASE Gone(v, n)
      BY <2>1, <3>1, GoneUnheld
    <3>2. CASE Removing(v, n)
      BY <2>1, <3>2, OneHolder DEF Removing
    <3> QED
      BY <3>1, <3>2 DEF Gone
  <2>4. freeList' = [freeList EXCEPT ![u] = freeList[u] \cup {n}] /\ freed' = freed
    BY <1>3 DEF Removes, Free
  <2> QED
    BY <1>1, <2>2, <2>3, <2>4 DEF ListsOK
<1>4. CASE ProcessFree(u)
  BY <1>1, <1>4 DEF ListsOK, ProcessFree
<1> QED
  BY <1>2, <1>3, <1>4, ListStep

LEMMA NodesStep ==
  ASSUME Ground, NEW u \in Threads, Step(u) PROVE NodesOK'
<1> USE DEF mem, clocks, section, locals, ring, logs, quiesce
<1> SUFFICES ASSUME NEW n \in Nodes
             PROVE /\ actual'[n] = Nil
                   /\ \A t \in Threads, s \in Slots : log'[t][s][n] \in {Nil, NoVal}
  BY DEF NodesOK
<1>1. /\ log \in [Threads -> [Slots -> [Objs -> Vals \cup {NoVal}]]]
      /\ actual[n] = Nil /\ \A t \in Threads, s \in Slots : log[t][s][n] \in {Nil, NoVal}
      /\ actual \in [Objs -> Vals]
      /\ n \in Objs /\ Root \in Objs /\ n # Root /\ Cur(u) \in Slots
      /\ LockInv /\ ~Crashed /\ (LibraryStep(u) \/ ClientStep(u))
  BY NodeTypes, CurType, StepIsClient
     DEF Ground, ViewInv, LockInv, TypeInv, TypeOK, ReclaimOK, NodesOK
<1>2. actual'[n] = Nil
  <2>1. CASE UNCHANGED actual
    BY <1>1, <2>1
  <2>2. CASE WriteBack(u)
    <3>1. PICK s \in Pending(u), o \in todo[u] :
            log[u][s][o] # NoVal /\ actual' = [actual EXCEPT ![o] = log[u][s][o]]
      BY <2>2 DEF WriteBack
    <3>2. s \in Slots
      BY <1>1, SlotsTypes DEF LockInv, TypeInv
    <3> QED
      BY <1>1, <3>1, <3>2
  <2> QED
    BY <1>1, <2>1, <2>2
       DEF LibraryStep, ClientStep, Register, RegVersion, RegCommit, DerefCheck,
           SendSyncRequest, TryLockCas, UnlockObj, ResetAborted, Checkpoint,
           SyncEnter, Publish, BumpWriter, InitQuiescence, WaitQuiescence,
           ResetSets, Retract, BumpCommit, ProcessFree, ReaderLock, ThreadFinish,
           ReaderUnlock, Abort, Deref, TryLockHeld, TryLockFree, Assigns
<1>3. \A t \in Threads, s \in Slots : log'[t][s][n] \in {Nil, NoVal}
  <2>1. CASE UNCHANGED log
    BY <1>1, <2>1
  <2>2. CASE TryLockCas(u)
    <3>1. PICK o \in Objs : o = arg[u]
      BY <2>2 DEF TryLockCas, Ground, ViewInv, LockInv, TypeInv, OperandsOK, At
    <3>2. CASE CasSucceeds(u)
      <4>1. log' = [log EXCEPT ![u][Cur(u)][o] = actual[o]]
        BY <2>2, <3>1, <3>2 DEF TryLockCas
      <4> QED
        BY <1>1, <4>1
    <3> QED
      BY <2>1, <2>2, <3>2 DEF TryLockCas
  <2>3. CASE ResetAborted(u) \/ ResetSets(u)
    <3>1. \A v \in Threads, r \in Slots :
            log'[v][r] = log[v][r] \/ log'[v][r] = EmptyLog
      BY <2>3, EmptiedLogs DEF Ground, ViewInv, LockInv, TypeInv
    <3> QED
      BY <1>1, <3>1 DEF EmptyLog
  <2>4. CASE AddChild(u) \/ RemoveChild(u)
    <3>1. \E v \in Nodes \cup {Nil} : log' = [log EXCEPT ![u][Cur(u)][Root] = v]
      BY <2>4, AddIsWrite, RemoveIsWrite DEF Assigns, Assign
    <3> QED
      BY <1>1, <3>1
  <2>5. CASE LibraryStep(u) /\ ~(TryLockCas(u) \/ ResetAborted(u) \/ ResetSets(u))
    BY <2>1, <2>5 DEF LibraryStep, Register, RegVersion, RegCommit, DerefCheck,
       SendSyncRequest, UnlockObj, Checkpoint, SyncEnter, Publish, BumpWriter,
       InitQuiescence, WaitQuiescence, WriteBack, Retract, BumpCommit, ProcessFree
  <2>6. CASE Call(u) /\ ~(AddChild(u) \/ RemoveChild(u))
    BY <2>1, <2>6 DEF Call, ReaderLock, ThreadFinish, AddFails, Abort,
       ReaderUnlock, LookAtParent, LookAtChild, LockParent, LockChild, TryLock,
       Deref, TryLockHeld, TryLockFree
  <2> QED
    BY <2>2, <2>3, <2>4, <2>5, <2>6 DEF Step
<1> QED
  BY <1>2, <1>3

(* A section gets a lock by rlu_try_lock only.                              *)
LEMMA NewLock ==
  ASSUME Ground, NEW u \in Threads, Step(u), NEW o \in Objs, InSection(u)',
         HoldsLock(u, o)'
  PROVE \/ InSection(u) /\ HoldsLock(u, o)
        \/ At(u, "cas") /\ arg[u] = o /\ copyOf[o] = NoCopy
<1> USE DEF mem, clocks, section, locals, ring, logs, quiesce
<1>1. /\ log \in [Threads -> [Slots -> [Objs -> Vals \cup {NoVal}]]]
      /\ Root \in Objs /\ Cur(u) \in Slots /\ TypeOK
      /\ ViewInv /\ (LibraryStep(u) \/ ClientStep(u)) /\ Cur(u)' = Cur(u)
  BY NodeTypes, CurType, StepIsClient, SectionStep, RingKept
     DEF Ground, ViewInv, LockInv, TypeInv, TypeOK, Cur
<1>2. CASE ~InSection(u)
  <2>1. RegCommit(u) /\ At(u, "regcommit") /\ ~Owns(u) /\ ~Syncing(u)
    BY <1>1, <1>2, SectionStep DEF RegCommit, Owns, Syncing, At
  <2>2. ThreadInv(u) /\ ~At(u, "crashed")
    BY <2>1 DEF ViewInv, LockInv, Ground, At
  <2>3. Locks(u, Cur(u)) = {}
    BY <1>1, <2>1, <2>2, CurFresh DEF ThreadInv, EmptyOK, InUse
  <2>4. log' = log
    BY <2>1 DEF RegCommit
  <2> QED
    BY <1>1, <2>3, <2>4 DEF Locks, HoldsLock
<1>3. CASE InSection(u)
  <2>1. CASE UNCHANGED log
    BY <1>1, <1>3, <2>1 DEF HoldsLock
  <2>2. CASE TryLockCas(u) /\ At(u, "cas")
    <3>1. PICK q \in Objs : q = arg[u]
      BY <2>2 DEF Ground, ViewInv, LockInv, TypeInv, OperandsOK, At
    <3>2. CASE CasSucceeds(u)
      <4>1. log' = [log EXCEPT ![u][Cur(u)][q] = actual[q]]
        BY <2>2, <3>1, <3>2 DEF TryLockCas
      <4> QED
        BY <1>1, <1>3, <2>2, <3>1, <3>2, <4>1 DEF HoldsLock, CasSucceeds
    <3> QED
      BY <2>1, <2>2, <3>2 DEF TryLockCas
  <2>3. CASE AddChild(u) \/ RemoveChild(u)
    <3>1. \E v \in Nodes \cup {Nil} : log' = [log EXCEPT ![u][Cur(u)][Root] = v]
      BY <2>3, AddIsWrite, RemoveIsWrite DEF Assigns, Assign
    <3>2. HoldsLock(u, Root)
      BY <2>3 DEF AddChild, RemoveChild, BothLocked
    <3> QED
      BY <1>1, <1>3, <3>1, <3>2 DEF HoldsLock
  <2> QED
    BY <1>3, <2>1, <2>2, <2>3, SectionCall
       DEF DerefCheck, SendSyncRequest, Deref, TryLockHeld, TryLockFree
<1> QED
  BY <1>2, <1>3

(* A section that removes a node does nothing after but commit.             *)
LEMMA RemovingEnds ==
  ASSUME Ground, NEW u \in Threads, Step(u), NEW n \in Nodes, Removing(u, n)
  PROVE /\ ReaderUnlock(u) /\ HoldsLock(u, n) /\ HoldsLock(u, Root)
        /\ log[u][Cur(u)][Root] = Nil
<1>1. At(u, "in") /\ log[u][Cur(u)][Root] = Nil /\ HoldsLock(u, n) /\ Removed(u)
  BY DEF Ground, ReclaimOK, RemovingOK, Removing, Removed
<1>2. HoldsLock(u, Root)
  BY <1>1, ReclaimAssumption, ConstantsAssumption DEF HoldsLock
<1>3. ~LibraryStep(u)
  BY <1>1 DEF At, LibraryStep, Register, RegVersion, RegCommit, DerefCheck,
     SendSyncRequest, TryLockCas, UnlockObj, ResetAborted, Checkpoint, SyncEnter,
     Publish, BumpWriter, InitQuiescence, WaitQuiescence, ResetSets, WriteBack,
     Retract, BumpCommit, ProcessFree
<1>4. ~ReaderLock(u) /\ ~ThreadFinish(u) /\ ~AddFails(u)
  BY <1>1 DEF At, ReaderLock, ThreadFinish, AddFails, LocksNode
<1> QED
  BY <1>1, <1>2, <1>3, <1>4 DEF Step, Call

(* A thread that does not move keeps its list, and its locks.               *)
LEMMA OtherLists ==
  ASSUME Ground, NEW u \in Threads, Step(u), NEW w \in Threads \ {u}, NEW n \in Nodes
  PROVE /\ freeList'[w] = freeList[w]
        /\ Removing(w, n)' <=> Removing(w, n)
        /\ RemovingOK(w, n) => RemovingOK(w, n)'
<1>1. Same(w) /\ freeList \in [Threads -> SUBSET Objs]
  BY StepIsClient, OwnDataOnly DEF Others, Ground, ViewInv, LockInv, TypeInv, TypeOK
<1>2. freeList'[w] = freeList[w]
  BY <1>1, ListStep DEF ProcessFree, Removes, Free
<1> QED
  BY <1>1, <1>2 DEF Same, RemovingOK, Removing, InSection, HoldsLock, Cur, At

LEMMA RemovingStep ==
  ASSUME Ground, NEW u \in Threads, Step(u), NEW w \in Threads, NEW n \in Nodes
  PROVE RemovingOK(w, n)'
<1>1. RemovingOK(w, n) /\ freeList \in [Threads -> SUBSET Objs]
  BY DEF Ground, ReclaimOK, ViewInv, LockInv, TypeInv, TypeOK
<1>2. CASE w # u
  BY <1>1, <1>2, OtherLists
<1>3. CASE w = u
  <2> SUFFICES ASSUME Removing(u, n)'
               PROVE At(u, "in")' /\ (log[u][Cur(u)][Root] = Nil)'
    BY <1>3 DEF RemovingOK
  <2>1. InSection(u)' /\ HoldsLock(u, n)' /\ n \in freeList'[u] /\ n \in Objs
    BY NodeTypes DEF Removing
  <2>2. ASSUME NEW q \in Nodes, Removes(u, q)
        PROVE At(u, "in")' /\ (log[u][Cur(u)][Root] = Nil)'
    <3>1. /\ log \in [Threads -> [Slots -> [Objs -> Vals \cup {NoVal}]]]
          /\ Cur(u) \in Slots /\ Root \in Objs
      BY CurType, NodeTypes DEF Ground, ViewInv, LockInv, TypeInv, TypeOK
    <3> QED
      BY <2>2, <3>1 DEF Removes, Cur
  <2>3. ~ProcessFree(u)
    BY <1>1, <2>1 DEF ProcessFree
  <2>4. CASE n \in freeList[u]
    <3>1. CASE Removing(u, n)
      <4>1. ReaderUnlock(u) /\ pc \in [Threads -> Labels]
        BY <3>1, RemovingEnds, Functions DEF Ground, ViewInv, LockInv, TypeInv
      <4> QED
        BY <2>1, <4>1 DEF ReaderUnlock, InSection, CallSync, Goto
    <3>2. CASE Gone(u, n)
      <4>1. InSection(u) /\ HoldsLock(u, n) => Removing(u, n)
        BY <2>4 DEF Removing
      <4>2. At(u, "cas") /\ copyOf[n] = NoCopy
        BY <2>1, <3>2, <4>1, NewLock DEF Gone
      <4>3. \A s \in Slots : ~Committed(n, u, s)
        BY <4>2, Pointers DEF Committed
      <4> QED
        BY <3>2, <4>2, <4>3 DEF Ground, ReclaimOK, GoneOK, At
    <3> QED
      BY <2>4, <3>1, <3>2 DEF Gone
  <2> QED
    BY <2>1, <2>2, <2>3, <2>4, ListStep
<1> QED
  BY <1>2, <1>3

-----------------------------------------------------------------------------
(* After the write-back of a sync nothing of it is pending.                 *)
LEMMA WrittenBackAll ==
  ASSUME Ground, NEW w \in Threads, pc[w] \in {"commit", "free"}
  PROVE Pending(w) = {}
<1>1. wb[w] = tail[w] /\ tail[w] \in Nat
  BY ThreadTypes DEF Ground, ViewInv, LocalOK, LockInv, TypeInv
<1> QED
  BY <1>1 DEF Pending, SlotsOf

(* The end of a sync: the thread comes to it by the write-back, ...         *)
LEMMA SyncStarts ==
  ASSUME TypeOK, NEW u \in Threads, LibraryStep(u) \/ ClientStep(u),
         pc'[u] \in {"commit", "free"}
  PROVE pc[u] \in {"writeback", "commit", "free"}
<1>1. pc \in [Threads -> Labels] /\ ret[u] \in Returns
  BY ThreadTypes, Functions
<1>2. CASE \/ Register(u) \/ RegVersion(u) \/ RegCommit(u) \/ DerefCheck(u)
           \/ SendSyncRequest(u) \/ TryLockCas(u) \/ UnlockObj(u)
           \/ ResetAborted(u) \/ Checkpoint(u)
  BY <1>1, <1>2 DEF Register, RegVersion, RegCommit, DerefCheck, SendSyncRequest,
     TryLockCas, UnlockObj, ResetAborted, Checkpoint, CallSync, Goto, At
<1>3. CASE \/ SyncEnter(u) \/ Publish(u) \/ BumpWriter(u) \/ InitQuiescence(u)
           \/ WaitQuiescence(u) \/ ResetSets(u) \/ WriteBack(u) \/ Retract(u)
           \/ BumpCommit(u) \/ ProcessFree(u)
  BY <1>1, <1>3 DEF SyncEnter, Publish, BumpWriter, InitQuiescence, WaitQuiescence,
     ResetSets, WriteBack, Retract, BumpCommit, ProcessFree, Goto, At, Returns
<1>4. CASE ClientStep(u)
  BY <1>1, <1>4 DEF ClientStep, ReaderLock, ReaderUnlock, Abort, ThreadFinish,
     Deref, TryLockHeld, TryLockFree, Assigns, CallSync, Goto, At
<1> QED
  BY <1>2, <1>3, <1>4 DEF LibraryStep

(* ... and leaves it by rlu_process_free.                                   *)
LEMMA SyncEnds ==
  ASSUME TypeOK, NEW u \in Threads, LibraryStep(u) \/ ClientStep(u),
         ~ProcessFree(u), pc[u] \in {"writeback", "commit", "free"}
  PROVE pc'[u] \in {"writeback", "commit", "free"}
<1>1. pc \in [Threads -> Labels]
  BY Functions
<1>2. ~ClientStep(u)
  BY DEF ClientStep, ReaderLock, ReaderUnlock, Abort, ThreadFinish, Deref,
     TryLockHeld, TryLockFree, Assigns, At
<1> QED
  BY <1>1, <1>2 DEF LibraryStep, Register, RegVersion, RegCommit, DerefCheck,
     SendSyncRequest, TryLockCas, UnlockObj, ResetAborted, Checkpoint, SyncEnter,
     Publish, BumpWriter, InitQuiescence, WaitQuiescence, ResetSets, WriteBack,
     Retract, BumpCommit, Goto, At

(* A node stays out of reach until it is given out again.                   *)
LEMMA UnreachableStep ==
  ASSUME Ground, NEW u \in Threads, Step(u), ~At(u, "crashed")',
         NEW n \in Nodes, Stays(n), Unreachable(n)
  PROVE Unreachable(n)'
<1>1. Unlinked(n)'
  BY UnlinkedStep DEF Unreachable
<1>2. actual'[Root] # n
  BY SlotStep DEF Unreachable
<1>3. copyOf'[n] = NoCopy
  <2> SUFFICES ASSUME copyOf'[n] # NoCopy PROVE FALSE
    OBVIOUS
  <2>1. At(u, "cas") /\ arg[u] = n
    BY HeaderStep, NodeTypes DEF Unreachable
  <2> QED
    BY <2>1 DEF Unreachable, MaySee, InSection, At
<1>4. ASSUME NEW t \in Threads PROVE ~MaySee(t, n)'
  BY MaySeeStep DEF Unreachable, ReadsSlot
<1> QED
  BY <1>1, <1>2, <1>3, <1>4 DEF Unreachable

(* When a sync has written everything back, what its thread has listed is   *)
(* out of reach.                                                            *)
LEMMA ListedUnreachable ==
  ASSUME Ground, NEW w \in Threads, At(w, "free"), NEW n \in freeList[w]
  PROVE n \in Nodes /\ n \notin freed /\ Unreachable(n)
<1>1. n \in Nodes /\ n \notin freed /\ Gone(w, n)
  BY DEF Ground, ReclaimOK, ListsOK, Gone, Removing, InSection, At
<1>2. \A o \in Objs, s \in Slots : ~Committed(o, w, s)
  BY WrittenBackAll DEF Committed, At
<1> QED
  BY <1>1, <1>2, NodeTypes DEF Ground, ReclaimOK, GoneOK, Unreachable, At

LEMMA FreedStep ==
  ASSUME Ground, NEW u \in Threads, Step(u), ~At(u, "crashed")', NEW n \in Nodes
  PROVE FreedOK(n)'
<1> SUFFICES ASSUME n \in freed' PROVE Unreachable(n)'
  BY DEF FreedOK
<1>1. Stays(n)
  BY DEF Stays
<1>2. CASE n \in freed
  BY <1>1, <1>2, UnreachableStep DEF Ground, ReclaimOK, FreedOK, Unreachable
<1>3. CASE n \notin freed
  <2>1. At(u, "free") /\ n \in freeList[u]
    BY <1>3, ListStep DEF ProcessFree, Removes
  <2> QED
    BY <1>1, <2>1, ListedUnreachable, UnreachableStep
<1> QED
  BY <1>2, <1>3

(* A node that a commit removes.                                            *)
LEMMA CommitGone ==
  ASSUME Ground, NEW u \in Threads, Step(u), ~At(u, "crashed")',
         NEW n \in Nodes, Removing(u, n)
  PROVE GoneOK(u, n)'
<1> DEFINE c == Cur(u)
<1>1. /\ ReaderUnlock(u) /\ HoldsLock(u, n) /\ HoldsLock(u, Root)
      /\ log[u][c][Root] = Nil /\ log' = log /\ copyOf' = copyOf
      /\ LockInv /\ ~Crashed /\ n \in Objs /\ Root \in Objs /\ c \in Slots
      /\ pc \in [Threads -> Labels] /\ InSection(u)
  BY RemovingEnds, NodeTypes, CurType, Functions
     DEF ReaderUnlock, mem, logs, Ground, ViewInv, LockInv, TypeInv, Removing
<1>2. \A w \in Threads, s \in Slots :
        /\ Committed(n, w, s)' <=> w = u /\ s = c
        /\ Committed(Root, w, s)' <=> w = u /\ s = c
  BY <1>1, CommitObj DEF CommitsObj
<1>3. Unlinked(n)'
  <2> SUFFICES ASSUME NEW w \in Threads, NEW s \in Slots,
                      copyOf[Root] = CopyPtr(w, s)
               PROVE log[w][s][Root] # n
    BY <1>1 DEF Unlinked, CopyPtr
  <2>1. CopyPtr(w, s) = CopyPtr(u, c)
    BY <1>1, LockedHeader
  <2>2. w = u /\ s = c
    BY <1>1, <2>1, Pointers
  <2> QED
    BY <1>1, <2>2, ReclaimAssumption
<1>4. pc'[u] \in {"checkpoint", "sync"}
  BY <1>1 DEF ReaderUnlock, CallSync, Goto
<1>5. ASSUME NEW t \in Threads, MaySee(t, n)'
      PROVE ~Shows(t, u)' /\ pc'[u] \notin {"commit", "free"}
  <2>1. t # u
    BY <1>4, <1>5 DEF MaySee, InSection
  <2> QED
    BY <1>4, <2>1 DEF Shows, InSync, Published, At
<1>6. (\E s \in Slots : Committed(n, u, s)') /\ (\E s \in Slots : Committed(Root, u, s)')
  BY <1>1, <1>2
<1> QED
  BY <1>3, <1>5, <1>6 DEF GoneOK

(* A node that is gone stays so until it is freed.                          *)
LEMMA GoneKept ==
  ASSUME Ground, NEW u \in Threads, Step(u), ~At(u, "crashed")',
         NEW w \in Threads, NEW n \in Nodes, Gone(w, n), n \in freeList'[w]
  PROVE GoneOK(w, n)'
<1>1. /\ Unlinked(n)
      /\ actual[Root] = n => \E s \in Slots : Committed(Root, w, s)
      /\ \/ \E s \in Slots : Committed(n, w, s)
         \/ copyOf[n] = NoCopy /\ pc[w] \in {"writeback", "commit", "free"}
      /\ \A t \in Threads : MaySee(t, n) =>
           ~Shows(t, w) /\ pc[w] \notin {"commit", "free"}
  BY DEF Ground, ReclaimOK, GoneOK
<1>2. /\ n \notin freed /\ (LibraryStep(u) \/ ClientStep(u))
      /\ ViewInv /\ AwaitInv /\ LockInv /\ ~Crashed
      /\ n \in Objs /\ Root \in Objs /\ TypeOK /\ pc \in [Threads -> Labels]
  BY StepIsClient, NodeTypes, Functions
     DEF Ground, ReclaimOK, ListsOK, Gone, ViewInv, LockInv, TypeInv
<1>3. Stays(n)
  BY <1>2 DEF Stays
<1>4. Unlinked(n)'
  <2>1. copyOf[Root] = NoCopy => actual[Root] # n
    BY <1>1, Pointers DEF Committed
  <2> QED
    BY <1>1, <1>3, <2>1, UnlinkedStep
<1>5. actual'[Root] = n => \E s \in Slots : Committed(Root, w, s)'
  BY <1>1, SlotStep
<1>6. pc[w] \in {"writeback", "commit", "free"} =>
        pc'[w] \in {"writeback", "commit", "free"}
  <2>1. CASE w # u
    BY <1>2, <2>1, OwnDataOnly DEF Others, Same
  <2>2. CASE w = u
    <3>1. ~ProcessFree(u)
      BY <1>2, <2>2 DEF ProcessFree, TypeOK
    <3> QED
      BY <1>2, <2>2, <3>1, SyncEnds
  <2> QED
    BY <2>1, <2>2
<1>7. \/ \E s \in Slots : Committed(n, w, s)'
      \/ copyOf'[n] = NoCopy /\ pc'[w] \in {"writeback", "commit", "free"}
  <2>1. ASSUME NEW s \in Slots, Committed(n, w, s), ~Committed(n, w, s)'
        PROVE copyOf'[n] = NoCopy /\ pc'[w] \in {"writeback", "commit", "free"}
    <3>1. WritesObj(u, n)
      BY <1>2, <2>1, ObjStep DEF SameObj, CommitsObj
    <3>2. u = w /\ At(u, "writeback")
      BY <1>2, <2>1, <3>1, OneCopy DEF WritesObj
    <3> QED
      BY <1>6, <3>1, <3>2 DEF WritesObj, At
  <2>2. ASSUME copyOf[n] = NoCopy, pc[w] \in {"writeback", "commit", "free"}
        PROVE copyOf'[n] = NoCopy
    <3> SUFFICES ASSUME copyOf'[n] # NoCopy PROVE FALSE
      OBVIOUS
    <3>1. At(u, "cas") /\ arg[u] = n
      BY <1>2, <2>2, HeaderStep
    <3>2. MaySee(u, n) /\ Reading(u)
      BY <3>1 DEF MaySee, InSection, Reading, At
    <3>3. ~Shows(u, w) /\ At(w, "writeback")
      BY <1>1, <2>2, <3>2 DEF At
    <3> QED
      BY <1>2, <3>2, <3>3, Unshown
  <2> QED
    BY <1>1, <1>6, <2>1, <2>2
<1>8. ASSUME NEW t \in Threads, MaySee(t, n)'
      PROVE ~Shows(t, w)' /\ pc'[w] \notin {"commit", "free"}
  <2>1. Keeps(t) /\ (MaySee(t, n) \/ ReadsSlot(t, n))
    BY <1>1, <1>3, <1>8, MaySeeStep
  <2>2. ~Shows(t, w) /\ pc[w] \notin {"commit", "free"}
    <3>1. ASSUME ReadsSlot(t, n)
          PROVE ~Shows(t, w) /\ pc[w] \notin {"commit", "free"}
      <4>1. PICK s \in Slots : Committed(Root, w, s)
        BY <1>1, <3>1 DEF ReadsSlot
      <4>2. pc[w] \notin {"commit", "free"}
        BY <1>2, <4>1, WrittenBackAll DEF Committed
      <4> QED
        BY <3>1, <4>1, <4>2 DEF ReadsSlot
    <3> QED
      BY <1>1, <2>1, <3>1
  <2>3. ~Shows(t, w)'
    BY <1>2, <2>1, <2>2, ShowsStep
  <2>4. ~At(w, "writeback")
    BY <1>2, <2>1, <2>2, Unshown DEF Keeps
  <2>5. pc'[w] \notin {"commit", "free"}
    <3>1. CASE w # u
      BY <1>2, <2>2, <3>1, OwnDataOnly DEF Others, Same
    <3>2. CASE w = u
      BY <1>2, <2>2, <2>4, <3>2, SyncStarts DEF At
    <3> QED
      BY <3>1, <3>2
  <2> QED
    BY <2>3, <2>5
<1> QED
  BY <1>4, <1>5, <1>7, <1>8 DEF GoneOK

LEMMA GoneStep ==
  ASSUME Ground, NEW u \in Threads, Step(u), ~At(u, "crashed")',
         NEW w \in Threads, NEW n \in Nodes
  PROVE GoneOK(w, n)'
<1> SUFFICES ASSUME Gone(w, n)' PROVE GoneOK(w, n)'
  BY DEF GoneOK
<1>1. n \in freeList'[w] /\ ~Removing(w, n)' /\ freeList \in [Threads -> SUBSET Objs]
  BY DEF Gone, Ground, ViewInv, LockInv, TypeInv, TypeOK
<1>2. CASE n \notin freeList[w]
  <2>1. w = u
    BY <1>2, <1>1, OtherLists
  <2>2. PICK q \in Nodes : Removes(u, q)
    BY <1>1, <1>2, <2>1, ListStep DEF ProcessFree
  <2>3. q = n
    BY <1>1, <1>2, <2>1, <2>2 DEF Removes, Free
  <2>4. Removing(u, n)'
    <3>1. HoldsLock(u, n)'
      <4>1. /\ log \in [Threads -> [Slots -> [Objs -> Vals \cup {NoVal}]]]
            /\ Cur(u) \in Slots /\ Root \in Objs /\ n \in Objs /\ n # Root
        BY CurType, NodeTypes DEF Ground, ViewInv, LockInv, TypeInv, TypeOK
      <4> QED
        BY <2>2, <2>3, <4>1 DEF Removes, HoldsLock, Cur
    <3> QED
      BY <1>1, <2>1, <2>2, <3>1 DEF Removes, Removing, InSection, At
  <2> QED
    BY <1>1, <2>1, <2>4
<1>3. CASE Removing(w, n)
  <2>1. w = u
    BY <1>1, <1>3, OtherLists
  <2> QED
    BY <1>3, <2>1, CommitGone
<1>4. CASE Gone(w, n)
  BY <1>1, <1>4, GoneKept
<1> QED
  BY <1>2, <1>3, <1>4 DEF Gone

-----------------------------------------------------------------------------
(* One step of a program that goes on.                                      *)
LEMMA GroundStep ==
  ASSUME Ground, NEW u \in Threads, Step(u), ~Races, ~Crashed'
  PROVE Ground'
<1>1. /\ LibraryStep(u) \/ ClientStep(u)
      /\ ~At(u, "crashed")' /\ ViewInv /\ BoundInv /\ VersionsBounded /\ ~Crashed
      /\ AwaitInv /\ ActiveOK /\ NoRace
      /\ \A t \in Threads : NewerOK(t) /\ FlagsOK(t)
  BY StepIsClient DEF Ground, Crashed, At
<1>2. ViewInv'
  BY <1>1, StepView
<1>3. BoundInv'
  BY <1>1, <1>2, BoundKept DEF ViewInv
<1>4. LockInv' /\ BoundInv' => VersionsBounded'
  BY BoundBelow, PTL
<1>5. VersionsBounded'
  BY <1>2, <1>3, <1>4 DEF ViewInv
<1>6. AwaitInv'
  BY <1>1, <1>2, NextAwaits
<1>7. ActiveOK'
  BY <1>1, ActiveStep
<1>8. NoRace'
  BY <1>1, NoRaceStep
<1>9. ASSUME NEW t \in Threads PROVE NewerOK(t)' /\ FlagsOK(t)'
  BY <1>1, NewerStep, FlagsStep
<1>10. ReclaimOK'
  BY <1>1, NodesStep, ListsStep, FreedStep, GoneStep, RemovingStep DEF ReclaimOK
<1> QED
  BY <1>2, <1>3, <1>5, <1>6, <1>7, <1>8, <1>9, <1>10 DEF Ground

(* Nobody uses a free node, and what is about to be freed is in one list.   *)
LEMMA GroundSafe == Ground => NoUseAfterFree /\ FreesOnce
<1> SUFFICES ASSUME Ground PROVE NoUseAfterFree /\ FreesOnce
  OBVIOUS
<1>1. ASSUME NEW n \in freed PROVE n \in Nodes /\ Unreachable(n)
  BY DEF Ground, ReclaimOK, ListsOK, FreedOK, Unreachable
<1>2. ASSUME NEW t \in Threads, NEW n \in freed
      PROVE ~Seen(t, n) /\ (Seen(t, Root) => Child(t) # n) /\ copyOf[n] = NoCopy
  <2>1. ~InSection(t) => ~Seen(t, n) /\ ~Seen(t, Root)
    BY <1>1, NodeTypes DEF Ground, ViewInv, OwnOK, Seen
  <2> QED
    BY <1>1, <2>1 DEF Unreachable, MaySee
<1>3. ASSUME NEW t \in Threads, At(t, "free")
      PROVE /\ \A o \in freeList[t] : copyOf[o] = NoCopy /\ o \notin freed
            /\ \A u \in Threads \ {t} : freeList[t] \cap freeList[u] = {}
  BY <1>3, ListedUnreachable DEF Unreachable, Ground, ReclaimOK, ListsOK
<1> QED
  BY <1>1, <1>2, <1>3 DEF NoUseAfterFree, FreesOnce, Unreachable

(* An assertion that fails ends the program without freeing anything.       *)
LEMMA CrashSafe ==
  ASSUME Ground, NEW u \in Threads, Step(u), Crashed', raced' => raced,
         NoUseAfterFree, FreesOnce, ~raced
  PROVE NoUseAfterFree' /\ FreesOnce'
<1> USE DEF mem, clocks, section, locals, ring, logs, quiesce
<1>1. /\ LibraryStep(u) \/ ClientStep(u)
      /\ ViewInv /\ ~Crashed /\ TypeOK /\ ViewInv
      /\ view \in [Threads -> [Objs -> CopyPtrs \cup {Actual, Unseen}]]
      /\ Root \in Objs
  BY StepIsClient, NodeTypes, Functions DEF Ground, ViewInv, LockInv, TypeInv
<1>2. At(u, "crashed")' /\ Others(u) /\ (ResetSets(u) \/ Abort(u))
  BY <1>1, CrashStep
<1>3. UNCHANGED <<actual, copyOf, freed, freeList>>
  BY <1>2 DEF ResetSets, Abort
<1>4. ASSUME NEW t \in Threads, NEW o \in Objs, Seen(t, o)'
      PROVE t # u /\ view'[t] = view[t] /\ Seen(t, o)
  <2>1. t # u
    <3>1. ASSUME ResetSets(u) PROVE ~Seen(u, o)'
      BY <1>1, <3>1 DEF ResetSets, At, InSection, ViewInv, OwnOK, Seen
    <3>2. ASSUME Abort(u) PROVE ~Seen(u, o)'
      BY <1>1, <3>2 DEF Abort, LeaveSection, Seen
    <3> QED
      BY <1>2, <1>4, <3>1, <3>2
  <2> QED
    BY <1>2, <1>4, <2>1 DEF Others, Same, Seen
<1>5. ASSUME NEW t \in Threads, Seen(t, Root)' PROVE Child(t)' = Child(t)
  <2>1. t # u /\ view'[t] = view[t] /\ Seen(t, Root) /\ Same(t)
    BY <1>1, <1>2, <1>4, <1>5 DEF Others
  <2>2. CASE view[t][Root] = Actual
    BY <1>3, <2>1, <2>2 DEF Child, Val
  <2>3. CASE view[t][Root] # Actual
    <3>1. PICK w \in Threads, s \in Slots : view[t][Root] = CopyPtr(w, s)
      BY <1>1, <2>1, <2>3, PointerOf DEF Seen
    <3>2. log'[w][s] = log[w][s]
      BY <1>1, <2>1, <3>1, StolenKept DEF Same
    <3> QED
      BY <2>1, <2>3, <3>1, <3>2, Pointers DEF Child, Val
  <2> QED
    BY <2>2, <2>3
<1>6. NoUseAfterFree'
  <2>1. freed \subseteq Objs
    BY <1>1 DEF TypeOK
  <2> QED
    BY <1>1, <1>3, <1>4, <1>5, <2>1 DEF NoUseAfterFree
<1>7. ASSUME NEW t \in Threads, At(t, "free")' PROVE At(t, "free")
  BY <1>2, <1>7 DEF Others, Same, At
<1>8. FreesOnce'
  BY <1>3, <1>7 DEF FreesOnce
<1> QED
  BY <1>6, <1>8

(* The invariant speaks of the state only.                                  *)
LEMMA SameGround == ASSUME Ground, UNCHANGED vars PROVE Ground'
<1> USE DEF vars, mem, clocks, section, locals, ring, logs, quiesce
<1>1. ViewInv'
  BY NextView DEF Ground
<1>2. BoundInv' /\ VersionsBounded'
  <2>1. BoundInv'
    BY NextBound DEF Ground, ViewInv
  <2>2. LockInv' /\ BoundInv' => VersionsBounded'
    BY BoundBelow, PTL
  <2> QED
    BY <1>1, <2>1, <2>2 DEF ViewInv
<1>3. ~Crashed' /\ AwaitInv' /\ ActiveOK' /\ NoRace'
  BY DEF Ground, Crashed, At, AwaitInv, VersionOK, AwaitOK, Awaits,
     InSync, Published, SyncVersion, Counted, Reading, InSection, ActiveOK,
     Active, NoRace, TakingVersion
<1>4. ASSUME NEW t \in Threads PROVE NewerOK(t)' /\ FlagsOK(t)'
  BY DEF Ground, NewerOK, Reading, InSection, At, Newer, Counted, SyncVersion,
     FlagsOK, Shows, InSync, Published
<1>5. ReclaimOK'
  <2>1. NodesOK' /\ ListsOK'
    BY DEF Ground, ReclaimOK, NodesOK, ListsOK
  <2>2. ASSUME NEW n \in Nodes, NEW t \in Threads PROVE MaySee(t, n)' <=> MaySee(t, n)
    BY DEF MaySee, InSection, Seen, Child, Val, At, CopyPtr, Shows, InSync,
       Published, SyncVersion, Committed, Pending, SlotsOf
  <2>3. ASSUME NEW n \in Nodes PROVE FreedOK(n)'
    BY <2>2 DEF Ground, ReclaimOK, FreedOK, Unreachable, Unlinked, CopyPtr
  <2>4. ASSUME NEW n \in Nodes, NEW w \in Threads PROVE GoneOK(w, n)' /\ RemovingOK(w, n)'
    <3>1. /\ Gone(w, n)' <=> Gone(w, n)
          /\ Unlinked(n)' <=> Unlinked(n)
          /\ \A o \in Objs, s \in Slots : Committed(o, w, s)' <=> Committed(o, w, s)
          /\ \A t \in Threads : Shows(t, w)' <=> Shows(t, w)
      BY DEF Gone, Removing, InSection, HoldsLock, Cur, At, Unlinked, CopyPtr,
         Shows, InSync, Published, SyncVersion, Committed, Pending, SlotsOf
    <3>2. RemovingOK(w, n)'
      BY DEF Ground, ReclaimOK, RemovingOK, Removing, InSection, HoldsLock, Cur, At
    <3> QED
      BY <2>2, <3>1, <3>2, NodeTypes DEF Ground, ReclaimOK, GoneOK
  <2> QED
    BY <2>1, <2>3, <2>4 DEF ReclaimOK
<1> QED
  BY <1>1, <1>2, <1>3, <1>4, <1>5 DEF Ground

(* The invariant.                                                           *)
ReclaimInv ==
  /\ ~raced /\ ~Crashed => Ground
  /\ NoUseAfterFree /\ FreesOnce

LEMMA InitReclaim == Init /\ raced = FALSE => ReclaimInv
<1> SUFFICES ASSUME Init PROVE Ground
  BY GroundSafe DEF ReclaimInv
<1>1. /\ ViewInv /\ BoundInv /\ ~Crashed
  BY InitView, InitBound DEF Init, Crashed, At
<1>2. VersionsBounded
  BY <1>1, BoundBelow DEF ViewInv
<1>3. /\ pc = [t \in Threads |-> "idle"] /\ gWriter = 0 /\ gCommit = 0
      /\ copyOf = [o \in Objs |-> NoCopy]
  BY DEF Init
<1>4. AwaitInv /\ NoRace
  BY <1>3 DEF AwaitInv, VersionOK, AwaitOK, InSync, Published, Counted, Reading,
     InSection, At, NoRace, TakingVersion
<1>5. ActiveOK
  <2>1. Active = {}
    BY <1>3 DEF Active, Counted, At
  <2> QED
    BY <1>3, <2>1, FS_EmptySet DEF ActiveOK
<1>6. ASSUME NEW t \in Threads PROVE NewerOK(t) /\ FlagsOK(t) /\ ~InSection(t)
  BY <1>3 DEF NewerOK, FlagsOK, Reading, InSection, At
<1>7. ReclaimOK
  <2>1. NodesOK /\ ListsOK
    BY NodeTypes, ReclaimAssumption DEF Init, NodesOK, ListsOK, EmptyLog
  <2>2. ASSUME NEW n \in Nodes PROVE FreedOK(n)
    BY <1>3, <1>6, NodeTypes, ReclaimAssumption, Pointers
       DEF Init, FreedOK, Unreachable, Unlinked, MaySee
  <2>3. ASSUME NEW n \in Nodes, NEW w \in Threads PROVE GoneOK(w, n) /\ RemovingOK(w, n)
    BY DEF Init, GoneOK, RemovingOK, Gone, Removing
  <2> QED
    BY <2>1, <2>2, <2>3 DEF ReclaimOK
<1> QED
  BY <1>1, <1>2, <1>4, <1>5, <1>6, <1>7 DEF Ground

LEMMA NextReclaim == ReclaimInv /\ [ReclaimNext]_<<vars, raced>> => ReclaimInv'
<1> SUFFICES ASSUME ReclaimInv, [ReclaimNext]_<<vars, raced>> PROVE ReclaimInv'
  OBVIOUS
<1>1. Ground' => NoUseAfterFree' /\ FreesOnce'
  BY GroundSafe, PTL
<1>2. CASE UNCHANGED <<vars, raced>>
  <2>1. NoUseAfterFree' /\ FreesOnce'
    BY <1>2 DEF vars, mem, section, logs, ReclaimInv, NoUseAfterFree, FreesOnce,
       Seen, Child, Val, At
  <2>2. Crashed' <=> Crashed
    BY <1>2 DEF vars, Crashed, At
  <2>3. ASSUME Ground PROVE Ground'
    BY <1>2, <2>3, SameGround
  <2> QED
    BY <1>2, <2>1, <2>2, <2>3 DEF ReclaimInv
<1>3. ASSUME ~Crashed, NEW u \in Threads, Step(u), raced' = (raced \/ Races)
      PROVE ReclaimInv'
  <2>1. CASE raced'
    BY <2>1 DEF ReclaimInv, NoUseAfterFree, FreesOnce
  <2>2. CASE ~raced'
    <3>1. Ground /\ ~Races /\ ~raced
      BY <1>3, <2>2 DEF ReclaimInv
    <3>2. CASE Crashed'
      BY <1>3, <2>2, <3>1, <3>2, CrashSafe DEF ReclaimInv
    <3>3. CASE ~Crashed'
      BY <1>1, <1>3, <3>1, <3>3, GroundStep DEF ReclaimInv
    <3> QED
      BY <3>2, <3>3
  <2> QED
    BY <2>1, <2>2
<1> QED
  BY <1>2, <1>3 DEF ReclaimNext, Step, Terminated

(* The invariant of the whole protocol.                                     *)
LEMMA ReclaimInvariant == ReclaimSpec => []ReclaimInv
  BY InitReclaim, NextReclaim, PTL DEF ReclaimSpec

(* For every number of threads, nodes and write sets, and as long as no two *)
(* writers have taken the same version: no section has a way to a node that *)
(* rlu_process_free has given back (rlu.c:440-459), by what it has looked   *)
(* at or by the child slot it sees, whether that is the parent itself, a    *)
(* copy of its own or a stolen one; nor does a write set still hold it.     *)
THEOREM NothingFreedIsUsed == ReclaimSpec => []NoUseAfterFree
  BY ReclaimInvariant, PTL DEF ReclaimInv

(* And what a thread is about to free is unlocked, is not free already, and *)
(* is in no other thread's list: a remover frees a child that it has locked *)
(* (Quadtree_remove_node), and nobody locks it after the commit.            *)
THEOREM NothingFreedTwice == ReclaimSpec => []FreesOnce
  BY ReclaimInvariant, PTL DEF ReclaimInv

=============================================================================
