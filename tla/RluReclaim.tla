----------------------------- MODULE RluReclaim -----------------------------
(***************************************************************************)
(* A client of Rlu that allocates and frees objects the way the parallel   *)
(* quadtree does (src/lib/parallel-rlu/Quadtree.c): a parent node has one  *)
(* child slot; an adder links a fresh node there, a remover locks parent   *)
(* and child, clears the slot and frees the child with rlu_free.  Readers  *)
(* follow the slot to the child.  The memory of a freed node is given out  *)
(* again by rlu_alloc.                                                     *)
(***************************************************************************)
EXTENDS Rlu

CONSTANTS Root,  \* the parent node, which is never freed
          Nil    \* an empty child slot

VARIABLE raced  \* history: have two threads loaded the same version?

Nodes == Objs \ {Root}
ASSUME ReclaimAssumption ==
  /\ Root \in Objs /\ Unallocated = Nodes
  /\ Vals = Nodes \cup {Nil} /\ InitVal = Nil /\ Nil \notin Nodes

(* The child slot as this section sees it.                                 *)
Child(t) == Val(t, Root)
TryLock(t, o) == TryLockHeld(t, o) \/ TryLockFree(t, o)
LocksNode(t) == \E o \in Nodes : HoldsLock(t, o)
Untouched == <<clocks, section, locals, ring, wsRun, shape, quiesce, pc, ret,
            isSync, wver, todo>>

(* Quadtree_search_helper and the walks of add and remove.                 *)
LookAtParent(t) == Deref(t, Root)
LookAtChild(t) == Seen(t, Root) /\ Child(t) \in Nodes /\ Deref(t, Child(t))

(* TRY_OR_FAIL.  Quadtree_remove_node locks the child first, then checks   *)
(* that the parent's slot has it, then locks the parent.                   *)
LockChild(t, o) == Seen(t, o) /\ ~HoldsLock(t, Root) /\ TryLock(t, o)
LockParent(t) ==
  /\ Seen(t, Root) /\ TryLock(t, Root)
  /\ \A o \in Nodes : HoldsLock(t, o) => Child(t) = o

(* Quadtree_add_helper: a new node into the empty slot.                    *)
AddChild(t) ==
  /\ At(t, "in") /\ HoldsLock(t, Root) /\ ~LocksNode(t) /\ Child(t) = Nil
  /\ \E n \in Nodes : Alloc(n, Nil) /\ Assign(t, Root, n)
  /\ UNCHANGED <<Untouched, freeList>>

(* Quadtree_remove_node: unlink the child and free it; the slot is not     *)
(* looked at again after the parent has been locked.  Mutant: without the  *)
(* lock on the child that is freed.                                        *)
ParentLocked(t, o) == HoldsLock(t, Root) /\ Seen(t, o)
BothLocked(t, o) == HoldsLock(t, Root) /\ HoldsLock(t, o)
RemoveChild(t) ==
  /\ At(t, "in")
  /\ \E o \in Nodes : /\ BothLocked(t, o)
                      /\ Assign(t, Root, Nil) /\ Free(t, o)
  /\ UNCHANGED <<Untouched, mem>>

(* Quadtree_add ends in rlu_abort when a lock fails, and never frees;      *)
(* Quadtree_remove ends in rlu_reader_unlock even then (where a header     *)
(* without a copy stops the program in ResetSets).                         *)
Removed(t) == \E o \in freeList[t] : HoldsLock(t, o)
AddFails(t) == ~LocksNode(t) /\ (failed[t] \/ writeDet[t]) /\ Abort(t)
Call(t) ==
  \/ ReaderLock(t) \/ ThreadFinish(t) \/ AddFails(t) \/ ReaderUnlock(t)
  \/ /\ ~failed[t] /\ ~Removed(t)
     /\ \/ LookAtParent(t) \/ LookAtChild(t) \/ LockParent(t)
        \/ \E o \in Nodes : LockChild(t, o)
        \/ AddChild(t) \/ RemoveChild(t)

ReclaimNext ==
  \/ /\ ~Crashed /\ \E t \in Threads : LibraryStep(t) \/ Call(t)
     /\ raced' = (raced \/ Races)
  \/ Terminated /\ UNCHANGED raced
ReclaimSpec == Init /\ raced = FALSE /\ [][ReclaimNext]_<<vars, raced>>

-----------------------------------------------------------------------------
(* No section has a way to freed memory: neither a node it has looked at,  *)
(* nor the child slot it sees, nor a lock or a log entry that a write-back *)
(* would go through (rlu_process_free after rlu_wait_for_quiescence), as    *)
(* long as no two writers have taken the same version.                     *)
NoUseAfterFree == ~raced =>
  /\ \A t \in Threads, o \in freed : ~Seen(t, o)
  /\ \A t \in Threads : Seen(t, Root) => Child(t) \notin freed
  /\ \A o \in freed : copyOf[o] = NoCopy

(* Nothing is freed twice, nor while somebody has it locked, as long as no *)
(* two writers have taken the same version: a remover frees a child only   *)
(* when it has locked it, and the lock lasts until its write-back.         *)
FreesOnce == ~raced =>
  \A t \in Threads : At(t, "free") =>
    /\ \A o \in freeList[t] : copyOf[o] = NoCopy /\ o \notin freed
    /\ \A u \in Threads \ {t} : freeList[t] \cap freeList[u] = {}
=============================================================================
