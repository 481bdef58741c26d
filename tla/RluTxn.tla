------------------------------- MODULE RluTxn -------------------------------
(***************************************************************************)
(* A client of Rlu whose sections are transactions.  The objects come in   *)
(* groups that are only written together, the way the parallel quadtree    *)
(* locks and rewrites a parent and its child in one section: a writer      *)
(* locks every object of a group, adds one to each copy and commits, or    *)
(* gives up with rlu_abort.  Every other call a section may make is left   *)
(* to chance.  All members of a group therefore hold the same value in     *)
(* every consistent state, and the value counts the commits.               *)
(***************************************************************************)
EXTENDS Rlu, FiniteSets

CONSTANTS
  Groups,  \* the sets of objects that are written together
  Reads,   \* the groups each thread may dereference
  Writes,  \* the groups each thread may lock and write
  TolerateFailure  \* does a section go on after rlu_try_lock has failed?

ASSUME TxnAssumption ==
  /\ TolerateFailure \in BOOLEAN
  /\ Vals \subseteq Nat /\ InitVal = 0
  /\ Reads \in [Threads -> SUBSET Groups]
  /\ Writes \in [Threads -> SUBSET Groups]
  /\ Groups \subseteq SUBSET Objs /\ UNION Groups = Objs
  /\ \A g, h \in Groups : g = h \/ g \cap h = {}

VARIABLES
  commits,  \* history: committed sections that wrote the object
  raced     \* history: have two threads loaded the same writer version?

txnVars == <<vars, commits, raced>>

TxnInit ==
  /\ Init
  /\ commits = [o \in Objs |-> 0]
  /\ raced = FALSE

(* The section of t has added one to its copy of o.  Bound: Vals.          *)
Bumped(t, o) == HoldsLock(t, o) /\ log[t][Cur(t)][o] = actual[o] + 1
Bump(t, o) ==
  /\ HoldsLock(t, o) /\ ~Bumped(t, o)
  /\ \E v \in Vals : v = actual[o] + 1 /\ Write(t, o, v)

(* What a section may still do once a lock has failed.                     *)
GoesOn(t) == failed[t] => TolerateFailure

(* A section may commit when every group it touched is written as a whole. *)
Complete(t) ==
  \A g \in Groups : \/ \A o \in g : ~HoldsLock(t, o)
                    \/ \A o \in g : Bumped(t, o)
Unlock(t) == GoesOn(t) /\ Complete(t) /\ ReaderUnlock(t)
Commit(t) ==
  /\ Unlock(t)
  /\ commits' = [o \in Objs |->
                   IF HoldsLock(t, o) THEN commits[o] + 1 ELSE commits[o]]
GiveUp(t) == (failed[t] \/ writeDet[t]) /\ Abort(t)

Call(t) ==
  \/ ReaderLock(t) \/ ThreadFinish(t) \/ GiveUp(t)
  \/ GoesOn(t) /\ \E o \in UNION Reads[t] : Deref(t, o)
  \/ GoesOn(t) /\ \E o \in UNION Writes[t] :
       TryLockHeld(t, o) \/ TryLockFree(t, o) \/ Bump(t, o)

TxnStep(t) ==
  /\ ~Crashed
  /\ \/ Commit(t)
     \/ (LibraryStep(t) \/ Call(t)) /\ UNCHANGED commits
  /\ raced' = (raced \/ Races)

TxnNext ==
  \/ \E t \in Threads : TxnStep(t)
  \/ Terminated /\ UNCHANGED <<commits, raced>>
TxnSpec == TxnInit /\ [][TxnNext]_txnVars

(* The library's own steps are those of a running thread; a section comes  *)
(* to its end although it may make calls without end before; and between   *)
(* sections a thread goes on: it starts another or, sooner or later,       *)
(* finishes (benchmark.c:78, 134).                                         *)
Fairness ==
  \A t \in Threads :
    /\ WF_vars(LibraryStep(t)) /\ SF_vars(Unlock(t) \/ GiveUp(t))
    /\ WF_vars(ReaderLock(t) \/ ThreadFinish(t))
FairSpec == TxnSpec /\ Fairness

-----------------------------------------------------------------------------
(* The value of o for a section that starts now and ends after all syncs.  *)
Latest(o) ==
  LET p == copyOf[o]
  IN IF p # NoCopy /\ p.slot # Cur(p.thread)
     THEN log[p.thread][p.slot][o] ELSE actual[o]

(* A section reads one snapshot: two objects that are only written together *)
(* never show it one old and one new value, whether it reads the object,    *)
(* its own older copy or a copy stolen from a writer in its sync            *)
(* (rlu_deref_slow_path, rlu_wait_for_quiescence).  Objects the section has *)
(* locked are its own to change.                                            *)
Snapshot ==
  \A t \in Threads : InSection(t) =>
    \A g \in Groups : \A o, q \in g :
      (/\ Seen(t, o) /\ ~HoldsLock(t, o)
       /\ Seen(t, q) /\ ~HoldsLock(t, q)) => Val(t, o) = Val(t, q)

(* Snapshots may only tear after two writers took the same version.        *)
SnapshotUnlessRaced == ~raced => Snapshot

(* What a section has read of an object stays what it is for the rest of    *)
(* the section, in particular when the section then locks the object        *)
(* (rlu_try_lock copies the object, not what the section saw) and while the *)
(* writer copies its log back under the readers.                            *)
StableStep ==
  \A t \in Threads, o \in Objs :
    (/\ InSection(t) /\ Seen(t, o) /\ ~HoldsLock(t, o)
     /\ InSection(t)' /\ Seen(t, o)') => Val(t, o)' = Val(t, o)
StableReads == [][~raced' => StableStep]_txnVars

(* No RLU_ASSERT fails: a section that gives up after a failed rlu_try_lock *)
(* never has a header without a copy in the log it commits or unlocks       *)
(* (rlu.c:353, 405).                                                        *)
NoAssertFails == ~Crashed

(* Nothing committed is lost and nothing aborted shows: the newest value of *)
(* an object counts exactly the committed sections that wrote it, across    *)
(* write-back, deferred syncs and aborts.                                   *)
NoLostUpdate == \A o \in Objs : Latest(o) = commits[o]

(* rlu.c:837 "This thread started after the other thread updated            *)
(* g_writer_version": whoever is stolen from has incremented the version.   *)
StealAfterPublish ==
  [][\A t \in Threads :
       At(t, "deref") /\ At(t, "in")' /\ Steals(t)
         => ~TakingVersion(ptr[t].thread)]_txnVars

(* Waiting for quiescence ends, although writers wait for each other and    *)
(* sections may call the library without end before they leave.             *)
QuiescenceReached ==
  \A t \in Threads : At(t, "waitq") ~> At(t, "reset")

(* A lock is always given back: by an abort, or by the sync of its owner.   *)
LocksReleased ==
  \A o \in Objs : copyOf[o] # NoCopy ~> copyOf[o] = NoCopy
=============================================================================
