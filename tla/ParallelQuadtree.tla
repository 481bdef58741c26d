-------------------------- MODULE ParallelQuadtree --------------------------
(***************************************************************************)
(* The parallel skip quadtree (lib/parallel-rlu/Quadtree.c): every call is *)
(* a section of RLU.  Of RLU this module keeps what Rlu and RluTxn show of *)
(* it while no two writers take one version (RluTxn!raced):                *)
(*                                                                         *)
(*  - a section reads one snapshot, the tree as published when it started  *)
(*    under the thread's own committed write sets, and its own copies;     *)
(*  - a node has one owner from rlu_try_lock until the owner's abort or    *)
(*    write-back; a lock that is held fails and asks both sides to sync;   *)
(*  - a sync publishes, waits for the sections that run, writes back and   *)
(*    unlocks node by node, and frees.                                     *)
(*                                                                         *)
(* What a section reads is fixed at its start, so the other threads only   *)
(* decide which of its locks fail: a section is cut at its calls of        *)
(* rlu_try_lock and nowhere else.  That the copy made by a lock is what    *)
(* the section has seen is AsSeen.  The compare-and-swap that is lost      *)
(* between two threads is in Rlu (NoAssertFails).                          *)
(***************************************************************************)
EXTENDS QuadtreeNodes, SequencesExt

CONSTANTS
  Threads,
  Points,         \* the points the callers ask for
  Attempts,       \* attempts_left, 10
  MaxActiveSets,  \* max_write_sets
  MaxLevels,      \* bound: levels the coin flips of Quadtree_add may reach
  Seeds,          \* the trees to start from: sequences of [p, heads] added
  Calls,          \* the calls made: a set of [op, p]
  MaxCalls        \* bound: calls of one thread

ASSUME ParallelAssumption ==
  /\ Attempts \in Nat \ {0} /\ MaxActiveSets \in Nat \ {0}
  /\ MaxLevels \in Nat \ {0} /\ MaxCalls \in Nat
  /\ Points \subseteq [Dims -> Int]
  /\ Seeds \subseteq Seq([p : Points, heads : 0..(MaxLevels - 1)])
  /\ Calls \subseteq [op : {"add", "remove", "search"}, p : Points]

VARIABLES
  heap,   \* the allocated nodes as published
  draft,  \* squares whose memory still has their first centre and length
  kept,   \* per thread: copies committed and not published
  log,    \* per thread: the nodes it has locked, oldest first
  sets,   \* per thread: write sets committed and not written back
  old,    \* per thread: write sets written back and not reset
  sync,   \* is_sync
  waits,  \* the sections a sync waits for
  frees,  \* free_nodes
  pc, ret,
  call,   \* the call of a thread: [op, p], and of an add the attempts left,
          \* the coin flips, and whether success has been assigned
  base,   \* the snapshot of a section
  own,    \* its copies
  plan,   \* the locks it is still to take
  todo,   \* remove: the nodes to remove, the one at work first
  ans,    \* the answer
  turns,  \* the number of calls made
  torn    \* history: has a lock cut a removal short?

tree    == <<heap, draft>>
pending == <<kept, log, sets, old, frees>>
section == <<base, own, plan, todo>>
history == <<turns, torn>>
vars == <<tree, pending, section, sync, waits, pc, ret, call, ans, history>>

Nothing == [n \in {} |-> Node_init]
NoCall == [op |-> "none", p |-> Root.center, left |-> 0, heads |-> 0,
           assigned |-> FALSE]

At(t, l)   == pc[t] = l
Goto(t, l) == pc' = [pc EXCEPT ![t] = l]
InSection(t) == pc[t] \in {"lock", "node", "unlock"}
View(t) == own[t] @@ base[t]                              \* RLU_DEREF
Held(t, n) == \E i \in DOMAIN log[t] : log[t][i] = n
Taken == DOMAIN heap \cup UNION {DOMAIN kept[t] \cup DOMAIN own[t] : t \in Threads}

-----------------------------------------------------------------------------
(* Quadtree_search: up to the top level, then the helper.                  *)
Top(v) ==
  LET Up[n \in DOMAIN v] == IF v[n].up = Null THEN n ELSE Up[v[n].up]
  IN Up[Root]
Found(v, p) ==
  LET In[n \in DOMAIN v \cup {Null}] ==
        IF n = Null THEN FALSE
        ELSE LET child == SlotIn(v, n, p) IN
          /\ in_range(n, p)
          /\ IF child = Null THEN In[v[n].down]
             ELSE IF child.square THEN In[child]
             ELSE Point_equals(child.center, p) \/ In[v[n].down]
  IN In[Top(v)]

(* Quadtree_add, the coin flips: a copy of the root for every head that    *)
(* finds no level.                                                         *)
RootAt(v, k) ==
  LET Up[i \in Nat] == IF i = 0 THEN Root ELSE v[Up[i - 1]].up
  IN Up[k]
Height(v) == CHOOSE k \in 0..Cardinality(DOMAIN v) : RootAt(v, k) = Top(v)
WithLevels(taken, v, heads) ==
  LET Add[k \in Nat] ==
        IF k <= Height(v) THEN v
        ELSE LET h == Add[k - 1]
                 up == FreshIn(taken \cup DOMAIN h, Square(Root.center, RootLength))
             IN Stack(h @@ (up :> Node_init), up, Top(h))
  IN Add[heads]

(* Quadtree_add_helper on its way down: the square to insert into on each  *)
(* level, with the gap there.  A duplicate ends it with NULL.              *)
Refused == [parent |-> Null, gap |-> 0]
Frames(v, top, gap0, p) ==
  LET Walk[n \in DOMAIN v] ==
        IF WalksOn(SlotIn(v, n, p), p) THEN Walk[SlotIn(v, n, p)] ELSE n
      From[n \in DOMAIN v, gap \in Nat] ==
        LET parent == Walk[n]
            child == SlotIn(v, parent, p)
            frame == <<[parent |-> parent, gap |-> gap]>>
        IN IF ~in_range(n, p) THEN <<Refused>>
           ELSE IF gap = 0 /\ child # Null /\ ~child.square
                     /\ Point_equals(child.center, p)
           THEN frame \o <<Refused>>
           ELSE IF v[parent].down = Null THEN frame
           ELSE frame \o From[v[parent].down, NextGap(gap)]
  IN From[top, gap0]

(* On its way up: the node, and perhaps a square, on one level.  locks are *)
(* the nodes to lock on the way; a down square that is not found is NULL.  *)
(* Mutant: only the square below the parent is looked at.                  *)
DownOfParent(v, start, sq) ==
  IF start = Null \/ SameSquare(start, sq) THEN start ELSE Null
DownSquare(v, start, sq) ==
  LET Below[n \in DOMAIN v \cup {Null}] ==
        IF n = Null \/ SameSquare(n, sq) THEN n
        ELSE Below[SlotIn(v, n, sq.center)]
  IN Below[start]
Insert(taken, p, frame, made) ==
  IF frame.gap > 0 \/ ~made.ok THEN made
  ELSE LET h == made.h
           parent == frame.parent
           new == FreshIn(taken \cup DOMAIN h, PointAt(p))
           sibling == SlotIn(h, parent, p)
       IN IF sibling = Null
          THEN [made EXCEPT !.h = WithPoint(h, new, parent, made.low), !.low = new]
          ELSE LET sq == FreshIn(taken \cup DOMAIN h, Split(parent, sibling, p))
                   start == h[parent].down
                   down == DownSquare(h, start, sq)
                   ok == start = Null \/ down # Null
               IN [h |-> IF ok THEN WithSquare(h, new, made.low, parent, sibling,
                                               sq, down)
                         ELSE h,
                   low |-> new,
                   locks |-> made.locks \o <<sibling>>
                               \o (IF down # Null THEN <<down>> ELSE <<>>),
                   ok |-> ok]

(* The whole attempt, had it all its locks.                                *)
Adding(taken, v, p, heads) ==
  LET h == WithLevels(taken, v, heads)
      gap == Height(h) - heads
      frames == Frames(h, Top(h), gap, p)
      refused == Last(frames) = Refused
      squares == IF refused THEN Front(frames) ELSE frames
      parents == [i \in DOMAIN squares |-> squares[i].parent]
      start == [h |-> h, low |-> Null, locks |-> parents, ok |-> ~refused]
  IN FoldRight(LAMBDA f, made : Insert(taken, p, f, made), squares, start)

(* The locks an attempt takes on nodes others can see, in order.           *)
AddLocks(v, p, heads) ==
  LET climb == IF heads > Height(v) THEN <<Top(v)>> ELSE <<>>
      Seen(n) == n \in DOMAIN v
      locks == SelectSeq(climb \o Adding(Taken, v, p, heads).locks, Seen)
  IN [i \in DOMAIN locks |-> [node |-> locks[i], then |-> "hold"]]

(* Quadtree_init, and what is in the tree before the threads start.        *)
Populated(seed) ==
  FoldLeft(LAMBDA h, a : Adding({}, h, a.p, a.heads).h, Root :> Node_init, seed)
Init ==
  /\ heap \in {Populated(seed) : seed \in Seeds} /\ draft = {}
  /\ kept = [t \in Threads |-> Nothing]
  /\ log = [t \in Threads |-> <<>>]
  /\ sets = [t \in Threads |-> 0]
  /\ old = [t \in Threads |-> FALSE]
  /\ sync = [t \in Threads |-> FALSE]
  /\ waits = [t \in Threads |-> {}]
  /\ frees = [t \in Threads |-> {}]
  /\ pc = [t \in Threads |-> "idle"]
  /\ ret = [t \in Threads |-> "idle"]
  /\ call = [t \in Threads |-> NoCall]
  /\ base = [t \in Threads |-> Nothing]
  /\ own = [t \in Threads |-> Nothing]
  /\ plan = [t \in Threads |-> <<>>]
  /\ todo = [t \in Threads |-> <<>>]
  /\ ans = [t \in Threads |-> FALSE]
  /\ turns = [t \in Threads |-> 0]
  /\ torn = FALSE

-----------------------------------------------------------------------------
(* Quadtree_remove_helper.  It looks at a child square without RLU_DEREF:  *)
(* the memory of a square that has been split more than once holds its     *)
(* first centre and length until it is written back.                       *)
Raw(v, n) ==
  IF n \in draft THEN FirstSquare(v[n].parent, n.center) ELSE n
LocatedFrom(v, top, p) ==
  LET In[n \in DOMAIN v \cup {Null}] ==
        IF n = Null \/ ~in_range(n, p) THEN Null
        ELSE LET child == SlotIn(v, n, p) IN
          IF child = Null THEN In[v[n].down]
          ELSE IF WalksOn(Raw(v, child), p) THEN In[child]
          ELSE IF Point_equals(Raw(v, child).center, p) THEN child
          ELSE In[v[n].down]
  IN In[top]
LocatedLowest(v, p) == LocatedFrom(v, Root, p)  \* mutant: not from the top
Located(v, p) == LocatedFrom(v, Top(v), p)

(* Quadtree_remove_node: a node without parent and without down is left    *)
(* alone; a square with several children, or a root with one, is locked    *)
(* and left.  Every other node is unlinked, one lock at a time, and freed. *)
IsLowestRoot(v, n) == v[n].down = Null /\ v[n].parent = Null
Splices(v, n) == n.square /\ Count(v, n) = 1
Stays(v, n) ==
  \/ n.square /\ Count(v, n) > 1
  \/ Splices(v, n) /\ v[n].parent = Null
OnlyChild(v, n) == CHOOSE c \in Children(v, n) : TRUE

Take(n, then) == <<[node |-> n, then |-> then]>>
TakeIf(b, n, then) == IF b THEN Take(n, then) ELSE <<>>
Unlinking(v, n) ==
  LET parent == v[n].parent
      spliced == Splices(v, n)
  IN Take(n, "hold") \o
     IF Stays(v, n) THEN <<>>
     ELSE TakeIf(spliced, parent, "hold")
            \o TakeIf(spliced, OnlyChild(v, n), "splice")
            \o TakeIf(/\ ~spliced /\ parent # Null
                      /\ v[parent].child[QuadrantIn(parent, n)] = n,
                      parent, "unslot")
            \o TakeIf(v[n].up # Null, v[n].up, "up")
            \o TakeIf(v[n].down # Null, v[n].down, "down")
            \o Take(v[n].down, "free")

(* What is assigned once a lock has been taken; h are the section's copies. *)
CutUp(h, n) == SetUp(SetDown(h, h[n].up, Null), n, Null)
CutOwnDown(h, n) == SetDown(h, n, Null)  \* mutant: the lower node keeps its up
CutDown(h, n) == SetDown(SetUp(h, h[n].down, Null), n, Null)
Assigned(h, n, then) ==
  LET parent == h[n].parent IN
  CASE then = "hold" -> h
    [] then = "splice" ->
         SetParent(SetParent(SetSlot(h, parent, QuadrantIn(parent, n),
                                     OnlyChild(h, n)),
                             OnlyChild(h, n), parent), n, Null)
    [] then = "unslot" -> SetSlot(h, parent, QuadrantIn(parent, n), Null)
    [] then = "up"     -> CutUp(h, n)
    [] then = "down"   -> CutDown(h, n)

-----------------------------------------------------------------------------
(* rlu_sync_and_writeback, called with a write set too many or on request. *)
MustSync(t) ==
  \/ sets[t] >= MaxActiveSets
  \/ sync[t] /\ (sets[t] > 0 \/ old[t])
SyncThen(t, back) ==
  IF MustSync(t) THEN Goto(t, "publish") /\ ret' = [ret EXCEPT ![t] = back]
                 ELSE Goto(t, back) /\ UNCHANGED ret

(* g_rlu_writer_version is incremented, and rlu_init_quiescence looks who  *)
(* is in a section; whoever starts later sees what is published.           *)
WaitsForNobody(t) == {}  \* mutant
WaitsFor(t) == {u \in Threads \ {t} : InSection(u)}
Publish(t) ==
  /\ At(t, "publish") /\ Goto(t, "wait")
  /\ heap' = kept[t] @@ heap
  /\ kept' = [kept EXCEPT ![t] = Nothing]
  /\ waits' = [waits EXCEPT ![t] = WaitsFor(t)]
  /\ UNCHANGED <<draft, log, sets, old, frees, section, sync, ret, call, ans,
                 history>>
WriteBack(t) ==
  /\ At(t, "wait") /\ waits[t] = {} /\ log[t] # <<>>
  /\ log' = [log EXCEPT ![t] = Tail(@)]
  /\ draft' = draft \ {Head(log[t])}
  /\ UNCHANGED <<heap, kept, sets, old, frees, section, sync, waits, pc, ret,
                 call, ans, history>>

(* The nodes that are reached by the pointers of some heaps.               *)
ReachedIn(Heaps, from) ==
  LET Next(n) == UNION {Pointers(h, n) : h \in {g \in Heaps : n \in DOMAIN g}}
      More(S) == S \cup UNION {Next(n) : n \in S}
      Reach[k \in Nat] == IF k = 0 THEN from ELSE More(Reach[k - 1])
  IN Reach[Cardinality(UNION {DOMAIN h : h \in Heaps})]

(* Nodes that neither the tree nor a thread reaches are leaked: the model  *)
(* forgets them.                                                           *)
Forget(h) ==
  LET seen == {h} \cup UNION {{kept[t], base[t], own[t]} : t \in Threads}
      named == {Root} \cup UNION {frees[t] \cup ToSet(log[t]) : t \in Threads}
      live == ReachedIn(seen, named)
  IN [n \in DOMAIN h \cap live |-> h[n]]

(* is_sync = 0 and rlu_process_free.                                       *)
FreesAgain(t) == frees[t]  \* mutant: free_nodes_size is not reset
LeftToFree(t) == {}
EndSync(t) ==
  /\ At(t, "wait") /\ waits[t] = {} /\ log[t] = <<>>
  /\ heap' = Forget([n \in DOMAIN heap \ frees[t] |-> heap[n]])
  /\ frees' = [frees EXCEPT ![t] = LeftToFree(t)]
  /\ sync' = [sync EXCEPT ![t] = FALSE]
  /\ old' = [old EXCEPT ![t] = sets[t] > 0]
  /\ sets' = [sets EXCEPT ![t] = 0]
  /\ Goto(t, ret[t]) /\ ret' = [ret EXCEPT ![t] = "idle"]
  /\ UNCHANGED <<draft, kept, log, section, waits, call, ans, history>>

-----------------------------------------------------------------------------
(* Sections.  rlu_reader_lock: a checkpoint, and then the snapshot.        *)
Begin(t, c) ==
  /\ At(t, "idle") /\ turns[t] < MaxCalls /\ SyncThen(t, "start")
  /\ turns' = [turns EXCEPT ![t] = @ + 1]
  /\ call' = [call EXCEPT ![t] = c @@ [NoCall EXCEPT !.left = Attempts]]
  /\ UNCHANGED <<tree, pending, section, sync, waits, ans, torn>>

Start(t) ==
  /\ At(t, "start")
  /\ \E v \in {kept[t] @@ heap} :
       /\ base' = [base EXCEPT ![t] = v]
       /\ \/ /\ call[t].op = "search" /\ Goto(t, "unlock")
             /\ ans' = [ans EXCEPT ![t] = Found(v, call[t].p)]
             /\ UNCHANGED <<plan, todo, call>>
          \/ /\ call[t].op = "remove" /\ Goto(t, "node")
             /\ todo' = [todo EXCEPT ![t] =
                           IF Located(v, call[t].p) = Null THEN <<>>
                           ELSE <<Located(v, call[t].p)>>]
             /\ UNCHANGED <<plan, call, ans>>
          \/ /\ call[t].op = "add" /\ Goto(t, "lock")
             /\ \E heads \in 0..(MaxLevels - 1) :
                  /\ plan' = [plan EXCEPT ![t] = AddLocks(v, call[t].p, heads)]
                  /\ call' = [call EXCEPT ![t].heads = heads,
                                         ![t].assigned = @ \/ heads <= Height(v)]
             /\ UNCHANGED <<todo, ans>>
  /\ UNCHANGED <<tree, pending, own, sync, waits, ret, history>>

(* rlu_unregister_thread: syncs that wait for this section go on.          *)
Leave(t) ==
  /\ waits' = [u \in Threads |-> waits[u] \ {t}]
  /\ base' = [base EXCEPT ![t] = Nothing]

(* rlu_reader_unlock.  w are the copies the section has made.              *)
Commit(t, w, b) ==
  LET new == DOMAIN w \ DOMAIN base[t]
      Halved(n) == /\ n.square /\ w[n].parent # Null
                   /\ ~Same(n, Node(FirstSquare(w[n].parent, n.center), 0))
  IN /\ kept' = [kept EXCEPT ![t] = w @@ @]
     /\ log' = [log EXCEPT ![t] = @ \o SetToSeq(new)]
     /\ sets' = [sets EXCEPT ![t] = IF w = Nothing THEN @ ELSE @ + 1]
     /\ draft' = draft \cup {n \in new : Halved(n)}
     /\ ans' = [ans EXCEPT ![t] = b]
     /\ own' = [own EXCEPT ![t] = Nothing]
     /\ Leave(t) /\ Goto(t, "done")
     /\ UNCHANGED <<heap, old, frees, plan, todo, sync, ret, call, history>>

(* The end of a call: rlu_commit_write_set and rlu_sync_checkpoint.        *)
Return(t) ==
  /\ At(t, "done") /\ SyncThen(t, "idle")
  /\ call' = [call EXCEPT ![t] = NoCall]
  /\ ans' = [ans EXCEPT ![t] = FALSE]
  /\ UNCHANGED <<tree, pending, section, sync, waits, history>>

(* rlu_thread_finish, after the last call of the thread.                   *)
ThreadFinish(t) ==
  /\ At(t, "idle") /\ turns[t] = MaxCalls /\ sets[t] > 0
  /\ Goto(t, "publish") /\ UNCHANGED ret
  /\ UNCHANGED <<tree, pending, section, sync, waits, call, ans, history>>

(* rlu_abort: unlock the section's nodes one by one.                       *)
Abort(t) ==
  /\ Leave(t) /\ Goto(t, "abort")
  /\ own' = [own EXCEPT ![t] = Nothing]
  /\ plan' = [plan EXCEPT ![t] =
                SelectSeq(log[t], LAMBDA n : n \in DOMAIN own[t])]
UnlockNode(t) ==
  /\ At(t, "abort") /\ plan[t] # <<>>
  /\ log' = [log EXCEPT ![t] = Remove(@, Head(plan[t]))]
  /\ plan' = [plan EXCEPT ![t] = Tail(@)]
  /\ UNCHANGED <<tree, kept, sets, old, frees, base, own, todo, sync, waits, pc,
                 ret, call, ans, history>>

(* --attempts_left.  success has any value when no attempt got as far as   *)
(* its assignment.                                                         *)
(* The abort ends, and the next section starts, with a checkpoint.         *)
Retry(t) ==
  /\ At(t, "abort") /\ plan[t] = <<>>
  /\ call' = [call EXCEPT ![t].left = @ - 1, ![t].heads = 0]
  /\ IF call[t].left > 1
     THEN SyncThen(t, "again") /\ UNCHANGED ans
     ELSE /\ Goto(t, "done") /\ UNCHANGED ret
          /\ \E b \in IF call[t].assigned THEN {FALSE} ELSE BOOLEAN :
               ans' = [ans EXCEPT ![t] = b]
  /\ UNCHANGED <<tree, pending, section, sync, waits, history>>

Again(t) ==
  /\ At(t, "again") /\ SyncThen(t, "start")
  /\ UNCHANGED <<tree, pending, section, sync, waits, call, ans, history>>

-----------------------------------------------------------------------------
(* rlu_try_lock of the next node.  An older write set of the same thread   *)
(* is in the way like another thread.                                      *)
Owners(n) == {u \in Threads : Held(u, n)}
CanLockOwn(t, n) ==  \* mutant: the run counter is not compared
  n \in DOMAIN own[t] \cup DOMAIN heap /\ Owners(n) \subseteq {t}
CanLock(t, n) == n \in DOMAIN own[t] \/ Owners(n) = {}
Next1(t) == Head(plan[t])

Lock(t) ==
  /\ At(t, "lock") /\ plan[t] # <<>> /\ Next1(t).then # "free"
  /\ CanLock(t, Next1(t).node)
  /\ LET n == Next1(t).node
         copies == IF n \in DOMAIN own[t] THEN own[t] ELSE (n :> heap[n]) @@ own[t]
     IN /\ own' = [own EXCEPT ![t] =
                     IF call[t].op = "add" THEN copies
                     ELSE Assigned(copies, Head(todo[t]), Next1(t).then)]
        /\ log' = [log EXCEPT ![t] =
                     IF n \in DOMAIN own[t] THEN @ ELSE Append(@, n)]
  /\ plan' = [plan EXCEPT ![t] = Tail(@)]
  /\ call' = [call EXCEPT ![t].assigned = call[t].op = "add"]
  /\ UNCHANGED <<tree, kept, sets, old, frees, base, todo, sync, waits, pc, ret,
                 ans, history>>

(* return NULL of TRY_OR_FAIL: Quadtree_add aborts; Quadtree_remove_node   *)
(* returns to its caller, which goes on.                                   *)
Changed(t) == \E n \in DOMAIN own[t] : own[t][n] # base[t][n]
LockFails(t) ==
  /\ At(t, "lock") /\ plan[t] # <<>> /\ Next1(t).then # "free"
  /\ ~CanLock(t, Next1(t).node)
  /\ sync' = [u \in Threads |-> u = t \/ u \in Owners(Next1(t).node) \/ sync[u]]
  /\ \/ /\ call[t].op = "add" /\ Abort(t) /\ UNCHANGED <<todo, torn>>
     \/ /\ call[t].op = "remove" /\ Goto(t, "node")
        /\ plan' = [plan EXCEPT ![t] = <<>>]
        /\ todo' = [todo EXCEPT ![t] = Tail(@)]
        /\ torn' = (torn \/ Changed(t))
        /\ UNCHANGED <<base, own, waits>>
  /\ UNCHANGED <<tree, pending, ret, call, ans, turns>>

(* All locks of an attempt taken: it succeeds, or has found a reason not   *)
(* to on its way.                                                          *)
AddEnds(t) ==
  /\ At(t, "lock") /\ call[t].op = "add" /\ plan[t] = <<>>
  /\ \E made \in {Adding(Taken, base[t], call[t].p, call[t].heads)} :
       \/ /\ made.ok
          /\ Commit(t, [n \in DOMAIN own[t] \cup (DOMAIN made.h \ DOMAIN base[t])
                          |-> made.h[n]], TRUE)
       \/ /\ ~made.ok /\ Abort(t)
          /\ UNCHANGED <<tree, pending, todo, sync, ret, call, ans, history>>

(* Quadtree_remove_node for the next node.                                 *)
RemoveNode(t) ==
  /\ At(t, "node") /\ todo[t] # <<>>
  /\ LET n == Head(todo[t]) IN
     IF IsLowestRoot(View(t), n)
     THEN todo' = [todo EXCEPT ![t] = Tail(@)] /\ UNCHANGED <<pc, plan>>
     ELSE /\ plan' = [plan EXCEPT ![t] = Unlinking(View(t), n)]
          /\ Goto(t, "lock") /\ UNCHANGED todo
  /\ UNCHANGED <<tree, pending, base, own, sync, waits, ret, call, ans, history>>

(* The node stays after all.                                               *)
KeepNode(t) ==
  /\ At(t, "lock") /\ call[t].op = "remove" /\ plan[t] = <<>>
  /\ todo' = [todo EXCEPT ![t] = Tail(@)] /\ Goto(t, "node")
  /\ UNCHANGED <<tree, pending, base, own, plan, sync, waits, ret, call, ans,
                 history>>

(* Node_free, then the parent if it is too thin now, then the copy below.  *)
FreeNode(t) ==
  /\ At(t, "lock") /\ plan[t] # <<>> /\ Next1(t).then = "free"
  /\ LET n == Head(todo[t])
         parent == own[t][n].parent
         down == Next1(t).node
         Visit(m, b) == IF b THEN <<m>> ELSE <<>>
     IN /\ frees' = [frees EXCEPT ![t] = @ \cup {n}]
        /\ todo' = [todo EXCEPT ![t] =
                      Visit(parent, parent # Null /\ Thin(View(t), parent))
                        \o Visit(down, down # Null) \o Tail(@)]
  /\ ans' = [ans EXCEPT ![t] = TRUE]
  /\ plan' = [plan EXCEPT ![t] = <<>>] /\ Goto(t, "node")
  /\ UNCHANGED <<tree, kept, log, sets, old, base, own, sync, waits, ret, call,
                 history>>

(* Quadtree_remove and Quadtree_search end in rlu_reader_unlock, whatever  *)
(* has happened.                                                           *)
RemoveEnds(t) == At(t, "node") /\ todo[t] = <<>> /\ Commit(t, own[t], ans[t])
SearchEnds(t) == At(t, "unlock") /\ Commit(t, Nothing, ans[t])

Step(t) ==
  \/ Start(t) \/ Again(t) \/ Return(t) \/ Publish(t) \/ WriteBack(t) \/ EndSync(t)
  \/ Lock(t) \/ LockFails(t) \/ UnlockNode(t) \/ Retry(t) \/ AddEnds(t)
  \/ RemoveNode(t) \/ KeepNode(t) \/ FreeNode(t)
  \/ RemoveEnds(t) \/ SearchEnds(t)
Next ==
  \E t \in Threads : Step(t) \/ ThreadFinish(t) \/ \E c \in Calls : Begin(t, c)
Spec == Init /\ [][Next]_vars

-----------------------------------------------------------------------------
(* What a section reaches stays as it has seen it until it is over: no     *)
(* node of it is freed, and one that can be locked is still the same, so   *)
(* the copy that rlu_try_lock makes of the node is of what has been seen.  *)
AsSeen ==
  ~torn => \A t \in Threads : InSection(t) =>
    \A n \in ReachedIn({base[t]}, {Root}) :
      /\ n \in DOMAIN heap \cup DOMAIN kept[t]
      /\ Owners(n) = {} => heap[n] = base[t][n]

(* The tree with all committed write sets.                                 *)
Newest == FoldSet(LAMBDA t, h : kept[t] @@ h, heap, Threads)

InTree == ReachedIn({Newest}, {Root})

NoDangling ==
  ~torn => /\ InTree \subseteq DOMAIN Newest
           /\ \A t \in Threads : ~InSection(t) => frees[t] \cap InTree = {}

Linked ==
  ~torn => \A n \in InTree :
    /\ \A c \in Children(Newest, n) : Newest[c].parent = n
    /\ Newest[n].parent # Null => n \in Children(Newest, Newest[n].parent)
    /\ Newest[n].up # Null => Newest[Newest[n].up].down = n
    /\ Newest[n].down # Null => Newest[Newest[n].down].up = n
                                 /\ Same(n, Newest[n].down)

(* rlu.c:450                                                               *)
FreesUnlocked ==
  \A t \in Threads : At(t, "wait") /\ log[t] = <<>> =>
    \A n \in frees[t] : Owners(n) = {} /\ n \in DOMAIN heap

Lowest(h) ==
  LET In[n \in DOMAIN h] == IF n.square THEN UNION {In[c] : c \in Children(h, n)}
                            ELSE {n.center}
  IN In[Root]
Contents == Lowest(Newest)

(* A search that finds a point finds one that is on the lowest level, and  *)
(* on a tree of one level it finds them all.                               *)
SearchAgrees ==
  ~torn => \A p \in Points :
    /\ Found(Newest, p) => p \in Contents
    /\ Newest[Root].up = Null => Found(Newest, p) = (p \in Contents)

(* What the threads see.  The answer of an add that has not assigned       *)
(* success is no answer.                                                   *)
Doing == [t \in Threads |-> [op |-> call[t].op, p |-> call[t].p]]
Phase == [t \in Threads |-> CASE call[t] = NoCall -> "idle"
                              [] At(t, "done") -> "answered"
                              [] OTHER -> "busy"]
Guessed(t) == call[t].op = "add" /\ ~call[t].assigned
Answer == [t \in Threads |-> At(t, "done") /\ ~Guessed(t) /\ ans[t]]
Shared == INSTANCE SharedSet
            WITH points <- Contents, doing <- Doing, phase <- Phase,
                 answer <- Answer, broken <- torn
IsSharedSet == Shared!SetSpec

(* The bound of the runs: nothing is asked of a tree after a lock has cut  *)
(* a removal short.                                                        *)
Whole == ~torn

(* Every square of a level is on the level below, in each snapshot that    *)
(* commits, aborts and removals of the threads leave: an attempt that has  *)
(* found the point missing and has got its locks never looks in vain for   *)
(* the down square of a square it makes (parallel-rlu/Quadtree.c:236).     *)
DownSquareFound ==
  ~torn => \A t \in Threads :
    At(t, "lock") /\ call[t].op = "add" /\ plan[t] = <<>> =>
      LET made == Adding(Taken, base[t], call[t].p, call[t].heads)
      IN made.low # Null => made.ok

(* Quadtree.h:192 and 204: TRUE says that the call was successful, that is *)
(* that the point is there after an add and gone after a remove.           *)
AnswersHold ==
  [][\A t \in Threads : ~At(t, "done") /\ At(t, "done")' /\ ans'[t] =>
       CASE call[t].op = "add"    -> call[t].p \in Contents'
         [] call[t].op = "remove" -> call[t].p \notin Contents'
         [] call[t].op = "search" -> TRUE]_vars
=============================================================================
