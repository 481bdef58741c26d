---------------------------- MODULE SkipQuadtree ----------------------------
(***************************************************************************)
(* The serial compressed skip quadtree (lib/serial/Quadtree.c).  heap maps *)
(* the nodes that are allocated to their pointers.  A call advances by one *)
(* level of its recursion, or one turn of its loop, per action.            *)
(***************************************************************************)
EXTENDS QuadtreeNodes

CONSTANTS
  Points,     \* the points the caller asks for
  MaxLevels   \* bound: levels the coin flips of Quadtree_add may reach

ASSUME TreeAssumption ==
  MaxLevels \in Nat \ {0} /\ Points \subseteq [Dims -> Int]

(* No point is just left of an edge, and two points part at the latest in  *)
(* a square of the finest length.                                          *)
ASSUME PointsAssumption ==
  /\ \A p \in Points : OffEdges(p)
  /\ \A p, r \in Points : p # r => \E i \in Dims : Cell(p[i]) # Cell(r[i])

VARIABLES
  heap,     \* the allocated nodes: parent, up, down and child pointers
  call,     \* the call in progress, [op, p, was]
  pc,       \* where it is
  cur,      \* the node it looks at
  gap,      \* gap_depth
  frames,   \* add: the squares to insert into, lowest level first
  sq,       \* add: the centre and length of square, as halved so far
  low,      \* add: down_node, the node inserted one level below
  pending,  \* remove and free: the nodes still to recurse on
  ans,      \* the answer
  lost      \* history: was anything, an empty level or not, cut off unfreed?

vars == <<heap, call, pc, cur, gap, frames, sq, low, pending, ans, lost>>

-----------------------------------------------------------------------------
Fresh(what) == FreshIn(DOMAIN heap, what)
Allocated(n) == n \in DOMAIN heap
Slot(n, p) == SlotIn(heap, n, p)

-----------------------------------------------------------------------------
NoSquare == Square(Root.center, RootLength)
NoCall == [op |-> "none", p |-> Root.center, was |-> {}]
Contents == {n.center : n \in {m \in DOMAIN heap :
                                 ~m.square /\ heap[m].down = Null}}

Init ==  \* Quadtree_init
  /\ heap = [n \in {Root} |-> Node_init]
  /\ call = NoCall /\ pc = "idle" /\ cur = Root /\ gap = 0
  /\ frames = <<>> /\ sq = NoSquare /\ low = Null /\ pending = <<>>
  /\ ans = FALSE /\ lost = {}

At(op, l) == call.op = op /\ pc = l
Keeps == UNCHANGED <<heap, call, pending, ans, lost>>
Enter(n) == cur' = n /\ pc' = "enter"

(* What the caller's root still leads to: a closed set after as many steps *)
(* as there are nodes.                                                     *)
Reachable(h) ==
  LET Reach[k \in Nat] ==
        IF k = 0 THEN {Root} \cap DOMAIN h
        ELSE UNION {{n} \cup Pointers(h, n) : n \in Reach[k - 1]}
  IN Reach[Cardinality(DOMAIN h)]
Closed(h, live) ==
  /\ live \subseteq DOMAIN h /\ {Root} \cap DOMAIN h \subseteq live
  /\ \A n \in live : Pointers(h, n) \subseteq live
EmptyLevel(h, n) == n.square /\ h[n].parent = Null /\ Children(h, n) = {}

(* The end of a call.  Nodes that nothing leads to any more take no part   *)
(* in later calls; the model forgets them and remembers what they were.    *)
Finish(b) ==
  \E all \in {Reachable(heap)} :
  \E live \in {IF Closed(heap, all) THEN all ELSE DOMAIN heap} :
     /\ heap' = [n \in live |-> heap[n]]
     /\ lost' = lost \cup {EmptyLevel(heap, n) : n \in DOMAIN heap \ live}
     /\ ans' = b /\ pc' = "return"
     /\ cur' = Root /\ gap' = 0 /\ frames' = <<>> /\ sq' = NoSquare /\ low' = Null
     /\ pending' = <<>> /\ UNCHANGED call

Begin(op, p) ==
  /\ pc = "idle" /\ Allocated(Root)
  /\ call' = [op |-> op, p |-> p, was |-> Contents]
  /\ pc' = IF op = "add" THEN "climb" ELSE "top"
  /\ UNCHANGED <<heap, cur, gap, frames, sq, low, pending, ans, lost>>

Return ==
  /\ pc = "return" /\ pc' = "idle"
  /\ call' = NoCall /\ ans' = FALSE
  /\ UNCHANGED <<heap, cur, gap, frames, sq, low, pending, lost>>

(* The loop up to the top level, which add uses to count the gap.          *)
GoUp ==
  /\ pc = "top" /\ heap[cur].up # Null
  /\ cur' = heap[cur].up
  /\ gap' = IF call.op = "add" THEN gap + 1 ELSE 0
  /\ UNCHANGED <<pc, frames, sq, low>> /\ Keeps
AtTop ==
  /\ pc = "top" /\ heap[cur].up = Null
  /\ pc' = IF call.op = "free" THEN "free" ELSE "enter"
  /\ UNCHANGED <<cur, gap, frames, sq, low>> /\ Keeps

-----------------------------------------------------------------------------
(* Quadtree_search_helper                                                  *)
DropsNowhere(child) ==  \* mutant: the search does not go down a level
  IF child # Null /\ child.square THEN child ELSE cur
SearchNext(child) ==
  IF child # Null /\ child.square THEN child ELSE heap[cur].down
SearchStep ==
  /\ At("search", "enter")
  /\ LET child == Slot(cur, call.p)
         found == child # Null /\ ~child.square
                    /\ Point_equals(child.center, call.p)
         next == SearchNext(child)
     IN IF ~in_range(cur, call.p) THEN Finish(FALSE)
        ELSE IF found THEN Finish(TRUE)
        ELSE IF next = Null THEN Finish(FALSE)
        ELSE Enter(next) /\ UNCHANGED <<gap, frames, sq, low>> /\ Keeps

-----------------------------------------------------------------------------
(* Quadtree_add: coin flips choose a level, and make the ones missing.     *)
Height(n) == n.copy  \* copies of the root are made upwards
Climb ==
  /\ At("add", "climb") /\ Height(cur) + 1 < MaxLevels
  /\ IF heap[cur].up # Null
     THEN cur' = heap[cur].up /\ UNCHANGED heap
     ELSE LET new == Fresh(Square(cur.center, cur.length))
          IN /\ heap' = Stack(Alloc(heap, new, Node_init), new, cur)
             /\ cur' = new
  /\ UNCHANGED <<call, pc, gap, frames, sq, low, pending, ans, lost>>
StopClimbing ==
  /\ At("add", "climb") /\ pc' = "top"
  /\ UNCHANGED <<cur, gap, frames, sq, low>> /\ Keeps

(* Quadtree_add_helper: range check, then the walk along one level.        *)
AddEnter ==
  /\ At("add", "enter")
  /\ IF ~in_range(cur, call.p) THEN Finish(FALSE)
     ELSE pc' = "walk" /\ UNCHANGED <<cur, gap, frames, sq, low>> /\ Keeps

Duplicate(child) ==
  /\ gap = 0 /\ child # Null /\ ~child.square
  /\ Point_equals(child.center, call.p)
Walk ==
  /\ At("add", "walk") /\ WalksOn(Slot(cur, call.p), call.p)
  /\ cur' = Slot(cur, call.p)
  /\ UNCHANGED <<pc, gap, frames, sq, low>> /\ Keeps

(* The end of the walk: fail, or call the helper for the level below.      *)
WalkEnds ==
  /\ At("add", "walk") /\ ~WalksOn(Slot(cur, call.p), call.p)
  /\ IF Duplicate(Slot(cur, call.p)) THEN Finish(FALSE)
     ELSE /\ frames' = <<[parent |-> cur, gap |-> gap]>> \o frames
          /\ IF heap[cur].down # Null
             THEN Enter(heap[cur].down) /\ gap' = NextGap(gap)
             ELSE pc' = "insert" /\ UNCHANGED <<cur, gap>>
          /\ UNCHANGED <<sq, low>> /\ Keeps

Frame == Head(frames)
Pop == frames' = Tail(frames)
NewPoint == Fresh(PointAt(call.p))

(* A level of the gap: the node from below is handed through.              *)
SkipLevel ==
  /\ At("add", "insert") /\ frames # <<>> /\ Frame.gap > 0
  /\ Pop /\ UNCHANGED <<pc, cur, gap, sq, low>> /\ Keeps

InsertInEmptySlot ==
  /\ At("add", "insert") /\ frames # <<>> /\ Frame.gap = 0
  /\ Slot(Frame.parent, call.p) = Null
  /\ heap' = WithPoint(heap, NewPoint, Frame.parent, low)
  /\ low' = NewPoint /\ Pop
  /\ UNCHANGED <<call, pc, cur, gap, sq, pending, ans, lost>>

(* A slot that is taken: a square for both, half the parent's first, and   *)
(* then halved while the two are in one quadrant of it.                    *)
Sibling == Slot(Frame.parent, call.p)
NewSquare == Fresh(sq)
Parts ==
  At("add", "split") /\ QuadrantIn(sq, Sibling) # get_quadrant(sq.center, call.p)
StartSquare ==
  /\ At("add", "insert") /\ frames # <<>> /\ Frame.gap = 0 /\ Sibling # Null
  /\ sq' = FirstSquare(Frame.parent, call.p) /\ pc' = "split"
  /\ UNCHANGED <<cur, gap, frames, low>> /\ Keeps
HalveSquare ==
  /\ At("add", "split") /\ ~Parts
  /\ sq' = FirstSquare(sq, call.p)
  /\ UNCHANGED <<pc, cur, gap, frames, low>> /\ Keeps

InsertSquare(down) ==
  /\ heap' = WithSquare(heap, NewPoint, low, Frame.parent, Sibling,
                         NewSquare, down)
  /\ low' = NewPoint /\ Pop /\ sq' = NoSquare /\ pc' = "insert"
  /\ UNCHANGED <<call, cur, gap, pending, ans, lost>>

SplitBottom ==
  /\ Parts /\ heap[Frame.parent].down = Null
  /\ InsertSquare(Null)
SplitUnlinked ==  \* mutant: a square above the lowest level has no down
  Parts /\ heap[Frame.parent].down # Null /\ InsertSquare(Null)
SplitUpper ==
  /\ Parts /\ heap[Frame.parent].down # Null
  /\ cur' = heap[Frame.parent].down /\ pc' = "find"
  /\ UNCHANGED <<gap, frames, sq, low>> /\ Keeps

(* A turn of the loop that looks for the copy of the square one level below. *)
FindDown ==
  /\ At("add", "find") /\ ~SameSquare(cur, sq)
  /\ cur' = Slot(cur, sq.center)
  /\ UNCHANGED <<pc, gap, frames, sq, low>> /\ Keeps
FoundDown ==
  /\ At("add", "find") /\ SameSquare(cur, sq)
  /\ InsertSquare(cur)

AddDone == At("add", "insert") /\ frames = <<>> /\ Finish(low # Null)

-----------------------------------------------------------------------------
(* Quadtree_remove_helper: a child square is entered only if p is in it.   *)
Locate ==
  /\ At("remove", "enter")
  /\ LET child == Slot(cur, call.p)
         into == WalksOn(child, call.p)
         found == ~into /\ child # Null /\ Point_equals(child.center, call.p)
         next == IF into THEN child ELSE heap[cur].down
     IN IF ~in_range(cur, call.p) THEN Finish(FALSE)
        ELSE IF found
        THEN /\ pending' = <<child>> /\ pc' = "unlink" /\ cur' = Root
             /\ UNCHANGED <<heap, call, gap, frames, sq, low, ans, lost>>
        ELSE IF next = Null THEN Finish(FALSE)
        ELSE Enter(next) /\ UNCHANGED <<gap, frames, sq, low>> /\ Keeps

(* Quadtree_remove_node.  A node stays if it is the root of the lowest     *)
(* level, a square with several children, or a root with one.              *)
Splices(n) == n.square /\ Count(heap, n) = 1
Stays(n) ==
  \/ heap[n].down = Null /\ heap[n].parent = Null
  \/ n.square /\ Count(heap, n) > 1
  \/ Splices(n) /\ heap[n].parent = Null

(* The parent's pointer to n: passed on to the only child, or cleared.     *)
LosesChild(n) ==  \* mutant: always cleared
  LET parent == heap[n].parent
      q == QuadrantIn(parent, n)
  IN IF parent # Null THEN SetSlot(heap, parent, q, Null) ELSE heap
Unlink(n) ==
  LET parent == heap[n].parent
      q == QuadrantIn(parent, n)
      child == CHOOSE c \in Children(heap, n) : TRUE
  IN IF Splices(n)
     THEN SetParent(SetSlot(heap, parent, q, child), child, parent)
     ELSE IF parent # Null /\ heap[parent].child[q] = n
     THEN SetSlot(heap, parent, q, Null)
     ELSE heap
LeavesUp(h, n) == Drop(SetDown(h, h[n].up, Null), n)  \* mutant
Node_free(h, n) == Drop(SetDown(SetUp(h, h[n].down, Null), h[n].up, Null), n)

(* The recursion: the parent if it is too thin now, then up, then down.    *)
Visit(n) == IF n = Null THEN <<>> ELSE <<n>>
NotDown(h, n) ==  \* mutant: the copies below are forgotten
  LET parent == heap[n].parent
  IN (IF ~Splices(n) /\ parent # Null /\ Thin(h, parent)
      THEN <<parent>> ELSE <<>>) \o Visit(heap[n].up)
NextNodes(h, n) ==
  LET parent == heap[n].parent
      again == ~Splices(n) /\ parent # Null /\ Thin(h, parent)
  IN (IF again THEN <<parent>> ELSE <<>>)
       \o Visit(heap[n].up) \o Visit(heap[n].down)

RemoveNode ==
  /\ At("remove", "unlink") /\ pending # <<>>
  /\ LET n == Head(pending)
         h == Node_free(Unlink(n), n)
     IN IF Stays(n) THEN heap' = heap /\ pending' = Tail(pending)
        ELSE heap' = h /\ pending' = NextNodes(h, n) \o Tail(pending)
  /\ UNCHANGED <<call, pc, cur, gap, frames, sq, low, ans, lost>>
(* The outermost call removed a point, so it has returned true.            *)
RemoveDone == At("remove", "unlink") /\ pending = <<>> /\ Finish(TRUE)

-----------------------------------------------------------------------------
(* Quadtree_free, one level after the other, children before their square. *)
(* A slot is cleared before its child is freed here and after it in the    *)
(* code; nothing looks at it in between.                                   *)
FreeLevel ==
  /\ At("free", "free") /\ pending = <<>> /\ cur # Null
  /\ pending' = <<cur>> /\ cur' = heap[cur].down
  /\ UNCHANGED <<heap, call, pc, gap, frames, sq, low, ans, lost>>
FreeNode ==
  /\ At("free", "free") /\ pending # <<>>
  /\ LET n == Head(pending)
         q == CHOOSE r \in SUBSET Dims : heap[n].child[r] # Null
     IN IF Children(heap, n) # {}
        THEN /\ heap' = SetSlot(heap, n, q, Null)
             /\ pending' = <<heap[n].child[q]>> \o pending
        ELSE heap' = Node_free(heap, n) /\ pending' = Tail(pending)
  /\ UNCHANGED <<call, pc, cur, gap, frames, sq, low, ans, lost>>
FreeDone == At("free", "free") /\ pending = <<>> /\ cur = Null /\ Finish(TRUE)

Step ==
  \/ Return \/ GoUp \/ AtTop
  \/ SearchStep
  \/ Climb \/ StopClimbing \/ AddEnter \/ Walk \/ WalkEnds
  \/ SkipLevel \/ InsertInEmptySlot
  \/ StartSquare \/ HalveSquare \/ SplitBottom \/ SplitUpper
  \/ FindDown \/ FoundDown \/ AddDone
  \/ Locate \/ RemoveNode \/ RemoveDone
  \/ FreeLevel \/ FreeNode \/ FreeDone
Freed == pc = "idle" /\ ~Allocated(Root) /\ UNCHANGED vars

Next ==
  \/ \E op \in {"add", "remove", "search", "free"}, p \in Points : Begin(op, p)
  \/ Step \/ Freed
Spec == Init /\ [][Next]_vars

(* The caller keeps running, and no coin shows heads for ever: MaxLevels.  *)
FairSpec == Spec /\ WF_vars(Step)

-----------------------------------------------------------------------------
Nodes == DOMAIN heap
Fields == [parent : Nodes \cup {Null}, up : Nodes \cup {Null},
           down : Nodes \cup {Null}, child : [SUBSET Dims -> Nodes \cup {Null}]]

(* Every pointer of the program leads to an allocated node: the fields of  *)
(* nodes, and the locals that live across the recursive calls and loops of *)
(* Quadtree_remove_node (parent, up and down, read before node is freed),  *)
(* of Quadtree_add_helper (down_square, which no test for NULL protects,   *)
(* parent and down_node) and of Quadtree_free (next_current).              *)
PointersAlive ==
  /\ \A n \in Nodes : heap[n] \in Fields
  /\ \/ pc \in {"idle", "return"} \/ cur \in Nodes
     \/ At("free", "free") /\ cur = Null
  /\ pc = "find" => cur.square
  /\ \A i \in DOMAIN pending : pending[i] \in Nodes
  /\ \A i \in DOMAIN frames : frames[i].parent \in Nodes
  /\ low \in Nodes \cup {Null}

(* Pointers come in pairs, a child and its parent, a copy and the copy     *)
(* below it, after every inserted level and between the recursive steps of *)
(* Quadtree_remove_node, which starts over from these pointers.            *)
Linked ==
  At("free", "free") \/ \A n \in Nodes :
    /\ \A c \in Children(heap, n) : heap[c].parent = n
    /\ heap[n].parent # Null => n \in Children(heap, heap[n].parent)
    /\ heap[n].up # Null => heap[heap[n].up].down = n
    /\ heap[n].down # Null => heap[heap[n].down].up = n

(* A level is part of the level below: between calls every node above the  *)
(* lowest level has a copy of the same kind, place and size below it, and  *)
(* the levels of a parent and its child are the same.  The loop that looks *)
(* for the down square relies on it.                                       *)
LevelsNested ==
  pc = "idle" => \A n \in Nodes :
    /\ heap[n].down # Null => Same(n, heap[n].down)
    /\ \A c \in Children(heap, n) :
         (heap[c].down = Null) = (heap[n].down = Null)

(* Between calls the tree is compressed: a child is in the quadrant its    *)
(* slot stands for, a square is no bigger than that quadrant, and a square *)
(* other than a root has at least two children ("Should never be all NULL  *)
(* unless node is a point", Quadtree.h:40, is true of these).              *)
Compressed ==
  pc = "idle" => \A n \in Nodes :
    /\ \A q \in SUBSET Dims : LET c == heap[n].child[q] IN c # Null =>
         /\ q = QuadrantIn(n, c)
         /\ in_range(n, c.center)
         /\ c.length <= n.length \div 2
    /\ n.square /\ heap[n].parent # Null => Count(heap, n) > 1

(* A call frees every node it cuts off, except for copies of the root      *)
(* without children: removing one on a middle level leaves the one above   *)
(* with neither parent nor down, against serial/Quadtree.c:249.            *)
OnlyLevelsLost == FALSE \notin lost

(* The tree is a set of points: add and remove change it as they answer,   *)
(* on the lowest level once and for all, whatever the levels above.        *)
Space == {p \in Points : in_range(Root, p)}
Phase == CASE pc = "idle" -> "idle" [] pc = "return" -> "answered"
           [] OTHER -> "busy"
ASet == INSTANCE PointSet WITH points <- Contents, phase <- Phase
IsASet == ASet!SetSpec

(* Every call comes to its end: the walks along a level and down, the loop *)
(* that looks for the down square and the recursion of a removal.          *)
CallsReturn == (pc # "idle") ~> (pc = "idle")

(* Quadtree.h:177 "Returns whether p is in the quadtree".                  *)
SearchFinds == At("search", "return") /\ ~ans => call.p \notin call.was

(* On a tree of one level it does: search goes into a square without asking *)
(* whether the point is in it (serial/Quadtree.c:96), and on one level that *)
(* is no loss.                                                              *)
SearchFindsOnOneLevel ==
  At("search", "return") /\ ~ans /\ Allocated(Root) /\ heap[Root].up = Null
    => call.p \notin call.was
=============================================================================
