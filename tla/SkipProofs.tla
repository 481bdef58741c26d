----------------------------- MODULE SkipProofs -----------------------------
(***************************************************************************)
(* What TLAPS proves of the serial tree (SkipQuadtree), part 2: the        *)
(* invariant of the calls, that it holds whatever the calls do, what it    *)
(* says of the tree, and that the tree is a set of points (PointSet).      *)
(***************************************************************************)
EXTENDS SkipTreeProofs

(* The invariant.  P is the point of the call as a node, Holds(h) what the *)
(* heap h has as a set of points.                                          *)
P == PointAt(call.p)
Holds(h) == {n.center : n \in {m \in DOMAIN h : ~m.square /\ h[m].down = Null}}
Copied(h, p) == \E x \in DOMAIN h : Same(x, p)

Calls == [op : {"add", "remove", "search", "free"}, p : Points, was : SUBSET Space]
CallOK ==
  /\ pc \in {"idle", "climb", "top", "enter", "walk", "insert", "split", "find",
             "unlink", "free", "return"}
  /\ IF pc = "idle" THEN call = NoCall ELSE call \in Calls
  /\ pc \in {"climb", "walk", "insert", "split", "find"} => call.op = "add"
  /\ pc = "enter" => call.op # "free"
  /\ pc = "unlink" => call.op = "remove"
  /\ pc = "free" => call.op = "free"
  /\ pc \notin {"idle", "free", "return"} => Root \in DOMAIN heap
  /\ lost \subseteq {TRUE}

(* A square other than a root has two children, except for one that a      *)
(* removal is about to take out.                                           *)
AllThick(h, but) ==
  \A n \in DOMAIN h : n.square /\ ~IsRoot(n) /\ n \notin but => Thick(h, n)
Leaves == IF pc = "unlink" /\ pending # <<>> THEN {Head(pending)} ELSE {}

(* A square of a level, which the walks stand on.                          *)
Stands(h, L, n) == n \in DOMAIN h /\ n.square /\ L[n] >= 0
Unused == frames = <<>> /\ low = Null /\ pending = <<>>

Idle == Unused /\ cur = Root /\ gap = 0
Answered ==
  /\ Idle
  /\ call.op = "search" => Contents = call.was
  /\ call.op = "search" /\ ~ans /\ Root \in DOMAIN heap /\ heap[Root].up = Null =>
       call.p \notin call.was
Rising(L) ==
  /\ Unused /\ Contents = call.was
  /\ Stands(heap, L, cur) /\ IsRoot(cur)
  /\ gap \in Nat /\ gap <= L[cur] /\ (pc = "climb" => gap = 0)

Searching(L) ==
  /\ Unused /\ Contents = call.was /\ Stands(heap, L, cur)
  /\ heap[Root].up = Null => L[cur] = 0 /\ (Copied(heap, P) => In(P, cur))
Locating(L) ==
  /\ Unused /\ Contents = call.was /\ Stands(heap, L, cur)
  /\ IsRoot(cur) \/ In(P, cur)
  /\ \A x \in DOMAIN heap : Same(x, P) => L[x] <= L[cur]

(* Where the walks of an insertion have ended, from level k on upwards: no *)
(* copy of p above a level of the gap.                                     *)
FrameOK(h, L, p, f) ==
  /\ f.gap \in Nat /\ Stands(h, L, f.parent) /\ In(p, f.parent)
  /\ LET c == Kid(h, f.parent, QuadrantIn(f.parent, p))
     IN c # Null => ~In(p, c) /\ (f.gap = 0 => ~Same(c, p))
FramesOK(h, L, p, fs, k) ==
  /\ fs \in Seq([parent : DOMAIN h, gap : Nat])
  /\ \A i \in 1..Len(fs) : FrameOK(h, L, p, fs[i]) /\ L[fs[i].parent] = k + i - 1
  /\ \A i, j \in 1..Len(fs) : i < j /\ fs[i].gap > 0 => fs[j].gap > 0

Descending(L) ==
  /\ low = Null /\ pending = <<>> /\ Contents = call.was
  /\ Stands(heap, L, cur) /\ gap \in Nat /\ gap <= L[cur]
  /\ FramesOK(heap, L, P, frames, L[cur] + 1)
  /\ \A i \in 1..Len(frames) : gap > 0 => frames[i].gap > 0
Entering(L) == Descending(L) /\ IF frames = <<>> THEN IsRoot(cur) ELSE In(P, cur)
Walking(L) == Descending(L) /\ In(P, cur)

(* The next frame is for level k, and has the copy of p below it.          *)
Inserting(L) ==
  /\ pending = <<>> /\ cur \in DOMAIN heap
  /\ \E k \in Nat :
       /\ FramesOK(heap, L, P, frames, k)
       /\ IF low = Null
          THEN frames # <<>> /\ Frame.gap = 0 /\ k = 0 /\ Contents = call.was
          ELSE /\ low \in DOMAIN heap /\ Same(low, P) /\ L[low] >= 0
               /\ call.p \notin call.was /\ Contents = call.was \cup {call.p}
               /\ frames # <<>> /\ Frame.gap = 0 => k = L[low] + 1
Splitting ==
  /\ frames # <<>> /\ Frame.gap = 0 /\ Sibling # Null
  /\ GridSquare(sq) /\ In(P, sq) /\ In(Sibling, sq) /\ In(sq, Frame.parent)
Finding(L) ==
  /\ QuadrantIn(sq, Sibling) # QuadrantIn(sq, P)
  /\ Stands(heap, L, cur) /\ L[Frame.parent] = L[cur] + 1
  /\ In(sq, cur) \/ Same(sq, cur)

(* The copy of p that a removal takes out next, on its highest level.  What *)
(* else is pending stays, but for the parent of the copy taken out last.   *)
Target(h, L, p, x) ==
  /\ x \in DOMAIN h /\ Same(x, p) /\ L[x] >= 0
  /\ \A y \in DOMAIN h : Same(y, p) => L[y] <= L[x]
StaysIn(h, n) ==
  \/ h[n].down = Null /\ h[n].parent = Null
  \/ n.square /\ Count(h, n) > 1
  \/ n.square /\ Count(h, n) = 1 /\ h[n].parent = Null
Leaving(h, L, p, todo) ==
  LET m == Head(todo) IN
  /\ L[m] >= 0
  /\ ~IsRoot(m) => /\ h[m].up = Null /\ ~Thick(h, m)
                   /\ \E q \in Quadrants : Kid(h, m, q) # Null
                   /\ h[m].down # Null => Thick(h, h[m].down)
  /\ IF Len(todo) = 1 THEN L[m] = 0
     ELSE Len(todo) = 2 /\ Target(h, L, p, todo[2]) /\ L[m] = L[todo[2]] + 1
PendingOK(h, L, p, todo) ==
  /\ todo \in Seq(DOMAIN h)
  /\ \A i \in 1..Len(todo) :
       IF todo[i].square THEN StaysIn(h, todo[i]) \/ (i = 1 /\ Leaving(h, L, p, todo))
       ELSE i = Len(todo) /\ Target(h, L, p, todo[i])
  /\ Copied(h, p) => todo # <<>> /\ Target(h, L, p, todo[Len(todo)])
Unlinking(L) ==
  /\ frames = <<>> /\ low = Null /\ cur = Root /\ call.p \in call.was
  /\ PendingOK(heap, L, P, pending)
  /\ Contents = IF Copied(heap, P) THEN call.was ELSE call.was \ {call.p}

Located(L) ==
  /\ AllThick(heap, Leaves)
  /\ pc = "idle" => Idle
  /\ pc = "return" => Answered
  /\ pc \in {"climb", "top"} => Rising(L)
  /\ At("search", "enter") => Searching(L)
  /\ At("remove", "enter") => Locating(L)
  /\ At("add", "enter") => Entering(L)
  /\ pc = "walk" => Walking(L)
  /\ pc \in {"insert", "split", "find"} => Inserting(L)
  /\ pc \in {"split", "find"} => Splitting
  /\ pc = "find" => Finding(L)
  /\ pc = "unlink" => Unlinking(L)

(* Quadtree_free: what is left of the tree, from level k on downwards.     *)
HangsOn(h, todo, n) ==
  h[n].parent # Null =>
    \/ Kid(h, h[n].parent, QuadrantIn(h[n].parent, n)) = n
    \/ \E i \in 1..(Len(todo) - 1) : todo[i] = n /\ todo[i + 1] = h[n].parent
Shrunk(h, L) ==
  /\ HeapOK(h) /\ KidsOK(h) /\ UpsOK(h) /\ DownsOK(h)
  /\ LevelsIn(h, L) /\ OneRoot(h, L)
  /\ Root \in DOMAIN h => L[Root] = 0
TodoOK(h, L, todo, k) ==
  /\ todo \in Seq(DOMAIN h)
  /\ \A n \in DOMAIN h :
       HangsOn(h, todo, n) /\ L[n] <= IF todo = <<>> THEN k - 1 ELSE k
  /\ \A i \in 1..Len(todo) : L[todo[i]] = k
  /\ \A i, j \in 1..Len(todo) : i < j => todo[i].length < todo[j].length
  /\ \A i \in 1..(Len(todo) - 1), x \in DOMAIN h, q \in Quadrants :
       Kid(h, x, q) # todo[i]
  /\ todo # <<>> => IsRoot(todo[Len(todo)])
Freeing(L) ==
  /\ frames = <<>> /\ low = Null
  /\ Shrunk(heap, L)
  /\ cur = Null \/ (Stands(heap, L, cur) /\ IsRoot(cur))
  /\ TodoOK(heap, L, pending, IF cur = Null THEN 0 ELSE L[cur] + 1)

Inv ==
  /\ CallOK
  /\ \E L : IF pc = "free" THEN Freeing(L) ELSE TreeOK(heap, L) /\ Located(L)
-----------------------------------------------------------------------------
(* Children and their number.                                              *)
LEMMA CountFacts ==
  ASSUME NEW h, HeapOK(h), KidsOK(h), NEW n \in DOMAIN h
  PROVE  /\ Count(h, n) > 1 <=> Thick(h, n)
         /\ Thin(h, n) <=> ~Thick(h, n)
         /\ Children(h, n) = {} <=> \A q \in Quadrants : Kid(h, n, q) = Null
         /\ Count(h, n) = 0 <=> Children(h, n) = {}
         /\ Count(h, n) = 1 <=> ~Thick(h, n) /\ Children(h, n) # {}
         /\ ~Thick(h, n) => \A c, d \in Children(h, n) : c = d
<1> DEFINE C == Children(h, n)
<1>1. C = {c \in DOMAIN h : \E q \in Quadrants : Kid(h, n, q) = c}
  BY HeapTypes DEF Children, Kid, Quadrants
<1>2. IsFiniteSet(C) BY <1>1, HeapTypes, FS_Subset
<1>3. Count(h, n) \in Nat /\ (Count(h, n) = 0 <=> C = {})
      /\ (Count(h, n) = 1 <=> \E c : C = {c})
  BY <1>2, FS_CardinalityType, FS_EmptySet, FS_Singleton DEF Count
<1>4. Thick(h, n) <=> \E c, d \in C : c # d
  <2>1. ASSUME NEW c \in C, NEW d \in C, c # d PROVE Thick(h, n)
    <3>1. PICK q \in Quadrants, r \in Quadrants : Kid(h, n, q) = c /\ Kid(h, n, r) = d
      BY <1>1
    <3>2. q # r /\ c # Null /\ d # Null BY <2>1, <3>1, <1>1, HeapTypes
    <3> QED BY <3>1, <3>2 DEF Thick
  <2>2. ASSUME Thick(h, n) PROVE \E c, d \in C : c # d
    <3>1. PICK q \in Quadrants, r \in Quadrants :
            q # r /\ Kid(h, n, q) # Null /\ Kid(h, n, r) # Null
      BY <2>2 DEF Thick
    <3>2. Kid(h, n, q) \in C /\ Kid(h, n, r) \in C BY <3>1, <1>1, HeapTypes
    <3>3. q = QuadrantIn(n, Kid(h, n, q)) /\ r = QuadrantIn(n, Kid(h, n, r))
      BY <3>1 DEF KidsOK
    <3>4. Kid(h, n, q) # Kid(h, n, r) BY <3>1, <3>3
    <3> QED BY <3>2, <3>4
  <2> QED BY <2>1, <2>2
<1>5. C = {} <=> \A q \in Quadrants : Kid(h, n, q) = Null BY <1>1, HeapTypes
<1>6. (\E c : C = {c}) <=> C # {} /\ ~(\E c, d \in C : c # d)
  <2> HIDE DEF C
  <2> QED OBVIOUS
<1>7. Count(h, n) = Cardinality(C) BY DEF Count
<1>8. Thin(h, n) <=> Count(h, n) < 2 BY DEF Thin
<1> HIDE DEF C
<1>9. (Count(h, n) > 1 <=> Thick(h, n)) /\ (Count(h, n) < 2 <=> ~Thick(h, n))
  BY <1>3, <1>4, <1>6
<1>10. Count(h, n) = 1 <=> ~Thick(h, n) /\ C # {} BY <1>3, <1>4, <1>6
<1>11. ~Thick(h, n) => \A c, d \in C : c = d BY <1>4
<1> QED BY <1>3, <1>5, <1>8, <1>9, <1>10, <1>11 DEF C

(* The points of a tree.                                                   *)
LEMMA PointsHeld ==
  ASSUME NEW h, NEW L, TreeOK(h, L)
  PROVE  /\ \A x \in DOMAIN h : ~x.square => L[x] >= 0
         /\ \A p \in Points : p \in Holds(h) <=> Copied(h, PointAt(p))
         /\ Holds(h) \subseteq Space
<1>1. \A x \in DOMAIN h : IsNode(x) /\ L[x] \in Int /\ L[x] >= -1
  BY HeapTypes DEF TreeOK, LevelsOK, LevelsIn
<1>2. ASSUME NEW x \in DOMAIN h, ~x.square PROVE L[x] >= 0
  <2>1. ~IsRoot(x) BY <1>2, RootFacts
  <2> QED BY <1>1, <2>1 DEF TreeOK, LevelsOK, LevelsIn
<1>3. \A x \in DOMAIN h : ~x.square => (h[x].down = Null <=> L[x] = 0)
  BY <1>2 DEF TreeOK, LevelsOK, LevelsIn
<1>4. ASSUME NEW p \in Points, NEW x \in DOMAIN h, Same(x, PointAt(p))
      PROVE  p \in Holds(h)
  <2>1. x.square = FALSE /\ x.center = p BY <1>4, PointPlace DEF Same
  <2>2. PICK y \in DOMAIN h : Same(y, x) /\ L[y] = 0
    <3>1. L[x] >= 0 /\ 0 \in Nat BY <1>2, <2>1
    <3> QED BY <3>1, CopyBelow
  <2>3. y.square = FALSE /\ y.center = p BY <2>1, <2>2 DEF Same
  <2> QED BY <1>3, <2>2, <2>3 DEF Holds
<1>5. ASSUME NEW p \in Holds(h)
      PROVE  p \in Space /\ Copied(h, PointAt(p))
  <2>1. PICK x \in DOMAIN h : ~x.square /\ p = x.center BY DEF Holds
  <2>2. p \in Points /\ x.length = 0 /\ x.square = FALSE
    BY <1>1, <2>1, NodeFacts
  <2>3. Same(x, PointAt(p)) BY <2>1, <2>2 DEF Same, PointAt
  <2>4. PICK r \in DOMAIN h : IsRoot(r) /\ (x = r \/ In(x, r))
    BY <1>2, <2>1, RootOfLevel
  <2>5. In(x, r) BY <2>2, <2>4, RootFacts
  <2>6. r.center = Root.center /\ r.length = Root.length BY <2>4 DEF IsRoot, Same
  <2>7. in_range(Root, p) BY <2>1, <2>5, <2>6 DEF In, in_range
  <2> QED BY <2>2, <2>3, <2>7 DEF Space, Copied
<1> QED BY <1>2, <1>4, <1>5 DEF Copied

(* The end of a call.                                                      *)
Ends(b) ==
  /\ \E M : TreeOK(heap', M)
  /\ AllThick(heap', {}) /\ Contents' = Contents /\ lost' \subseteq lost \cup {TRUE}
  /\ Idle' /\ pc' = "return" /\ ans' = b /\ call' = call
  /\ Root \in DOMAIN heap' => Root \in DOMAIN heap /\ heap'[Root] = heap[Root]
LEMMA FinishEnds ==
  ASSUME NEW L, TreeOK(heap, L), AllThick(heap, {}), NEW b, Finish(b)
  PROVE  Ends(b)
<1>1. PICK live : /\ live = DOMAIN heap \/ Closed(heap, live)
                  /\ heap' = [n \in live |-> heap[n]]
                  /\ lost' = lost \cup {EmptyLevel(heap, n) : n \in DOMAIN heap \ live}
  BY DEF Finish
<1>2. Closed(heap, live) /\ live \subseteq DOMAIN heap
  BY <1>1, AllClosed DEF TreeOK, Closed
<1>3. heap' = Only(heap, live) /\ DOMAIN heap' = live BY <1>1 DEF Only
<1>4. \A n \in live : heap'[n] = heap[n] BY <1>1
<1>5. TreeOK(heap', Only(L, live)) BY <1>2, <1>3, KeepLive
<1>6. AllThick(heap', {}) BY <1>2, <1>3, <1>4 DEF AllThick, Thick, Kid
<1>7. ASSUME NEW n \in DOMAIN heap, n \notin live
      PROVE  EmptyLevel(heap, n) /\ n.square
  <2>1. L[n] = -1
    <3>1. ~(L[n] >= 0) BY <1>2, <1>7, LiveNodes
    <3> QED BY <3>1 DEF TreeOK, LevelsOK, LevelsIn
  <2>2. /\ IsRoot(n) /\ heap[n].parent = Null
        /\ \A q \in Quadrants : Kid(heap, n, q) = Null
    BY <2>1 DEF TreeOK, LevelsOK, LevelsIn
  <2>3. Children(heap, n) = {} /\ n.square = TRUE
    BY <2>2, CountFacts, RootFacts DEF TreeOK, LinksOK
  <2> QED BY <2>2, <2>3 DEF EmptyLevel
<1>8. lost' \subseteq lost \cup {TRUE} BY <1>1, <1>7
<1>9. Contents' = Contents BY <1>2, <1>3, <1>4, <1>7 DEF Contents
<1>10. Idle' /\ pc' = "return" /\ ans' = b /\ call' = call BY DEF Finish, Idle, Unused
<1> QED BY <1>2, <1>3, <1>4, <1>5, <1>6, <1>8, <1>9, <1>10 DEF Ends
-----------------------------------------------------------------------------
(* A step of the abstract set of points, or none.                          *)
Sim == [ASet!SetNext]_(ASet!setVars)
Quiet == Contents' = Contents /\ call' = call /\ ans' = ans /\ Phase' = Phase

LEMMA QuietStep ==
  ASSUME Quiet
  PROVE  Sim
BY DEF Quiet, Sim, ASet!setVars

LEMMA ChangeStep ==
  ASSUME pc \notin {"idle", "return"}, pc' \notin {"idle", "return"},
         call' = call, ans' = ans, Contents' = ASet!After(call)
  PROVE  Sim
BY DEF Sim, ASet!SetNext, ASet!Change, Phase

(* The end of a call, with the answer that PointSet allows.                *)
LEMMA Finishing ==
  ASSUME CallOK, pc \notin {"idle", "return"}, NEW L, TreeOK(heap, L),
         AllThick(heap, {}), NEW b, Finish(b), Contents = ASet!After(call),
         ASet!MayAnswer(call, b),
         call.op = "search" /\ ~b /\ Root \in DOMAIN heap /\ heap[Root].up = Null
           => call.p \notin call.was
  PROVE  Inv' /\ Sim
<1>1. Ends(b) BY FinishEnds
<1>2. PICK M : TreeOK(heap', M) BY <1>1 DEF Ends
<1>3. /\ pc' = "return" /\ ans' = b /\ call' = call /\ Contents' = Contents
      /\ Idle' /\ AllThick(heap', {}) /\ lost' \subseteq lost \cup {TRUE}
  BY <1>1 DEF Ends
<1>4. CallOK'
  <2>1. call \in Calls /\ lost \subseteq {TRUE} BY DEF CallOK
  <2> QED BY <1>3, <2>1 DEF CallOK
<1>5. Answered'
  <2>1. call.op = "search" => Contents = call.was BY DEF ASet!After
  <2>2. Root \in DOMAIN heap' => Root \in DOMAIN heap /\ heap'[Root] = heap[Root]
    BY <1>1 DEF Ends
  <2> QED BY <1>3, <2>1, <2>2 DEF Answered
<1>6. Leaves' = {} BY <1>3 DEF Leaves
<1>7. Located(M)' BY <1>3, <1>5, <1>6 DEF Located, At
<1>8. Inv' BY <1>2, <1>3, <1>4, <1>7 DEF Inv
<1>9. Sim
  <2>1. Phase = "busy" /\ Phase' = "answered" BY <1>3 DEF Phase, CallOK
  <2> QED BY <1>3, <2>1 DEF Sim, ASet!SetNext, ASet!Answer
<1> QED BY <1>8, <1>9

(* The invariant after a step that does not end the call or free the tree. *)
LEMMA Goes ==
  ASSUME CallOK', NEW L, TreeOK(heap', L), AllThick(heap', {}),
         pc' \notin {"idle", "return", "unlink", "free"},
         pc' \in {"climb", "top"} => Rising(L)',
         call'.op = "search" /\ pc' = "enter" => Searching(L)',
         call'.op = "remove" /\ pc' = "enter" => Locating(L)',
         call'.op = "add" /\ pc' = "enter" => Entering(L)',
         pc' = "walk" => Walking(L)',
         pc' \in {"insert", "split", "find"} => Inserting(L)',
         pc' \in {"split", "find"} => Splitting',
         pc' = "find" => Finding(L)'
  PROVE  Inv'
<1>1. Leaves' = {} BY DEF Leaves
<1>2. Located(L)' BY <1>1 DEF Located, At
<1> QED BY <1>2 DEF Inv

LEMMA Begins == Init => Inv
<1> SUFFICES ASSUME Init PROVE Inv OBVIOUS
<1> DEFINE h == [n \in {Root} |-> Node_init]
           L == [n \in {Root} |-> 0]
<1>1. heap = h /\ DOMAIN h = {Root} /\ h[Root] = Node_init BY DEF Init
<1>2. IsNode(Root) /\ IsRoot(Root)
  BY RootPlace, SameIsEquivalence DEF IsNode, IsRoot, Root, Node, Square, Place
<1>3. HeapOK(h)
  <2>1. Node_init \in FieldsIn({Root}) BY DEF Node_init, NoChildren, FieldsIn, Quadrants
  <2>2. IsFiniteSet({Root}) BY FS_Singleton
  <2> QED BY <1>2, <2>1, <2>2 DEF HeapOK
<1>4. /\ Node_init.parent = Null /\ Node_init.up = Null /\ Node_init.down = Null
      /\ \A q \in Quadrants : Kid(h, Root, q) = Null
  BY DEF Node_init, NoChildren, Quadrants, Kid
<1>5. LinksOK(h) BY <1>1, <1>4 DEF LinksOK, KidsOK, ParentsOK, UpsOK, DownsOK
<1>6. LevelsOK(h, L) BY <1>1, <1>2, <1>4 DEF LevelsOK, LevelsIn
<1>7. OneRoot(h, L) BY <1>1 DEF OneRoot
<1>8. \A m, n \in DOMAIN h : ~In(n, m) BY <1>1, <1>2, RootInNothing
<1>9. LeastOK(h, L) BY <1>8 DEF LeastOK
<1>10. PartedOK(h, L)
  BY <1>1 DEF PartedOK, Parted
<1>11. TreeOK(h, L) BY <1>3, <1>5, <1>6, <1>7, <1>9, <1>10 DEF TreeOK
<1>12. AllThick(h, {}) BY <1>1, <1>2 DEF AllThick
<1>13. CallOK /\ pc = "idle" /\ Idle BY DEF Init, CallOK, Idle, Unused
<1>14. Located(L) BY <1>1, <1>12, <1>13 DEF Located, Leaves, At
<1> QED BY <1>1, <1>11, <1>13, <1>14 DEF Inv
-----------------------------------------------------------------------------
(* The caller, and the way up.                                             *)
LEMMA BeginStep ==
  ASSUME Inv, NEW op \in {"add", "remove", "search", "free"}, NEW p \in Points,
         Begin(op, p)
  PROVE  Inv' /\ Sim
<1>1. /\ pc = "idle" /\ Root \in DOMAIN heap /\ call' = [op |-> op, p |-> p, was |-> Contents]
      /\ pc' = (IF op = "add" THEN "climb" ELSE "top")
      /\ heap' = heap /\ cur' = cur /\ gap' = gap /\ frames' = frames /\ low' = low
      /\ pending' = pending /\ ans' = ans /\ lost' = lost
  BY DEF Begin, Allocated
<1>2. CallOK /\ pc # "free" BY <1>1 DEF Inv
<1>3. PICK L : TreeOK(heap, L) /\ Located(L) BY <1>2 DEF Inv
<1>4. Idle /\ AllThick(heap, {}) BY <1>1, <1>3 DEF Located, Leaves
<1>5. Contents \subseteq Space /\ Contents' = Contents
  BY <1>1, <1>3, PointsHeld DEF Contents, Holds
<1>6. call' \in Calls /\ call'.was = Contents /\ call'.op = op /\ call'.p = p
  BY <1>1, <1>5 DEF Calls
<1>7. CallOK' BY <1>1, <1>2, <1>6 DEF CallOK
<1>8. IsRoot(Root) /\ L[Root] = 0 /\ Root.square = TRUE
  BY <1>1, <1>3, SameIsEquivalence, RootFacts DEF TreeOK, LevelsOK, LevelsIn, IsRoot
<1>9. Rising(L)'
  BY <1>1, <1>4, <1>5, <1>6, <1>8 DEF Rising, Idle, Unused, Stands
<1>10. Inv' BY <1>1, <1>3, <1>4, <1>7, <1>9, Goes
<1>11. Sim
  <2>1. call' \in ASet!Calls BY <1>6 DEF Calls, ASet!Calls, ASet!Ops
  <2>2. Phase = "idle" /\ Phase' = "busy" BY <1>1 DEF Phase
  <2> QED BY <1>1, <1>5, <1>6, <2>1, <2>2 DEF Sim, ASet!SetNext, ASet!Begin
<1> QED BY <1>10, <1>11

LEMMA ReturnStep ==
  ASSUME Inv, Return
  PROVE  Inv' /\ Sim
<1>1. /\ pc = "return" /\ pc' = "idle" /\ call' = NoCall
      /\ heap' = heap /\ cur' = cur /\ gap' = gap /\ frames' = frames /\ low' = low
      /\ pending' = pending /\ lost' = lost
  BY DEF Return
<1>2. CallOK /\ pc # "free" BY <1>1 DEF Inv
<1>3. PICK L : TreeOK(heap, L) /\ Located(L) BY <1>2 DEF Inv
<1>4. Idle /\ AllThick(heap, {}) BY <1>1, <1>3 DEF Located, Leaves, Answered
<1>5. CallOK' BY <1>1, <1>2 DEF CallOK
<1>6. Idle' /\ Leaves' = {} BY <1>1, <1>4 DEF Idle, Unused, Leaves
<1>7. Located(L)' BY <1>1, <1>4, <1>6 DEF Located, At
<1>8. Inv' BY <1>1, <1>3, <1>5, <1>7 DEF Inv
<1>9. Contents' = Contents BY <1>1 DEF Contents
<1>10. Sim BY <1>1, <1>9 DEF Sim, ASet!SetNext, ASet!Return, Phase
<1> QED BY <1>8, <1>10

LEMMA GoUpStep ==
  ASSUME Inv, GoUp
  PROVE  Inv' /\ Sim
<1>1. /\ pc = "top" /\ pc' = pc /\ heap[cur].up # Null /\ cur' = heap[cur].up
      /\ gap' = (IF call.op = "add" THEN gap + 1 ELSE 0)
      /\ heap' = heap /\ frames' = frames /\ low' = low /\ call' = call
      /\ pending' = pending /\ lost' = lost /\ ans' = ans
  BY DEF GoUp, Keeps
<1>2. CallOK /\ pc # "free" BY <1>1 DEF Inv
<1>3. PICK L : TreeOK(heap, L) /\ Located(L) BY <1>2 DEF Inv
<1>4. Rising(L) /\ AllThick(heap, {}) BY <1>1, <1>3 DEF Located, Leaves
<1>5. Stands(heap, L, cur) /\ IsRoot(cur) /\ gap \in Nat /\ gap <= L[cur]
  BY <1>4 DEF Rising
<1> DEFINE u == heap[cur].up
<1>6. u \in DOMAIN heap /\ heap[u].down = cur /\ cur \in DOMAIN heap /\ cur # Null
  BY <1>1, <1>3, <1>5, HeapTypes DEF TreeOK, LinksOK, UpsOK, Stands
<1>7. Same(u, cur) /\ L[cur] \in Int /\ L[u] = L[cur] + 1
  BY <1>3, <1>5, <1>6 DEF TreeOK, LinksOK, DownsOK, LevelsOK, LevelsIn, Stands
<1>8. IsRoot(u) /\ u.square = TRUE BY <1>5, <1>7, SameIsEquivalence, RootFacts DEF IsRoot
<1>9. CallOK' BY <1>1, <1>2 DEF CallOK
<1>10. Contents' = Contents BY <1>1 DEF Contents
<1>11. Stands(heap, L, u) BY <1>5, <1>6, <1>7, <1>8 DEF Stands
<1>12. Rising(L)'
  BY <1>1, <1>4, <1>5, <1>7, <1>8, <1>10, <1>11 DEF Rising, Unused
<1>13. Inv' BY <1>1, <1>3, <1>4, <1>9, <1>12, Goes
<1> QED BY <1>1, <1>10, <1>13, QuietStep DEF Quiet, Phase

LEMMA AtTopStep ==
  ASSUME Inv, AtTop
  PROVE  Inv' /\ Sim
<1>1. /\ pc = "top" /\ heap[cur].up = Null /\ cur' = cur /\ gap' = gap
      /\ pc' = (IF call.op = "free" THEN "free" ELSE "enter")
      /\ heap' = heap /\ frames' = frames /\ low' = low /\ call' = call
      /\ pending' = pending /\ lost' = lost /\ ans' = ans
  BY DEF AtTop, Keeps
<1>2. CallOK /\ pc # "free" BY <1>1 DEF Inv
<1>3. PICK L : TreeOK(heap, L) /\ Located(L) BY <1>2 DEF Inv
<1>4. Rising(L) /\ AllThick(heap, {}) BY <1>1, <1>3 DEF Located, Leaves
<1>5. Stands(heap, L, cur) /\ IsRoot(cur) /\ gap \in Nat /\ gap <= L[cur]
  BY <1>4 DEF Rising
<1>6. CallOK' BY <1>1, <1>2 DEF CallOK
<1>7. Contents' = Contents BY <1>1 DEF Contents
<1>8. \A n \in DOMAIN heap : L[n] <= L[cur]
  BY <1>1, <1>3, <1>5, NothingAbove DEF Stands
<1>9. \A n \in DOMAIN heap : L[n] \in Int /\ L[n] >= -1
  BY <1>3 DEF TreeOK, LevelsOK, LevelsIn
<1>10. Sim BY <1>1, <1>7, QuietStep DEF Quiet, Phase
<1>11. CASE call.op = "free"
  <2>1. Shrunk(heap, L)
    BY <1>3, <1>2, <1>1 DEF Shrunk, TreeOK, LinksOK, LevelsOK, CallOK
  <2>2. cur # Null BY <1>3, <1>5, HeapTypes DEF TreeOK, Stands
  <2>3. TodoOK(heap, L, <<>>, L[cur] + 1)
    <3>1. \A n \in DOMAIN heap : HangsOn(heap, <<>>, n)
      BY <1>3 DEF HangsOn, TreeOK, LinksOK, ParentsOK
    <3>2. <<>> \in Seq(DOMAIN heap) /\ Len(<<>>) = 0 OBVIOUS
    <3>3. L[cur] \in Int BY <1>5, <1>9 DEF Stands
    <3>4. \A n \in DOMAIN heap : L[n] <= (L[cur] + 1) - 1 BY <1>8, <1>9, <3>3
    <3> QED BY <3>1, <3>2, <3>4 DEF TodoOK
  <2>4. frames = <<>> /\ low = Null /\ pending = <<>> BY <1>4 DEF Rising, Unused
  <2>5. Freeing(L) BY <1>5, <2>1, <2>2, <2>3, <2>4 DEF Freeing
  <2>6. Freeing(L)' BY <1>1, <2>5 DEF Freeing
  <2>7. Inv' BY <1>1, <1>6, <1>11, <2>6 DEF Inv
  <2> QED BY <1>10, <2>7
<1>12. CASE call.op = "search"
  <2>1. heap[Root].up = Null => L[cur] = 0 /\ (Copied(heap, P) => In(P, cur))
    <3> SUFFICES ASSUME heap[Root].up = Null
                 PROVE  L[cur] = 0 /\ (Copied(heap, P) => In(P, cur))
      OBVIOUS
    <3>1. Root \in DOMAIN heap /\ IsRoot(Root) /\ L[Root] = 0
      BY <1>1, <1>2, <1>3, SameIsEquivalence
      DEF CallOK, TreeOK, LevelsOK, LevelsIn, IsRoot
    <3>2. L[cur] = 0 BY <1>3, <1>5, <1>9, <3>1, NothingAbove DEF Stands
    <3>3. Copied(heap, P) => in_range(Root, call.p)
      BY <1>2, <1>3, PointsHeld, <1>1 DEF P, CallOK, Calls, Space
    <3>4. Copied(heap, P) => In(P, cur)
      BY <1>5, <3>3, RootFacts, Units
      DEF In, P, PointAt, IsRoot, Same, in_range, Root, Node, Square
    <3> QED BY <3>2, <3>4
  <2>2. Searching(L) BY <1>4, <1>5, <2>1 DEF Rising, Searching
  <2>3. Searching(L)' BY <1>1, <1>7, <2>2 DEF Searching, Unused, P
  <2>4. Inv' BY <1>1, <1>3, <1>4, <1>6, <1>12, <2>3, Goes
  <2> QED BY <1>10, <2>4
<1>13. CASE call.op = "remove"
  <2>1. Locating(L) BY <1>4, <1>5, <1>8 DEF Rising, Locating
  <2>2. Locating(L)' BY <1>1, <1>7, <2>1 DEF Locating, Unused, P
  <2>3. Inv' BY <1>1, <1>3, <1>4, <1>6, <1>13, <2>2, Goes
  <2> QED BY <1>10, <2>3
<1>14. CASE call.op = "add"
  <2>1. frames = <<>> /\ Len(frames) = 0 /\ low = Null /\ pending = <<>>
    BY <1>4 DEF Rising, Unused
  <2>2. FramesOK(heap, L, P, frames, L[cur] + 1)
    BY <2>1 DEF FramesOK
  <2>3. Entering(L) BY <1>4, <1>5, <2>1, <2>2 DEF Entering, Descending, Rising
  <2>4. Entering(L)' BY <1>1, <1>7, <2>3 DEF Entering, Descending, P
  <2>5. Inv' BY <1>1, <1>3, <1>4, <1>6, <1>14, <2>4, Goes
  <2> QED BY <1>10, <2>5
<1> QED BY <1>1, <1>2, <1>11, <1>12, <1>13, <1>14 DEF CallOK, Calls

LEMMA ClimbStep ==
  ASSUME Inv, Climb
  PROVE  Inv' /\ Sim
<1>1. /\ pc = "climb" /\ pc' = pc /\ call.op = "add"
      /\ gap' = gap /\ frames' = frames /\ low' = low /\ call' = call
      /\ pending' = pending /\ lost' = lost /\ ans' = ans
  BY DEF Climb, At
<1>2. CallOK /\ pc # "free" BY <1>1 DEF Inv
<1>3. PICK L : TreeOK(heap, L) /\ Located(L) BY <1>2 DEF Inv
<1>4. Rising(L) /\ AllThick(heap, {}) BY <1>1, <1>3 DEF Located, Leaves
<1>5. Stands(heap, L, cur) /\ IsRoot(cur) /\ gap = 0 BY <1>1, <1>4 DEF Rising
<1>6. CASE heap[cur].up # Null
  <2>1. heap' = heap /\ cur' = heap[cur].up BY <1>6 DEF Climb
  <2> DEFINE u == heap[cur].up
  <2>2. u \in DOMAIN heap /\ heap[u].down = cur /\ cur \in DOMAIN heap /\ cur # Null
    BY <1>6, <1>3, <1>5, HeapTypes DEF TreeOK, LinksOK, UpsOK, Stands
  <2>3. Same(u, cur) /\ L[cur] \in Int /\ L[u] = L[cur] + 1
    BY <1>3, <1>5, <2>2 DEF TreeOK, LinksOK, DownsOK, LevelsOK, LevelsIn, Stands
  <2>4. IsRoot(u) /\ u.square = TRUE
    BY <1>5, <2>3, SameIsEquivalence, RootFacts DEF IsRoot
  <2>5. CallOK' BY <1>1, <1>2, <2>1 DEF CallOK
  <2>6. Contents' = Contents BY <2>1 DEF Contents
  <2>7. Stands(heap, L, u) /\ gap <= L[u] BY <1>5, <2>2, <2>3, <2>4 DEF Stands
  <2>8. Rising(L)' BY <1>1, <1>4, <1>5, <2>1, <2>4, <2>6, <2>7 DEF Rising, Unused
  <2>9. Inv' BY <1>1, <1>3, <1>4, <2>1, <2>5, <2>8, Goes
  <2> QED BY <1>1, <2>6, <2>9, QuietStep DEF Quiet, Phase
<1>7. CASE heap[cur].up = Null
  <2>1. PICK new : /\ new = FreshIn(DOMAIN heap, Square(cur.center, cur.length))
                   /\ cur' = new
                   /\ heap' = Stack(Alloc(heap, new, Node_init), new, cur)
    BY <1>7 DEF Climb, Fresh
  <2>2. PICK M :
        /\ TreeOK(heap', M) /\ IsRoot(new) /\ new \notin DOMAIN heap
        /\ DOMAIN heap' = DOMAIN heap \cup {new} /\ heap'[new].down # Null
        /\ \A x \in DOMAIN heap : heap'[x].down = heap[x].down /\ M[x] = L[x]
        /\ M[new] = L[cur] + 1
    BY <1>3, <1>5, <1>7, <2>1, NewRoot DEF Stands
  <2>3. new.square = TRUE BY <2>2, RootFacts
  <2>4. Contents' = Contents
    <3>1. \A x \in DOMAIN heap' : ~x.square /\ heap'[x].down = Null
                                    <=> x \in DOMAIN heap /\ ~x.square /\ heap[x].down = Null
      BY <2>2, <2>3
    <3>2. {m \in DOMAIN heap' : ~m.square /\ heap'[m].down = Null}
            = {m \in DOMAIN heap : ~m.square /\ heap[m].down = Null}
      BY <2>2, <3>1
    <3> QED BY <3>2 DEF Contents
  <2>5. CallOK' BY <1>1, <1>2, <2>2 DEF CallOK
  <2>6. L[cur] \in Int BY <1>3, <1>5 DEF Stands, TreeOK, LevelsOK, LevelsIn
  <2>7. Stands(heap', M, new) /\ gap <= M[new] BY <1>5, <2>2, <2>3, <2>6 DEF Stands
  <2>8. Rising(M)' BY <1>1, <1>4, <1>5, <2>1, <2>2, <2>4, <2>7 DEF Rising, Unused
  <2>9. AllThick(heap', {})
    <3>1. \A x \in DOMAIN heap, q \in Quadrants : Kid(heap', x, q) = Kid(heap, x, q)
      <4> DEFINE S == DOMAIN heap \cup {new}
      <4>1. /\ new \in S /\ new \notin DOMAIN heap /\ cur \in DOMAIN heap \cup {Null}
            /\ DOMAIN heap \subseteq S /\ Null \notin S
        BY <1>3, <1>5, <2>2, HeapTypes DEF Stands, TreeOK
      <4>2. Typed(heap, S) BY <1>3, <4>1 DEF TreeOK, HeapOK, Typed, FieldsIn
      <4>3. Node_init \in FieldsIn(S) BY DEF Node_init, NoChildren, FieldsIn, Quadrants
      <4> HIDE DEF S
      <4>4. Stacked(heap, heap', S, new, cur, Node_init)
        BY <2>1, <4>1, <4>2, <4>3, AllocStackIs
      <4> QED BY <4>4 DEF Stacked
    <3> QED BY <1>4, <2>2, <3>1 DEF AllThick, Thick
  <2>10. Inv' BY <1>1, <2>2, <2>5, <2>8, <2>9, Goes
  <2> QED BY <1>1, <2>4, <2>10, QuietStep DEF Quiet, Phase
<1> QED BY <1>6, <1>7

LEMMA StopClimbingStep ==
  ASSUME Inv, StopClimbing
  PROVE  Inv' /\ Sim
<1>1. /\ pc = "climb" /\ pc' = "top" /\ cur' = cur /\ gap' = gap
      /\ heap' = heap /\ frames' = frames /\ low' = low /\ call' = call
      /\ pending' = pending /\ lost' = lost /\ ans' = ans
  BY DEF StopClimbing, Keeps, At
<1>2. CallOK /\ pc # "free" BY <1>1 DEF Inv
<1>3. PICK L : TreeOK(heap, L) /\ Located(L) BY <1>2 DEF Inv
<1>4. Rising(L) /\ AllThick(heap, {}) BY <1>1, <1>3 DEF Located, Leaves
<1>5. CallOK' BY <1>1, <1>2 DEF CallOK
<1>6. Contents' = Contents BY <1>1 DEF Contents
<1>7. Rising(L)' BY <1>1, <1>4, <1>6 DEF Rising, Unused
<1>8. Inv' BY <1>1, <1>3, <1>4, <1>5, <1>7, Goes
<1> QED BY <1>1, <1>6, <1>8, QuietStep DEF Quiet, Phase
-----------------------------------------------------------------------------
(* What the walks find: a child, a copy below, the point itself.           *)
LEMMA ChildFacts ==
  ASSUME NEW h, NEW L, TreeOK(h, L), NEW m \in DOMAIN h, NEW q \in Quadrants,
         Kid(h, m, q) # Null
  PROVE  LET c == Kid(h, m, q)
         IN /\ c \in DOMAIN h /\ L[c] = L[m] /\ In(c, m) /\ q = QuadrantIn(m, c)
            /\ h[c].parent = m /\ IsNode(c) /\ m.square
            /\ c.square /\ L[m] >= 0 => Stands(h, L, c)
<1> DEFINE c == Kid(h, m, q)
<1>1. c \in DOMAIN h BY HeapTypes DEF TreeOK
<1>2. IsNode(c) BY <1>1, HeapTypes DEF TreeOK
<1>3. L[c] = L[m] BY DEF TreeOK, LevelsOK, LevelsIn
<1>4. In(c, m) /\ q = QuadrantIn(m, c) /\ h[c].parent = m /\ m.square
  BY DEF TreeOK, LinksOK, KidsOK
<1> HIDE DEF c
<1> QED BY <1>1, <1>2, <1>3, <1>4 DEF Stands, c

LEMMA DownFacts ==
  ASSUME NEW h, NEW L, TreeOK(h, L), NEW m, Stands(h, L, m)
  PROVE  /\ L[m] \in Int
         /\ h[m].down = Null <=> L[m] = 0
         /\ h[m].down # Null => /\ Stands(h, L, h[m].down) /\ Same(m, h[m].down)
                                /\ L[m] = L[h[m].down] + 1
<1>1. m \in DOMAIN h /\ m.square /\ L[m] >= 0 BY DEF Stands
<1>2. L[m] \in Int /\ (h[m].down = Null <=> L[m] = 0)
  BY <1>1 DEF TreeOK, LevelsOK, LevelsIn
<1>3. ASSUME h[m].down # Null
      PROVE  Stands(h, L, h[m].down) /\ Same(m, h[m].down) /\ L[m] = L[h[m].down] + 1
  <2>1. L[m] > 0 BY <1>1, <1>2, <1>3
  <2>2. /\ h[m].down \in DOMAIN h /\ Same(m, h[m].down) /\ L[h[m].down] = L[m] - 1
    BY <1>1, <2>1, DownStep
  <2>3. h[m].down.square BY <1>1, <2>2 DEF Same
  <2>4. L[m] = L[h[m].down] + 1 /\ L[h[m].down] >= 0 BY <1>2, <2>1, <2>2
  <2> QED BY <2>2, <2>3, <2>4 DEF Stands
<1> QED BY <1>2, <1>3

LEMMA EqualsIsSame ==
  ASSUME NEW c, IsNode(c), NEW p \in Points
  PROVE  /\ ~c.square => (Point_equals(c.center, p) <=> Same(c, PointAt(p)))
         /\ c.square /\ Point_equals(c.center, p) => in_range(c, p)
<1>1. p \in Positions /\ OffEdges(p) /\ PointAt(p).center = p
      /\ PointAt(p).square = FALSE /\ PointAt(p).length = 0
  BY PointPlace DEF PointAt
<1>2. c.square => GridSquare(c) BY NodeFacts
<1>3. ASSUME ~c.square, Point_equals(c.center, p) PROVE Same(c, PointAt(p))
  <2>1. c.center \in Points /\ c.center \in Positions /\ OffEdges(c.center)
        /\ c.length = 0 /\ c.square = FALSE
    BY <1>3, NodeFacts DEF GridPoint
  <2>2. ASSUME c.center # p PROVE FALSE
    <3>1. PICK i \in Dims : Cell(c.center[i]) # Cell(p[i])
      BY <2>1, <2>2, PointsAssumption
    <3> QED BY <1>1, <1>3, <2>1, <3>1, DifferentPoints
  <2> QED BY <1>1, <2>1, <2>2 DEF Same
<1>4. ASSUME Same(c, PointAt(p)) PROVE Point_equals(c.center, p)
  BY <1>1, <1>4, EqualsItself DEF Same
<1> QED BY <1>1, <1>2, <1>3, <1>4, NearCenter

(* The slot for the point, as the code reads it.                           *)
LEMMA SlotIs ==
  ASSUME NEW h, NEW m, NEW p
  PROVE  /\ SlotIn(h, m, p) = Kid(h, m, QuadrantIn(m, PointAt(p)))
         /\ get_quadrant(m.center, p) = QuadrantIn(m, PointAt(p))
BY DEF SlotIn, Kid, QuadrantIn, PointAt

(* in_range, for a square of a level.                                      *)
LEMMA InRangeIsIn ==
  ASSUME NEW m, IsNode(m), m.square, NEW p \in Points
  PROVE  In(PointAt(p), m) <=> in_range(m, p)
<1>1. m.length \in Nat /\ m.length > 0 BY NodeFacts
<1> QED BY <1>1 DEF In, PointAt

LEMMA SearchStepStep ==
  ASSUME Inv, SearchStep
  PROVE  Inv' /\ Sim
<1>1. pc = "enter" /\ call.op = "search" BY DEF SearchStep, At
<1>2. CallOK /\ pc # "free" BY <1>1 DEF Inv
<1>3. PICK L : TreeOK(heap, L) /\ Located(L) BY <1>2 DEF Inv
<1>4. Searching(L) /\ AllThick(heap, {}) BY <1>1, <1>3 DEF Located, Leaves, At
<1>5. /\ Stands(heap, L, cur) /\ cur \in DOMAIN heap /\ cur.square /\ L[cur] >= 0
      /\ Contents = call.was /\ Unused
  BY <1>4 DEF Searching, Stands
<1>6. call.p \in Points /\ call \in Calls /\ Root \in DOMAIN heap
  BY <1>1, <1>2 DEF CallOK, Calls
<1> DEFINE q == QuadrantIn(cur, P)
           c == Kid(heap, cur, q)
           found == c # Null /\ ~c.square /\ Point_equals(c.center, call.p)
           next == IF c # Null /\ c.square THEN c ELSE heap[cur].down
<1>7. Slot(cur, call.p) = c BY SlotIs DEF Slot, P
<1>8. /\ ~in_range(cur, call.p) => Finish(FALSE)
      /\ in_range(cur, call.p) /\ found => Finish(TRUE)
      /\ in_range(cur, call.p) /\ ~found /\ next = Null => Finish(FALSE)
      /\ in_range(cur, call.p) /\ ~found /\ next # Null =>
           Enter(next) /\ UNCHANGED <<gap, frames, sq, low>> /\ Keeps
  BY <1>7 DEF SearchStep, SearchNext
<1>9. q \in Quadrants /\ GridPoint(P) BY <1>6, QuadrantType, PointPlace DEF P
<1>10. /\ \A n \in DOMAIN heap : IsNode(n)
       /\ c # Null => c \in DOMAIN heap /\ IsNode(c) /\ (c.square => Stands(heap, L, c))
                      /\ L[c] = L[cur]
  BY <1>3, <1>5, <1>9, ChildFacts, HeapTypes DEF TreeOK
<1>11. call.p \in Contents <=> Copied(heap, P)
  BY <1>3, <1>6, PointsHeld DEF Contents, Holds, P
<1>12. In(P, cur) <=> in_range(cur, call.p) BY <1>5, <1>6, <1>10, InRangeIsIn DEF P
<1>13. found => Copied(heap, P)
  BY <1>6, <1>10, EqualsIsSame DEF Copied, P
<1>14. ASSUME heap[Root].up = Null, In(P, cur), c = Null \/ (~In(P, c) /\ ~Same(c, P)),
              Copied(heap, P)
       PROVE  FALSE
  <2>1. WalkEndsAt(heap, L, cur, P) BY <1>5, <1>14 DEF WalkEndsAt
  <2>2. PICK x \in DOMAIN heap : Same(x, P) BY <1>14 DEF Copied
  <2>3. IsRoot(Root) /\ L[Root] = 0
    BY <1>3, <1>6, SameIsEquivalence DEF TreeOK, LevelsOK, LevelsIn, IsRoot
  <2>4. L[x] <= 0 BY <1>3, <1>6, <1>14, <2>3, NothingAbove
  <2>5. x.square = FALSE BY <1>6, <2>2, PointPlace DEF Same, P
  <2>6. L[x] >= 0 /\ L[x] \in Int
    BY <1>3, <2>5, PointsHeld DEF TreeOK, LevelsOK, LevelsIn
  <2>7. L[cur] = 0 BY <1>4, <1>14 DEF Searching
  <2> QED BY <1>3, <1>9, <2>1, <2>2, <2>4, <2>6, <2>7, NotOnLevel
<1>15. pc \notin {"idle", "return"} /\ Contents = ASet!After(call)
  BY <1>1, <1>5 DEF ASet!After
<1>16. \A b : (b => call.p \in call.was) => ASet!MayAnswer(call, b)
  BY <1>1 DEF ASet!MayAnswer
<1>17. CASE ~in_range(cur, call.p)
  <2>1. Finish(FALSE) BY <1>8, <1>17
  <2>2. heap[Root].up = Null => call.p \notin call.was
    BY <1>4, <1>5, <1>11, <1>12, <1>17 DEF Searching
  <2> QED BY <1>2, <1>3, <1>4, <1>15, <1>16, <2>1, <2>2, Finishing
<1>18. CASE in_range(cur, call.p) /\ found
  <2>1. Finish(TRUE) BY <1>8, <1>18
  <2>2. call.p \in call.was BY <1>5, <1>11, <1>13, <1>18
  <2> QED BY <1>2, <1>3, <1>4, <1>15, <1>16, <2>1, <2>2, Finishing
<1>19. ASSUME in_range(cur, call.p), ~found, c # Null
       PROVE  ~c.square => ~In(P, c) /\ ~Same(c, P)
  BY <1>6, <1>10, <1>19, EqualsIsSame DEF P, In
<1>20. CASE in_range(cur, call.p) /\ ~found /\ next = Null
  <2>1. Finish(FALSE) BY <1>8, <1>20
  <2>2. c # Null => ~c.square BY <1>20
  <2>3. heap[Root].up = Null => call.p \notin call.was
    BY <1>5, <1>11, <1>12, <1>14, <1>19, <1>20, <2>2
  <2> QED BY <1>2, <1>3, <1>4, <1>15, <1>16, <2>1, <2>3, Finishing
<1>21. CASE in_range(cur, call.p) /\ ~found /\ next # Null
  <2>1. /\ cur' = next /\ pc' = "enter" /\ heap' = heap /\ frames' = frames
        /\ low' = low /\ call' = call /\ pending' = pending /\ lost' = lost /\ ans' = ans
    BY <1>8, <1>21 DEF Enter, Keeps
  <2>2. Contents' = Contents BY <2>1 DEF Contents
  <2>3. CallOK' BY <1>1, <1>2, <2>1 DEF CallOK
  <2>4. CASE c # Null /\ c.square
    <3>1. next = c BY <2>4
    <3>2. ASSUME heap[Root].up = Null PROVE L[c] = 0 /\ (Copied(heap, P) => In(P, c))
      <4>1. ~Same(c, P) BY <2>4, <1>6, PointPlace DEF Same, P
      <4>2. L[c] = 0 BY <1>4, <1>10, <2>4, <3>2 DEF Searching
      <4> QED BY <1>12, <1>14, <1>21, <3>2, <4>1, <4>2
    <3>3. Searching(L)'
      BY <1>5, <1>10, <2>1, <2>2, <2>4, <3>1, <3>2 DEF Searching, Unused, P
    <3>4. Inv' BY <1>1, <1>3, <1>4, <2>1, <2>3, <3>3, Goes
    <3> QED BY <1>1, <2>1, <2>2, <3>4, QuietStep DEF Quiet, Phase
  <2>5. CASE ~(c # Null /\ c.square)
    <3>1. next = heap[cur].down /\ heap[cur].down # Null BY <1>21, <2>5
    <3>2. Stands(heap, L, next) /\ L[cur] # 0 BY <1>3, <1>5, <3>1, DownFacts
    <3>3. heap[Root].up # Null BY <1>4, <3>2 DEF Searching
    <3>4. Searching(L)' BY <1>5, <2>1, <2>2, <3>2, <3>3 DEF Searching, Unused, P
    <3>5. Inv' BY <1>1, <1>3, <1>4, <2>1, <2>3, <3>4, Goes
    <3> QED BY <1>1, <2>1, <2>2, <3>5, QuietStep DEF Quiet, Phase
  <2> QED BY <2>4, <2>5
<1> QED BY <1>17, <1>18, <1>20, <1>21
LEMMA LocateStep ==
  ASSUME Inv, Locate
  PROVE  Inv' /\ Sim
<1>1. pc = "enter" /\ call.op = "remove" BY DEF Locate, At
<1>2. CallOK /\ pc # "free" BY <1>1 DEF Inv
<1>3. PICK L : TreeOK(heap, L) /\ Located(L) BY <1>2 DEF Inv
<1>4. Locating(L) /\ AllThick(heap, {}) BY <1>1, <1>3 DEF Located, Leaves, At
<1>5. /\ Stands(heap, L, cur) /\ cur \in DOMAIN heap /\ cur.square /\ L[cur] >= 0
      /\ Contents = call.was /\ Unused /\ (IsRoot(cur) \/ In(P, cur))
      /\ \A x \in DOMAIN heap : Same(x, P) => L[x] <= L[cur]
  BY <1>4 DEF Locating, Stands
<1>6. call.p \in Points /\ call \in Calls /\ Root \in DOMAIN heap
  BY <1>1, <1>2 DEF CallOK, Calls
<1> DEFINE q == QuadrantIn(cur, P)
           c == Kid(heap, cur, q)
           into == WalksOn(c, call.p)
           found == ~into /\ c # Null /\ Point_equals(c.center, call.p)
           next == IF into THEN c ELSE heap[cur].down
<1>7. Slot(cur, call.p) = c BY SlotIs DEF Slot, P
<1>8. /\ ~in_range(cur, call.p) => Finish(FALSE)
      /\ in_range(cur, call.p) /\ found =>
           /\ pending' = <<c>> /\ pc' = "unlink" /\ cur' = Root
           /\ UNCHANGED <<heap, call, gap, frames, sq, low, ans, lost>>
      /\ in_range(cur, call.p) /\ ~found /\ next = Null => Finish(FALSE)
      /\ in_range(cur, call.p) /\ ~found /\ next # Null =>
           Enter(next) /\ UNCHANGED <<gap, frames, sq, low>> /\ Keeps
  BY <1>7 DEF Locate
<1>9. q \in Quadrants /\ GridPoint(P) /\ P.square = FALSE
  BY <1>6, QuadrantType, PointPlace DEF P
<1>10. /\ \A n \in DOMAIN heap : IsNode(n) /\ L[n] \in Int
       /\ c # Null => c \in DOMAIN heap /\ IsNode(c) /\ (c.square => Stands(heap, L, c))
                      /\ L[c] = L[cur]
  BY <1>3, <1>5, <1>9, ChildFacts, HeapTypes DEF TreeOK, LevelsOK, LevelsIn
<1>11. call.p \in Contents <=> Copied(heap, P)
  BY <1>3, <1>6, PointsHeld DEF Contents, Holds, P
<1>12. In(P, cur) <=> in_range(cur, call.p) BY <1>5, <1>6, <1>10, InRangeIsIn DEF P
<1>13. c # Null /\ c.square => (In(P, c) <=> in_range(c, call.p))
  BY <1>6, <1>10, InRangeIsIn DEF P
<1>14. found => Same(c, P)
  BY <1>6, <1>10, EqualsIsSame DEF P, WalksOn
<1>15. ~into /\ ~found /\ c # Null => ~In(P, c) /\ ~Same(c, P)
  <2>1. SUFFICES ASSUME ~into, ~found, c # Null PROVE ~In(P, c) /\ ~Same(c, P)
    OBVIOUS
  <2>2. ~In(P, c) BY <1>13, <2>1 DEF WalksOn, In
  <2>3. ~Point_equals(c.center, call.p) BY <2>1
  <2>4. ~Same(c, P)
    BY <1>6, <1>9, <1>10, <2>1, <2>3, EqualsIsSame DEF Same, P
  <2> QED BY <2>2, <2>4
<1>16. ASSUME in_range(cur, call.p), ~into, ~found, NEW x \in DOMAIN heap, Same(x, P)
       PROVE  L[x] < L[cur]
  <2>1. WalkEndsAt(heap, L, cur, P) BY <1>5, <1>12, <1>15, <1>16 DEF WalkEndsAt
  <2>2. L[x] # L[cur] BY <1>3, <1>9, <1>16, <2>1, NotOnLevel
  <2> QED BY <1>5, <1>10, <1>16, <2>2
<1>17. pc \notin {"idle", "return"} BY <1>1
<1>18. call.p \notin Contents => Contents = ASet!After(call) /\ ASet!MayAnswer(call, FALSE)
  BY <1>1, <1>5 DEF ASet!After, ASet!MayAnswer
<1>19. CASE ~in_range(cur, call.p)
  <2>1. Finish(FALSE) BY <1>8, <1>19
  <2>2. IsRoot(cur) BY <1>5, <1>12, <1>19
  <2>3. ~in_range(Root, call.p) BY <1>19, <2>2 DEF IsRoot, Same, in_range
  <2>4. call.p \notin Contents BY <1>3, <2>3, PointsHeld DEF Contents, Holds, Space
  <2> QED BY <1>1, <1>2, <1>3, <1>4, <1>17, <1>18, <2>1, <2>4, Finishing
<1>20. CASE in_range(cur, call.p) /\ ~found /\ next = Null
  <2>1. Finish(FALSE) BY <1>8, <1>20
  <2>2. ~into BY <1>20 DEF WalksOn
  <2>3. L[cur] = 0 BY <1>3, <1>5, <1>20, <2>2, DownFacts
  <2>4. ASSUME NEW x \in DOMAIN heap, Same(x, P) PROVE FALSE
    <3>1. L[x] < 0 BY <1>16, <1>20, <2>2, <2>3, <2>4
    <3>2. ~x.square BY <1>9, <2>4 DEF Same
    <3>3. L[x] >= 0 /\ L[x] \in Int BY <1>3, <1>10, <3>2, PointsHeld
    <3> QED BY <3>1, <3>3
  <2>5. call.p \notin Contents BY <1>11, <2>4 DEF Copied
  <2> QED BY <1>1, <1>2, <1>3, <1>4, <1>17, <1>18, <2>1, <2>5, Finishing
<1>21. CASE in_range(cur, call.p) /\ ~found /\ next # Null
  <2>1. /\ cur' = next /\ pc' = "enter" /\ heap' = heap /\ frames' = frames
        /\ low' = low /\ call' = call /\ pending' = pending /\ lost' = lost /\ ans' = ans
    BY <1>8, <1>21 DEF Enter, Keeps
  <2>2. Contents' = Contents BY <2>1 DEF Contents
  <2>3. CallOK' BY <1>1, <1>2, <2>1 DEF CallOK
  <2>4. CASE into
    <3>1. next = c /\ c # Null /\ c.square /\ in_range(c, call.p)
      BY <2>4 DEF WalksOn
    <3>2. In(P, c) BY <1>13, <3>1
    <3>3. Locating(L)'
      BY <1>5, <1>10, <2>1, <2>2, <3>1, <3>2 DEF Locating, Unused, P
    <3>4. Inv' BY <1>1, <1>3, <1>4, <2>1, <2>3, <3>3, Goes
    <3> QED BY <1>1, <2>1, <2>2, <3>4, QuietStep DEF Quiet, Phase
  <2>5. CASE ~into
    <3>1. next = heap[cur].down /\ heap[cur].down # Null BY <1>21, <2>5
    <3>2. Stands(heap, L, next) /\ Same(cur, next) /\ L[cur] = L[next] + 1
          /\ L[next] \in Int
      BY <1>3, <1>5, <1>10, <3>1, DownFacts DEF Stands
    <3>3. In(P, next)
      BY <1>12, <1>21, <3>2, InSame, SameIsEquivalence
    <3>4. \A x \in DOMAIN heap : Same(x, P) => L[x] <= L[next]
      BY <1>10, <1>16, <1>21, <2>5, <3>2
    <3>5. Locating(L)'
      BY <1>5, <2>1, <2>2, <3>2, <3>3, <3>4 DEF Locating, Unused, P
    <3>6. Inv' BY <1>1, <1>3, <1>4, <2>1, <2>3, <3>5, Goes
    <3> QED BY <1>1, <2>1, <2>2, <3>6, QuietStep DEF Quiet, Phase
  <2> QED BY <2>4, <2>5
<1>22. CASE in_range(cur, call.p) /\ found
  <2>1. /\ pending' = <<c>> /\ pc' = "unlink" /\ cur' = Root
        /\ heap' = heap /\ frames' = frames /\ low' = low /\ call' = call
        /\ lost' = lost /\ ans' = ans
    BY <1>8, <1>22
  <2>2. Same(c, P) /\ c # Null /\ c \in DOMAIN heap /\ L[c] = L[cur]
    BY <1>10, <1>14, <1>22
  <2>3. Target(heap, L, P, c) BY <1>5, <2>2 DEF Target
  <2>4. c.square = FALSE BY <1>9, <2>2 DEF Same
  <2>5. <<c>> \in Seq(DOMAIN heap) /\ Len(<<c>>) = 1 /\ <<c>>[1] = c BY <2>2
  <2>6. PendingOK(heap, L, P, <<c>>)
    BY <2>3, <2>4, <2>5 DEF PendingOK
  <2>7. Copied(heap, P) BY <2>2 DEF Copied
  <2>8. Unlinking(L)'
    BY <1>5, <1>11, <2>1, <2>6, <2>7 DEF Unlinking, Unused, P, Contents
  <2>9. CallOK' BY <1>1, <1>2, <2>1 DEF CallOK
  <2>10. AllThick(heap', Leaves') BY <1>4, <2>1 DEF AllThick
  <2>11. Located(L)' BY <1>1, <2>1, <2>8, <2>10 DEF Located, At
  <2>12. Inv' BY <1>3, <2>1, <2>9, <2>11 DEF Inv
  <2>13. Contents' = Contents BY <2>1 DEF Contents
  <2> QED BY <1>1, <2>1, <2>12, <2>13, QuietStep DEF Quiet, Phase
<1> QED BY <1>19, <1>20, <1>21, <1>22

-----------------------------------------------------------------------------
(* Insertion: the walk.                                                    *)
LEMMA AddEnterStep ==
  ASSUME Inv, AddEnter
  PROVE  Inv' /\ Sim
<1>1. pc = "enter" /\ call.op = "add" BY DEF AddEnter, At
<1>2. CallOK /\ pc # "free" BY <1>1 DEF Inv
<1>3. PICK L : TreeOK(heap, L) /\ Located(L) BY <1>2 DEF Inv
<1>4. Entering(L) /\ AllThick(heap, {}) BY <1>1, <1>3 DEF Located, Leaves, At
<1>5. /\ Descending(L) /\ Stands(heap, L, cur) /\ Contents = call.was
      /\ (IsRoot(cur) \/ In(P, cur))
  BY <1>4 DEF Entering, Descending
<1>6. call.p \in Points /\ cur \in DOMAIN heap /\ IsNode(cur) /\ cur.square
  BY <1>1, <1>2, <1>3, <1>5, HeapTypes DEF CallOK, Calls, Stands, TreeOK
<1>7. In(P, cur) <=> in_range(cur, call.p) BY <1>6, InRangeIsIn DEF P
<1>8. CASE ~in_range(cur, call.p)
  <2>1. Finish(FALSE) BY <1>8 DEF AddEnter
  <2>2. IsRoot(cur) BY <1>5, <1>7, <1>8
  <2>3. ~in_range(Root, call.p) BY <1>8, <2>2 DEF IsRoot, Same, in_range
  <2>4. call.p \notin Space BY <2>3 DEF Space
  <2>5. Contents = ASet!After(call) /\ ASet!MayAnswer(call, FALSE)
    BY <1>1, <1>5, <2>4 DEF ASet!After, ASet!MayAnswer
  <2> QED BY <1>1, <1>2, <1>3, <1>4, <2>1, <2>5, Finishing
<1>9. CASE in_range(cur, call.p)
  <2>1. /\ pc' = "walk" /\ cur' = cur /\ gap' = gap /\ heap' = heap /\ frames' = frames
        /\ low' = low /\ call' = call /\ pending' = pending /\ lost' = lost /\ ans' = ans
    BY <1>9 DEF AddEnter, Keeps
  <2>2. Contents' = Contents BY <2>1 DEF Contents
  <2>3. CallOK' BY <1>1, <1>2, <2>1 DEF CallOK
  <2>4. Walking(L)' BY <1>5, <1>7, <1>9, <2>1, <2>2 DEF Walking, Descending, P
  <2>5. Inv' BY <1>1, <1>3, <1>4, <2>1, <2>3, <2>4, Goes
  <2> QED BY <1>1, <2>1, <2>2, <2>5, QuietStep DEF Quiet, Phase
<1> QED BY <1>8, <1>9

LEMMA WalkStep ==
  ASSUME Inv, Walk
  PROVE  Inv' /\ Sim
<1>1. /\ pc = "walk" /\ call.op = "add" /\ WalksOn(Slot(cur, call.p), call.p)
      /\ cur' = Slot(cur, call.p) /\ pc' = pc /\ gap' = gap /\ heap' = heap
      /\ frames' = frames /\ low' = low /\ call' = call /\ pending' = pending
      /\ lost' = lost /\ ans' = ans
  BY DEF Walk, At, Keeps
<1>2. CallOK /\ pc # "free" BY <1>1 DEF Inv
<1>3. PICK L : TreeOK(heap, L) /\ Located(L) BY <1>2 DEF Inv
<1>4. Walking(L) /\ AllThick(heap, {}) BY <1>1, <1>3 DEF Located, Leaves
<1>5. Descending(L) /\ Stands(heap, L, cur) BY <1>4 DEF Walking, Descending
<1> DEFINE q == QuadrantIn(cur, P)
           c == Kid(heap, cur, q)
<1>6. /\ Slot(cur, call.p) = c /\ c # Null /\ c.square /\ in_range(c, call.p)
      /\ call.p \in Points
  BY <1>1, <1>2, SlotIs DEF Slot, P, WalksOn, CallOK, Calls
<1>7. IsNode(c) /\ Stands(heap, L, c) /\ L[c] = L[cur]
  BY <1>3, <1>5, <1>6, ChildFacts, QuadrantType DEF Stands
<1>8. In(P, c) BY <1>6, <1>7, InRangeIsIn DEF P
<1>9. Contents' = Contents BY <1>1 DEF Contents
<1>10. CallOK' BY <1>1, <1>2 DEF CallOK
<1>11. Walking(L)'
  BY <1>1, <1>5, <1>6, <1>7, <1>8, <1>9 DEF Walking, Descending, P
<1>12. Inv' BY <1>1, <1>3, <1>4, <1>10, <1>11, Goes
<1> QED BY <1>1, <1>9, <1>12, QuietStep DEF Quiet, Phase
(* The stack of the walks that have ended.                                 *)
LEMMA Pushed ==
  ASSUME NEW S, NEW f \in S, NEW fs \in Seq(S)
  PROVE  /\ <<f>> \o fs \in Seq(S) /\ <<f>> \o fs # <<>>
         /\ Len(<<f>> \o fs) = Len(fs) + 1
         /\ Head(<<f>> \o fs) = f /\ Tail(<<f>> \o fs) = fs
         /\ \A i \in 1..(Len(fs) + 1) :
              (<<f>> \o fs)[i] = IF i = 1 THEN f ELSE fs[i - 1]
<1>1. <<f>> \in Seq(S) /\ Len(<<f>>) = 1 /\ <<f>>[1] = f OBVIOUS
<1>2. Len(fs) \in Nat OBVIOUS
<1>3. <<f>> \o fs \in Seq(S) /\ Len(<<f>> \o fs) = Len(fs) + 1 BY <1>1, <1>2
<1>4. \A i \in 1..(Len(fs) + 1) :
        (<<f>> \o fs)[i] = IF i = 1 THEN f ELSE fs[i - 1]
  BY <1>1, <1>2
<1>5. <<f>> \o fs # <<>> BY <1>2, <1>3
<1>6. Head(<<f>> \o fs) = f /\ Tail(<<f>> \o fs) = fs BY <1>1
<1> QED BY <1>3, <1>4, <1>5, <1>6

LEMMA Popped ==
  ASSUME NEW S, NEW fs \in Seq(S), fs # <<>>
  PROVE  /\ Len(fs) \in Nat \ {0} /\ Head(fs) = fs[1] /\ Head(fs) \in S
         /\ Tail(fs) \in Seq(S) /\ Len(Tail(fs)) = Len(fs) - 1
         /\ \A i \in 1..(Len(fs) - 1) : Tail(fs)[i] = fs[i + 1]
OBVIOUS

LEMMA PushFrame ==
  ASSUME NEW h, NEW L, NEW p, NEW fs, NEW k \in Int, FramesOK(h, L, p, fs, k + 1),
         NEW f \in [parent : DOMAIN h, gap : Nat], FrameOK(h, L, p, f),
         L[f.parent] = k, \A i \in 1..Len(fs) : f.gap > 0 => fs[i].gap > 0
  PROVE  FramesOK(h, L, p, <<f>> \o fs, k) /\ <<f>> \o fs # <<>>
         /\ Head(<<f>> \o fs) = f
<1> DEFINE S == [parent : DOMAIN h, gap : Nat]
           gs == <<f>> \o fs
<1>1. fs \in Seq(S) BY DEF FramesOK
<1>2. Len(fs) \in Nat BY <1>1
<1>3. /\ gs \in Seq(S) /\ gs # <<>> /\ Len(gs) = Len(fs) + 1 /\ Head(gs) = f
      /\ \A i \in 1..(Len(fs) + 1) : gs[i] = IF i = 1 THEN f ELSE fs[i - 1]
  <2> HIDE DEF S
  <2> QED BY <1>1, Pushed DEF S
<1> HIDE DEF gs
<1>4. \A i \in 1..Len(gs) : i = 1 \/ i - 1 \in 1..Len(fs) BY <1>2, <1>3
<1>5. ASSUME NEW i \in 1..Len(gs)
      PROVE  FrameOK(h, L, p, gs[i]) /\ L[gs[i].parent] = k + i - 1
  <2>1. CASE i = 1
    <3>1. gs[i] = f BY <1>2, <1>3, <2>1
    <3> QED BY <2>1, <3>1
  <2>2. CASE i # 1
    <3>1. i \in Int /\ i - 1 \in 1..Len(fs) /\ gs[i] = fs[i - 1] BY <1>2, <1>3, <1>4, <2>2
    <3>2. FrameOK(h, L, p, fs[i - 1]) /\ L[fs[i - 1].parent] = (k + 1) + (i - 1) - 1
      BY <3>1 DEF FramesOK
    <3> QED BY <3>1, <3>2
  <2> QED BY <2>1, <2>2
<1>6. ASSUME NEW i \in 1..Len(gs), NEW j \in 1..Len(gs), i < j, gs[i].gap > 0
      PROVE  gs[j].gap > 0
  <2>1. i \in Int /\ j \in Int /\ j - 1 \in 1..Len(fs) /\ gs[j] = fs[j - 1]
    BY <1>2, <1>3, <1>6
  <2>2. CASE i = 1
    <3>1. gs[i] = f BY <1>2, <1>3, <2>2
    <3> QED BY <1>6, <2>1, <3>1
  <2>3. CASE i # 1
    <3>1. i - 1 \in 1..Len(fs) /\ gs[i] = fs[i - 1] /\ i - 1 < j - 1
      BY <1>2, <1>3, <1>4, <1>6, <2>1, <2>3
    <3> QED BY <1>6, <2>1, <3>1 DEF FramesOK
  <2> QED BY <2>2, <2>3
<1>7. FramesOK(h, L, p, gs, k) BY <1>3, <1>5, <1>6 DEF FramesOK
<1> QED BY <1>3, <1>7 DEF gs

LEMMA PopFrame ==
  ASSUME NEW h, NEW L, NEW p, NEW fs, NEW k \in Int, FramesOK(h, L, p, fs, k), fs # <<>>
  PROVE  /\ FrameOK(h, L, p, Head(fs)) /\ L[Head(fs).parent] = k
         /\ FramesOK(h, L, p, Tail(fs), k + 1)
         /\ Head(fs).gap > 0 => \A i \in 1..Len(Tail(fs)) : Tail(fs)[i].gap > 0
         /\ Tail(fs) # <<>> => Len(Tail(fs)) > 0 /\ Head(Tail(fs)) = Tail(fs)[1]
<1> DEFINE S == [parent : DOMAIN h, gap : Nat]
           gs == Tail(fs)
<1>1. fs \in Seq(S) BY DEF FramesOK
<1>2. /\ Len(fs) \in Nat \ {0} /\ Head(fs) = fs[1] /\ gs \in Seq(S)
      /\ Len(gs) = Len(fs) - 1 /\ \A i \in 1..(Len(fs) - 1) : gs[i] = fs[i + 1]
  <2> HIDE DEF S
  <2> QED BY <1>1, Popped
<1>3. gs # <<>> => Len(gs) > 0 /\ Head(gs) = gs[1]
  <2> HIDE DEF S, gs
  <2>1. gs # <<>> => Len(gs) \in Nat \ {0} /\ Head(gs) = gs[1] BY <1>2, Popped
  <2> QED BY <2>1
<1> HIDE DEF gs, S
<1>4. 1 \in 1..Len(fs) BY <1>2
<1>5. FrameOK(h, L, p, Head(fs)) /\ L[Head(fs).parent] = k
  <2>1. FrameOK(h, L, p, fs[1]) /\ L[fs[1].parent] = k + 1 - 1 BY <1>4 DEF FramesOK
  <2> QED BY <1>2, <2>1
<1>6. \A i \in 1..Len(gs) : i + 1 \in 1..Len(fs) /\ gs[i] = fs[i + 1] /\ 1 < i + 1
                            /\ i \in Int
  BY <1>2
<1>7. Head(fs).gap > 0 => \A i \in 1..Len(gs) : gs[i].gap > 0
  BY <1>2, <1>4, <1>6 DEF FramesOK
<1>8. ASSUME NEW i \in 1..Len(gs)
      PROVE  FrameOK(h, L, p, gs[i]) /\ L[gs[i].parent] = (k + 1) + i - 1
  <2>1. FrameOK(h, L, p, fs[i + 1]) /\ L[fs[i + 1].parent] = k + (i + 1) - 1
    BY <1>6 DEF FramesOK
  <2>2. i \in Int /\ gs[i] = fs[i + 1] BY <1>6
  <2>3. k + (i + 1) - 1 = (k + 1) + i - 1 BY <2>2
  <2> QED BY <2>1, <2>2, <2>3
<1>9. \A i, j \in 1..Len(gs) : i < j /\ gs[i].gap > 0 => gs[j].gap > 0
  <2> SUFFICES ASSUME NEW i \in 1..Len(gs), NEW j \in 1..Len(gs), i < j, gs[i].gap > 0
               PROVE  gs[j].gap > 0
    OBVIOUS
  <2>1. i + 1 < j + 1 BY <1>6
  <2> QED BY <1>6, <2>1 DEF FramesOK
<1>10. FramesOK(h, L, p, gs, k + 1) BY <1>2, <1>8, <1>9 DEF FramesOK, S
<1> QED BY <1>3, <1>5, <1>7, <1>10 DEF gs
LEMMA WalkEndsStep ==
  ASSUME Inv, WalkEnds
  PROVE  Inv' /\ Sim
<1>1. /\ pc = "walk" /\ call.op = "add" /\ ~WalksOn(Slot(cur, call.p), call.p)
  BY DEF WalkEnds, At
<1>2. CallOK /\ pc # "free" BY <1>1 DEF Inv
<1>3. PICK L : TreeOK(heap, L) /\ Located(L) BY <1>2 DEF Inv
<1>4. Walking(L) /\ AllThick(heap, {}) BY <1>1, <1>3 DEF Located, Leaves
<1>5. /\ Stands(heap, L, cur) /\ cur \in DOMAIN heap /\ cur.square /\ In(P, cur)
      /\ gap \in Nat /\ gap <= L[cur] /\ low = Null /\ pending = <<>>
      /\ Contents = call.was /\ FramesOK(heap, L, P, frames, L[cur] + 1)
      /\ \A i \in 1..Len(frames) : gap > 0 => frames[i].gap > 0
  BY <1>4 DEF Walking, Descending, Stands
<1>6. call.p \in Points /\ call \in Calls BY <1>1, <1>2 DEF CallOK, Calls
<1> DEFINE q == QuadrantIn(cur, P)
           c == Kid(heap, cur, q)
           f == [parent |-> cur, gap |-> gap]
<1>7. Slot(cur, call.p) = c /\ q \in Quadrants BY SlotIs, QuadrantType DEF Slot, P
<1>8. /\ Duplicate(c) => Finish(FALSE)
      /\ ~Duplicate(c) =>
           /\ frames' = <<f>> \o frames
           /\ IF heap[cur].down # Null
              THEN Enter(heap[cur].down) /\ gap' = NextGap(gap)
              ELSE pc' = "insert" /\ UNCHANGED <<cur, gap>>
           /\ UNCHANGED <<sq, low>> /\ Keeps
  BY <1>7 DEF WalkEnds
<1>9. c # Null => c \in DOMAIN heap /\ IsNode(c)
  BY <1>3, <1>5, <1>7, ChildFacts
<1>10. c # Null => ~In(P, c)
  <2>1. c # Null /\ c.square => (In(P, c) <=> in_range(c, call.p))
    BY <1>6, <1>9, InRangeIsIn DEF P
  <2> QED BY <1>1, <1>7, <2>1 DEF WalksOn, In
<1>11. c # Null /\ gap = 0 => (Duplicate(c) <=> Same(c, P))
  <2>1. P.square = FALSE BY <1>6, PointPlace DEF P
  <2>2. c # Null => (~c.square => (Point_equals(c.center, call.p) <=> Same(c, P)))
    BY <1>6, <1>9, EqualsIsSame DEF P
  <2> QED BY <2>1, <2>2 DEF Duplicate, Same
<1>12. CASE Duplicate(c)
  <2>1. c # Null /\ gap = 0 BY <1>12 DEF Duplicate
  <2>2. Finish(FALSE) BY <1>8, <1>12
  <2>3. Copied(heap, P) BY <1>9, <1>11, <1>12, <2>1 DEF Copied
  <2>4. call.p \in Contents /\ Contents \subseteq Space
    BY <1>3, <1>6, <2>3, PointsHeld DEF Contents, Holds, P
  <2>5. Contents = ASet!After(call) /\ ASet!MayAnswer(call, FALSE)
    BY <1>1, <1>5, <2>4 DEF ASet!After, ASet!MayAnswer
  <2> QED BY <1>1, <1>2, <1>3, <1>4, <2>2, <2>5, Finishing
<1>13. CASE ~Duplicate(c)
  <2>1. /\ frames' = <<f>> \o frames /\ heap' = heap /\ low' = low /\ call' = call
        /\ pending' = pending /\ lost' = lost /\ ans' = ans
    BY <1>8, <1>13 DEF Keeps
  <2>2. FrameOK(heap, L, P, f)
    BY <1>5, <1>10, <1>11, <1>13 DEF FrameOK
  <2>3. L[cur] \in Int BY <1>3, <1>5, DownFacts
  <2>4. FramesOK(heap, L, P, frames', L[cur]) /\ frames' # <<>> /\ Head(frames') = f
    <3>1. f \in [parent : DOMAIN heap, gap : Nat] BY <1>5
    <3>2. L[f.parent] = L[cur] /\ f.gap = gap OBVIOUS
    <3> HIDE DEF f
    <3>3. \A i \in 1..Len(frames) : f.gap > 0 => frames[i].gap > 0 BY <1>5, <3>2
    <3>4. FramesOK(heap, L, P, <<f>> \o frames, L[cur]) /\ <<f>> \o frames # <<>>
          /\ Head(<<f>> \o frames) = f
      BY <1>5, <2>2, <2>3, <3>1, <3>2, <3>3, PushFrame
    <3> QED BY <2>1, <3>4
  <2>5. Contents' = Contents BY <2>1 DEF Contents
  <2>6. CASE heap[cur].down # Null
    <3> DEFINE d == heap[cur].down
    <3>1. cur' = d /\ pc' = "enter" /\ gap' = NextGap(gap)
      BY <1>8, <1>13, <2>6 DEF Enter
    <3>2. Stands(heap, L, d) /\ Same(cur, d) /\ L[cur] = L[d] + 1 /\ L[d] \in Int
      BY <1>3, <1>5, <2>6, DownFacts DEF Stands
    <3>3. In(P, d) BY <1>5, <3>2, InSame, SameIsEquivalence
    <3>4. gap' \in Nat /\ gap' <= L[d] /\ (gap' > 0 => gap > 0)
      <4>1. L[d] >= 0 BY <3>2 DEF Stands
      <4>2. CASE gap > 0
        <5>1. gap' = (gap - 1) % 2 BY <3>1, <4>2 DEF NextGap
        <5>2. (gap - 1) % 2 \in 0..1 /\ (gap - 1) % 2 <= gap - 1 BY <1>5, <4>2
        <5> QED BY <1>5, <3>2, <4>2, <5>1, <5>2
      <4>3. CASE ~(gap > 0)
        <5>1. gap' = 0 BY <3>1, <4>3 DEF NextGap
        <5> QED BY <4>1, <5>1
      <4> QED BY <4>2, <4>3
    <3>5. \A i \in 1..Len(frames') : gap > 0 => frames'[i].gap > 0
      <4>1. frames' \in Seq([parent : DOMAIN heap, gap : Nat]) BY <2>4 DEF FramesOK
      <4>2. Len(frames') \in Nat \ {0} /\ frames'[1] = f
        <5> DEFINE S == [parent : DOMAIN heap, gap : Nat]
        <5>1. frames' \in Seq(S) BY <4>1
        <5> HIDE DEF S
        <5> QED BY <2>4, <5>1, Popped
      <4>3. f.gap = gap /\ 1 \in 1..Len(frames') BY <4>2
      <4> SUFFICES ASSUME NEW i \in 1..Len(frames'), gap > 0 PROVE frames'[i].gap > 0
        OBVIOUS
      <4>4. CASE i = 1 BY <4>2, <4>3, <4>4
      <4>5. CASE i # 1
        <5>1. 1 < i BY <4>2, <4>5
        <5> QED BY <2>4, <4>2, <4>3, <5>1 DEF FramesOK
      <4> QED BY <4>4, <4>5
    <3>6. FramesOK(heap, L, P, frames', L[d] + 1) BY <2>4, <3>2
    <3> DEFINE D == /\ low = Null /\ pending = <<>> /\ Contents = call.was
                    /\ Stands(heap, L, d) /\ gap' \in Nat /\ gap' <= L[d]
                    /\ FramesOK(heap, L, P, frames', L[d] + 1)
                    /\ \A i \in 1..Len(frames') : gap' > 0 => frames'[i].gap > 0
    <3>7. D BY <1>5, <3>2, <3>4, <3>5, <3>6
    <3>8. P' = P BY <2>1 DEF P
    <3>9. Descending(L)' BY <2>1, <2>5, <3>1, <3>7, <3>8 DEF Descending
    <3>10. Entering(L)' BY <2>4, <3>1, <3>3, <3>8, <3>9 DEF Entering
    <3>11. CallOK' BY <1>1, <1>2, <2>1, <3>1 DEF CallOK
    <3>12. Inv' BY <1>1, <1>3, <1>4, <2>1, <3>1, <3>10, <3>11, Goes
    <3> QED BY <1>1, <2>1, <2>5, <3>1, <3>12, QuietStep DEF Quiet, Phase
  <2>7. CASE heap[cur].down = Null
    <3>1. cur' = cur /\ pc' = "insert" /\ gap' = gap BY <1>8, <1>13, <2>7
    <3>2. L[cur] = 0 BY <1>3, <1>5, <2>7, DownFacts
    <3>3. f.gap = 0 BY <1>5, <3>2
    <3>4. 0 \in Nat /\ FramesOK(heap, L, P, frames', 0) BY <2>4, <3>2
    <3>5. P' = P BY <2>1 DEF P
    <3>6. Inserting(L)'
      <4>1. low' = Null /\ pending' = <<>> /\ frames' # <<>> /\ Frame'.gap = 0
            /\ Contents' = call'.was /\ FramesOK(heap', L, P', frames', 0)
            /\ cur' \in DOMAIN heap'
        BY <1>5, <2>1, <2>4, <2>5, <3>1, <3>3, <3>4, <3>5 DEF Frame, Stands
      <4> QED BY <3>4, <4>1 DEF Inserting
    <3>7. CallOK' BY <1>1, <1>2, <2>1, <3>1 DEF CallOK
    <3>8. Inv' BY <1>1, <1>3, <1>4, <2>1, <3>1, <3>6, <3>7, Goes
    <3> QED BY <1>1, <2>1, <2>5, <3>1, <3>8, QuietStep DEF Quiet, Phase
  <2> QED BY <2>6, <2>7
<1> QED BY <1>12, <1>13

-----------------------------------------------------------------------------
(* Insertion on one level.                                                 *)
LEMMA SkipLevelStep ==
  ASSUME Inv, SkipLevel
  PROVE  Inv' /\ Sim
<1>1. /\ pc = "insert" /\ call.op = "add" /\ frames # <<>> /\ Frame.gap > 0
      /\ frames' = Tail(frames) /\ cur' = cur /\ pc' = pc /\ gap' = gap
      /\ heap' = heap /\ low' = low /\ call' = call /\ pending' = pending
      /\ lost' = lost /\ ans' = ans
  BY DEF SkipLevel, At, Pop, Keeps
<1>2. CallOK /\ pc # "free" BY <1>1 DEF Inv
<1>3. PICK L : TreeOK(heap, L) /\ Located(L) BY <1>2 DEF Inv
<1>4. Inserting(L) /\ AllThick(heap, {}) BY <1>1, <1>3 DEF Located, Leaves
<1>5. PICK k \in Nat :
       /\ FramesOK(heap, L, P, frames, k)
       /\ IF low = Null
          THEN frames # <<>> /\ Frame.gap = 0 /\ k = 0 /\ Contents = call.was
          ELSE /\ low \in DOMAIN heap /\ Same(low, P) /\ L[low] >= 0
               /\ call.p \notin call.was /\ Contents = call.was \cup {call.p}
               /\ frames # <<>> /\ Frame.gap = 0 => k = L[low] + 1
  BY <1>4 DEF Inserting
<1>6. /\ FramesOK(heap, L, P, frames', k + 1)
      /\ Frame.gap > 0 => \A i \in 1..Len(frames') : frames'[i].gap > 0
      /\ frames' # <<>> => Len(frames') > 0 /\ Head(frames') = frames'[1]
      /\ Frame.gap \in Nat
  BY <1>1, <1>5, PopFrame DEF Frame, FrameOK
<1>7. low # Null BY <1>1, <1>5, <1>6
<1>8. frames' # <<>> => Frame'.gap # 0
  <2>1. SUFFICES ASSUME frames' # <<>> PROVE Frame'.gap # 0 OBVIOUS
  <2>2. frames' \in Seq([parent : DOMAIN heap, gap : Nat]) BY <1>6 DEF FramesOK
  <2>3. Len(frames') \in Nat BY <2>2
  <2>4. 1 \in 1..Len(frames') BY <1>6, <2>1, <2>3
  <2>5. frames'[1].gap > 0 BY <1>1, <1>6, <2>4
  <2> QED BY <1>6, <2>1, <2>5 DEF Frame
<1>9. Contents' = Contents /\ P' = P BY <1>1 DEF Contents, P
<1>10. Inserting(L)'
  <2>1. k + 1 \in Nat OBVIOUS
  <2>2. pending' = <<>> /\ cur' \in DOMAIN heap' BY <1>1, <1>4 DEF Inserting
  <2> QED BY <1>1, <1>5, <1>6, <1>7, <1>8, <1>9, <2>1, <2>2 DEF Inserting
<1>11. CallOK' BY <1>1, <1>2 DEF CallOK
<1>12. Inv' BY <1>1, <1>3, <1>4, <1>10, <1>11, Goes
<1> QED BY <1>1, <1>9, <1>12, QuietStep DEF Quiet, Phase
InsertPlace(L, k) ==
  /\ WalkEndsAt(heap, L, Frame.parent, P) /\ CopyOf(heap, L, Frame.parent, P, low)
  /\ L[Frame.parent] = k /\ FramesOK(heap, L, P, Tail(frames), k + 1)
  /\ low = Null <=> k = 0
  /\ call.p \notin call.was /\ call.p \in Points
  /\ Contents = IF k = 0 THEN call.was ELSE call.was \cup {call.p}
LEMMA PlaceToInsert ==
  ASSUME CallOK, pc \in {"insert", "split", "find"}, NEW L, TreeOK(heap, L),
         Inserting(L), frames # <<>>, Frame.gap = 0
  PROVE  \E k \in Nat : InsertPlace(L, k)
<1>1. PICK k \in Nat :
       /\ FramesOK(heap, L, P, frames, k)
       /\ IF low = Null
          THEN frames # <<>> /\ Frame.gap = 0 /\ k = 0 /\ Contents = call.was
          ELSE /\ low \in DOMAIN heap /\ Same(low, P) /\ L[low] >= 0
               /\ call.p \notin call.was /\ Contents = call.was \cup {call.p}
               /\ frames # <<>> /\ Frame.gap = 0 => k = L[low] + 1
  BY DEF Inserting
<1> DEFINE m == Frame.parent
<1>2. /\ FrameOK(heap, L, P, Frame) /\ L[m] = k
      /\ FramesOK(heap, L, P, Tail(frames), k + 1)
  <2>1. k \in Int /\ FramesOK(heap, L, P, frames, k) BY <1>1
  <2>2. /\ FrameOK(heap, L, P, Head(frames)) /\ L[Head(frames).parent] = k
        /\ FramesOK(heap, L, P, Tail(frames), k + 1)
    BY <2>1, PopFrame
  <2> QED BY <2>2 DEF Frame
<1>3. WalkEndsAt(heap, L, m, P) BY <1>2 DEF FrameOK, WalkEndsAt, Stands
<1>4. call.p \in Points /\ GridPoint(P) BY PointPlace DEF CallOK, Calls, P
<1>5. L \in [DOMAIN heap -> Int] BY DEF TreeOK, LevelsOK, LevelsIn
<1>6. CASE low = Null
  <2>1. k = 0 /\ Contents = call.was BY <1>1, <1>6
  <2>2. CopyOf(heap, L, m, P, low) BY <1>2, <1>6, <2>1 DEF CopyOf
  <2>3. ASSUME Copied(heap, P) PROVE FALSE
    <3>1. PICK x \in DOMAIN heap : Same(x, P) BY <2>3 DEF Copied
    <3>2. L[x] >= 0
      <4>1. ~x.square BY <1>4, <3>1 DEF Same, GridPoint
      <4> QED BY <3>1, <4>1, PointsHeld
    <3>3. PICK y \in DOMAIN heap : Same(y, x) /\ L[y] = 0 BY <3>2, CopyBelow
    <3>4. Same(y, P) BY <3>1, <3>3, SameIsEquivalence
    <3> QED BY <1>2, <1>3, <1>4, <2>1, <3>3, <3>4, NotOnLevel
  <2>4. call.p \notin Contents BY <1>4, <2>3, PointsHeld DEF Contents, Holds, P
  <2> QED BY <1>2, <1>3, <1>4, <1>6, <2>1, <2>2, <2>4 DEF InsertPlace
<1>7. CASE low # Null
  <2>1. low \in DOMAIN heap /\ Same(low, P) /\ L[low] >= 0 /\ k = L[low] + 1
        /\ L[low] \in Int /\ call.p \notin call.was
        /\ Contents = call.was \cup {call.p}
    BY <1>1, <1>5, <1>7
  <2>2. k # 0 /\ L[low] = k - 1 BY <2>1
  <2>3. CopyOf(heap, L, m, P, low) BY <1>2, <2>1, <2>2 DEF CopyOf
  <2> QED BY <1>2, <1>3, <1>4, <1>7, <2>1, <2>2, <2>3 DEF InsertPlace
<1> QED BY <1>6, <1>7

LEMMA KeepFrames ==
  ASSUME NEW h, NEW g, NEW L, NEW M, NEW k \in Nat, NEW r, NEW new, NEW lo,
         Adds(h, g, L, M, k, r, new, lo), NEW p, NEW fs, FramesOK(h, L, p, fs, k + 1)
  PROVE  FramesOK(g, M, p, fs, k + 1)
<1>1. DOMAIN h \subseteq DOMAIN g BY DEF Adds
<1>2. \A x \in DOMAIN h : M[x] = L[x] BY DEF Adds
<1>3. \A x \in DOMAIN h : L[x] # k => \A q \in Quadrants : Kid(g, x, q) = Kid(h, x, q)
  BY DEF Adds
<1>4. fs \in Seq([parent : DOMAIN h, gap : Nat]) BY DEF FramesOK
<1>5. Len(fs) \in Nat BY <1>4
<1>6. ASSUME NEW i \in 1..Len(fs)
      PROVE  FrameOK(g, M, p, fs[i]) /\ M[fs[i].parent] = (k + 1) + i - 1
  <2>1. FrameOK(h, L, p, fs[i]) /\ L[fs[i].parent] = (k + 1) + i - 1 BY DEF FramesOK
  <2>2. fs[i].parent \in DOMAIN h BY <2>1 DEF FrameOK, Stands
  <2>3. L[fs[i].parent] # k BY <1>5, <2>1
  <2>4. QuadrantIn(fs[i].parent, p) \in Quadrants BY QuadrantType
  <2>5. FrameOK(g, M, p, fs[i])
    BY <1>1, <1>2, <1>3, <2>1, <2>2, <2>3, <2>4 DEF FrameOK, Stands
  <2> QED BY <1>2, <2>1, <2>2, <2>5
<1>7. fs \in Seq([parent : DOMAIN g, gap : Nat])
  <2> DEFINE S == [parent : DOMAIN h, gap : Nat]
             T == [parent : DOMAIN g, gap : Nat]
  <2>1. S \subseteq T BY <1>1
  <2>2. fs \in Seq(S) BY <1>4
  <2> HIDE DEF S, T
  <2>3. fs \in Seq(T) BY <2>1, <2>2
  <2> QED BY <2>3 DEF T
<1>8. \A i, j \in 1..Len(fs) : i < j /\ fs[i].gap > 0 => fs[j].gap > 0 BY DEF FramesOK
<1> QED BY <1>6, <1>7, <1>8 DEF FramesOK

LEMMA AddsPoint ==
  ASSUME NEW h, NEW g, NEW L, NEW M, NEW k, NEW p \in Points, NEW new, NEW lo,
         Adds(h, g, L, M, k, p, new, lo)
  PROVE  /\ lo = Null => Holds(g) = Holds(h) \cup {p}
         /\ lo # Null => Holds(g) = Holds(h)
         /\ AllThick(h, {}) => AllThick(g, {})
<1>1. new.square = FALSE /\ new.center = p /\ new \in DOMAIN g /\ new \notin DOMAIN h
      /\ g[new].down = lo
  BY PointPlace DEF Adds, Same
<1>2. DOMAIN h \subseteq DOMAIN g /\ \A x \in DOMAIN h : g[x].down = h[x].down
  BY DEF Adds
<1>3. \A x \in DOMAIN g : x \in DOMAIN h \/ x = new \/ (x.square /\ Thick(g, x))
  BY DEF Adds
<1> DEFINE A == {m \in DOMAIN h : ~m.square /\ h[m].down = Null}
           B == {m \in DOMAIN g : ~m.square /\ g[m].down = Null}
<1>4. B = IF lo = Null THEN A \cup {new} ELSE A BY <1>1, <1>2, <1>3
<1>5. Holds(g) = {n.center : n \in B} /\ Holds(h) = {n.center : n \in A} BY DEF Holds
<1> HIDE DEF A, B
<1>6. /\ lo = Null => Holds(g) = Holds(h) \cup {p}
      /\ lo # Null => Holds(g) = Holds(h)
  BY <1>1, <1>4, <1>5
<1>7. AllThick(h, {}) => AllThick(g, {})
  <2>1. \A x \in DOMAIN h : Thick(h, x) => Thick(g, x) BY DEF Adds
  <2> QED BY <1>1, <1>3, <2>1 DEF AllThick
<1> QED BY <1>6, <1>7

LEMMA Inserted ==
  ASSUME CallOK, pc \in {"insert", "split", "find"}, NEW L, AllThick(heap, {}),
         pending = <<>>, cur \in DOMAIN heap, NEW k \in Nat, InsertPlace(L, k),
         NEW M, NEW new, Adds(heap, heap', L, M, k, call.p, new, low),
         cur' = cur, low' = new, frames' = Tail(frames), pc' = "insert", call' = call,
         pending' = pending, ans' = ans, lost' = lost
  PROVE  Inv' /\ Sim
<1>1. call.op = "add" /\ call \in Calls /\ Root \in DOMAIN heap /\ call.p \in Points
      /\ lost \subseteq {TRUE}
  BY DEF CallOK, Calls
<1>2. P' = P BY DEF P
<1>3. /\ TreeOK(heap', M) /\ DOMAIN heap \subseteq DOMAIN heap' /\ new \in DOMAIN heap'
      /\ new \notin DOMAIN heap /\ Same(new, P) /\ M[new] = k
  BY DEF Adds, P
<1>4. AllThick(heap', {}) BY <1>1, AddsPoint
<1>5. Contents' = IF low = Null THEN Contents \cup {call.p} ELSE Contents
  <2>1. /\ low = Null => Holds(heap') = Holds(heap) \cup {call.p}
        /\ low # Null => Holds(heap') = Holds(heap)
    BY <1>1, AddsPoint
  <2>2. Contents = Holds(heap) /\ Contents' = Holds(heap') BY DEF Contents, Holds
  <2> QED BY <2>1, <2>2
<1>6. Contents' = call.was \cup {call.p} BY <1>5 DEF InsertPlace
<1>7. FramesOK(heap', M, P, frames', k + 1) BY KeepFrames DEF InsertPlace
<1>8. Inserting(M)'
  <2>1. low' # Null /\ M[low'] = k BY <1>3, HeapTypes DEF TreeOK
  <2>2. k + 1 \in Nat OBVIOUS
  <2>3. call'.p \notin call'.was BY DEF InsertPlace
  <2> QED BY <1>2, <1>3, <1>6, <1>7, <2>1, <2>2, <2>3 DEF Inserting
<1>9. CallOK' BY <1>1, <1>3 DEF CallOK
<1>10. Inv' BY <1>3, <1>4, <1>8, <1>9, Goes
<1>11. call.p \in Space
  <2>1. call.p \in Contents' BY <1>6
  <2> QED BY <1>3, <2>1, PointsHeld DEF Contents, Holds
<1>12. Contents' = ASet!After(call) BY <1>1, <1>6, <1>11 DEF ASet!After
<1>13. pc \notin {"idle", "return"} /\ pc' \notin {"idle", "return"} OBVIOUS
<1>14. Sim BY <1>12, <1>13, ChangeStep
<1> QED BY <1>10, <1>14

LEMMA InsertInEmptySlotStep ==
  ASSUME Inv, InsertInEmptySlot
  PROVE  Inv' /\ Sim
<1>1. /\ pc = "insert" /\ call.op = "add" /\ frames # <<>> /\ Frame.gap = 0
      /\ Slot(Frame.parent, call.p) = Null
      /\ heap' = WithPoint(heap, NewPoint, Frame.parent, low)
      /\ low' = NewPoint /\ frames' = Tail(frames) /\ pc' = pc /\ call' = call
      /\ cur' = cur /\ pending' = pending /\ lost' = lost /\ ans' = ans
  BY DEF InsertInEmptySlot, At, Pop
<1>2. CallOK /\ pc # "free" BY <1>1 DEF Inv
<1>3. PICK L : TreeOK(heap, L) /\ Located(L) BY <1>2 DEF Inv
<1>4. Inserting(L) /\ AllThick(heap, {}) /\ pending = <<>> /\ cur \in DOMAIN heap
  BY <1>1, <1>3 DEF Located, Leaves, Inserting
<1>5. PICK k \in Nat : InsertPlace(L, k) BY <1>1, <1>2, <1>3, <1>4, PlaceToInsert
<1>6. /\ WalkEndsAt(heap, L, Frame.parent, P) /\ CopyOf(heap, L, Frame.parent, P, low)
      /\ L[Frame.parent] = k /\ call.p \in Points
  BY <1>5 DEF InsertPlace
<1>7. Kid(heap, Frame.parent, QuadrantIn(Frame.parent, P)) = Null
  BY <1>1, SlotIs DEF Slot, P
<1>8. NewPoint = FreshIn(DOMAIN heap, P) BY DEF NewPoint, Fresh, P
<1>9. Adds(heap, heap', L, Alloc(L, NewPoint, k), k, call.p, NewPoint, low)
  BY <1>1, <1>3, <1>6, <1>7, <1>8, InsertPoint DEF P
<1>10. PICK M : Adds(heap, heap', L, M, k, call.p, NewPoint, low) BY <1>9
<1> QED BY <1>1, <1>2, <1>4, <1>5, <1>10, Inserted
(* The sibling-to-be of the new node.                                      *)
SiblingOK(L) ==
  /\ Sibling = Kid(heap, Frame.parent, QuadrantIn(Frame.parent, P))
  /\ Sibling \in DOMAIN heap /\ IsNode(Sibling) /\ Sibling # Null
  /\ In(Sibling, Frame.parent) /\ heap[Sibling].parent = Frame.parent
  /\ QuadrantIn(Frame.parent, Sibling) = QuadrantIn(Frame.parent, P)
  /\ L[Sibling] = L[Frame.parent] /\ Differ(P, Sibling)
  /\ Frame.parent \in DOMAIN heap /\ GridSquare(Frame.parent) /\ In(P, Frame.parent)
  /\ GridPoint(P) /\ L[Frame.parent] \in Int /\ L[Frame.parent] >= 0
LEMMA SiblingFacts ==
  ASSUME CallOK, pc \in {"insert", "split", "find"}, NEW L, TreeOK(heap, L),
         Inserting(L), frames # <<>>, Frame.gap = 0, Sibling # Null
  PROVE  SiblingOK(L)
<1> DEFINE m == Frame.parent
           s == Sibling
<1>1. PICK k \in Nat : InsertPlace(L, k) BY PlaceToInsert
<1>2. /\ m \in DOMAIN heap /\ m.square /\ L[m] >= 0 /\ In(P, m) /\ call.p \in Points
      /\ LET c == Kid(heap, m, QuadrantIn(m, P)) IN c # Null => ~In(P, c) /\ ~Same(c, P)
  BY <1>1 DEF InsertPlace, WalkEndsAt
<1>3. s = Kid(heap, m, QuadrantIn(m, P)) /\ QuadrantIn(m, P) \in Quadrants
  BY SlotIs, QuadrantType DEF Sibling, Slot, P
<1>4. IsNode(m) /\ L[m] \in Int BY <1>2, HeapTypes DEF TreeOK, LevelsOK, LevelsIn
<1>5. /\ s \in DOMAIN heap /\ L[s] = L[m] /\ In(s, m) /\ QuadrantIn(m, P) = QuadrantIn(m, s)
      /\ heap[s].parent = m /\ IsNode(s)
  BY <1>2, <1>3, ChildFacts
<1>6. ~In(P, s) /\ ~Same(s, P) BY <1>2, <1>3
<1>7. GridPoint(P) /\ P.square = FALSE /\ P.center = call.p /\ P.length = 0
  BY <1>2, PointPlace DEF P, PointAt
<1>8. Differ(P, s)
  <2>1. CASE s.square BY <1>6, <2>1 DEF Differ
  <2>2. CASE ~s.square
    <3>1. s.square = FALSE /\ s.center \in Points /\ s.length = 0
      BY <1>5, <2>2, NodeFacts
    <3>2. P.center \in Points /\ P.center # s.center BY <1>2, <1>6, <1>7, <3>1 DEF Same
    <3>3. \E i \in Dims : Cell(P.center[i]) # Cell(s.center[i])
      BY <3>1, <3>2, PointsAssumption
    <3> QED BY <2>2, <3>3 DEF Differ
  <2> QED BY <2>1, <2>2
<1>9. GridSquare(m) BY <1>2, <1>4, NodeFacts
<1> QED BY <1>2, <1>3, <1>4, <1>5, <1>7, <1>8, <1>9 DEF SiblingOK

LEMMA StartSquareStep ==
  ASSUME Inv, StartSquare
  PROVE  Inv' /\ Sim
<1>1. /\ pc = "insert" /\ call.op = "add" /\ frames # <<>> /\ Frame.gap = 0
      /\ Sibling # Null /\ sq' = FirstSquare(Frame.parent, call.p) /\ pc' = "split"
      /\ frames' = frames /\ cur' = cur /\ gap' = gap
      /\ heap' = heap /\ low' = low /\ call' = call /\ pending' = pending
      /\ lost' = lost /\ ans' = ans
  BY DEF StartSquare, At, Keeps
<1>2. CallOK /\ pc # "free" BY <1>1 DEF Inv
<1>3. PICK L : TreeOK(heap, L) /\ Located(L) BY <1>2 DEF Inv
<1>4. Inserting(L) /\ AllThick(heap, {}) BY <1>1, <1>3 DEF Located, Leaves
<1>5. SiblingOK(L) BY <1>1, <1>2, <1>3, <1>4, SiblingFacts
<1>6. P.center = call.p BY DEF P, PointAt
<1>7. GridSquare(sq') /\ In(P, sq') /\ In(Sibling, sq') /\ In(sq', Frame.parent)
  <2>1. /\ GridSquare(Frame.parent) /\ GridPoint(P) /\ In(P, Frame.parent)
        /\ Place(Sibling) /\ In(Sibling, Frame.parent)
        /\ QuadrantIn(Frame.parent, Sibling) = QuadrantIn(Frame.parent, P)
        /\ Differ(P, Sibling)
    BY <1>5 DEF SiblingOK, IsNode
  <2>2. LET f == FirstSquare(Frame.parent, P.center)
        IN GridSquare(f) /\ In(P, f) /\ In(Sibling, f) /\ In(f, Frame.parent)
    BY <2>1, HalvesAroundBoth
  <2> QED BY <1>1, <1>6, <2>2
<1>8. P' = P /\ Frame' = Frame /\ Sibling' = Sibling /\ Contents' = Contents
  BY <1>1 DEF P, Frame, Sibling, Slot, Contents
<1>9. Splitting' BY <1>1, <1>7, <1>8 DEF Splitting
<1>10. Inserting(L)' BY <1>1, <1>4, <1>8 DEF Inserting
<1>11. CallOK' BY <1>1, <1>2 DEF CallOK
<1>12. Inv' BY <1>1, <1>3, <1>4, <1>9, <1>10, <1>11, Goes
<1> QED BY <1>1, <1>8, <1>12, QuietStep DEF Quiet, Phase

LEMMA HalveSquareStep ==
  ASSUME Inv, HalveSquare
  PROVE  Inv' /\ Sim
<1>1. /\ pc = "split" /\ call.op = "add" /\ ~Parts
      /\ sq' = FirstSquare(sq, call.p) /\ pc' = pc
      /\ frames' = frames /\ cur' = cur /\ gap' = gap
      /\ heap' = heap /\ low' = low /\ call' = call /\ pending' = pending
      /\ lost' = lost /\ ans' = ans
  BY DEF HalveSquare, At, Keeps
<1>2. CallOK /\ pc # "free" BY <1>1 DEF Inv
<1>3. PICK L : TreeOK(heap, L) /\ Located(L) BY <1>2 DEF Inv
<1>4. Inserting(L) /\ Splitting /\ AllThick(heap, {}) BY <1>1, <1>3 DEF Located, Leaves
<1>5. /\ frames # <<>> /\ Frame.gap = 0 /\ Sibling # Null
      /\ GridSquare(sq) /\ In(P, sq) /\ In(Sibling, sq) /\ In(sq, Frame.parent)
  BY <1>4 DEF Splitting
<1>6. SiblingOK(L) BY <1>1, <1>2, <1>3, <1>4, <1>5, SiblingFacts
<1>7. P.center = call.p BY DEF P, PointAt
<1>8. QuadrantIn(sq, Sibling) = QuadrantIn(sq, P)
  BY <1>1, <1>7 DEF Parts, At, QuadrantIn
<1>9. GridSquare(sq') /\ In(P, sq') /\ In(Sibling, sq') /\ In(sq', Frame.parent)
  <2>1. GridPoint(P) /\ Place(Sibling) /\ Differ(P, Sibling) /\ GridSquare(Frame.parent)
    BY <1>6 DEF SiblingOK, IsNode
  <2>2. LET f == FirstSquare(sq, P.center)
        IN GridSquare(f) /\ In(P, f) /\ In(Sibling, f) /\ In(f, sq)
    BY <1>5, <1>8, <2>1, HalvesAroundBoth
  <2>3. GridSquare(sq') /\ In(P, sq') /\ In(Sibling, sq') /\ In(sq', sq)
    BY <1>1, <1>7, <2>2
  <2>4. In(sq', Frame.parent)
    BY <1>5, <2>1, <2>3, InTransitive DEF Place
  <2> QED BY <2>3, <2>4
<1>10. P' = P /\ Frame' = Frame /\ Sibling' = Sibling /\ Contents' = Contents
  BY <1>1 DEF P, Frame, Sibling, Slot, Contents
<1>11. Splitting' BY <1>1, <1>5, <1>9, <1>10 DEF Splitting
<1>12. Inserting(L)' BY <1>1, <1>4, <1>10 DEF Inserting
<1>13. CallOK' BY <1>1, <1>2 DEF CallOK
<1>14. Inv' BY <1>1, <1>3, <1>4, <1>11, <1>12, <1>13, Goes
<1> QED BY <1>1, <1>10, <1>14, QuietStep DEF Quiet, Phase

LEMMA SquareInserted ==
  ASSUME CallOK, pc \in {"split", "find"}, NEW L, TreeOK(heap, L), AllThick(heap, {}),
         Inserting(L), Splitting, QuadrantIn(sq, Sibling) # QuadrantIn(sq, P), NEW down,
         IF L[Frame.parent] = 0 THEN down = Null
         ELSE down \in DOMAIN heap /\ Same(down, sq) /\ L[down] = L[Frame.parent] - 1,
         InsertSquare(down)
  PROVE  Inv' /\ Sim
<1>1. /\ frames # <<>> /\ Frame.gap = 0 /\ Sibling # Null
      /\ GridSquare(sq) /\ In(P, sq) /\ In(Sibling, sq) /\ In(sq, Frame.parent)
  BY DEF Splitting
<1>2. SiblingOK(L) BY <1>1, SiblingFacts
<1>3. PICK k \in Nat : InsertPlace(L, k) BY <1>1, PlaceToInsert
<1>4. /\ WalkEndsAt(heap, L, Frame.parent, P) /\ CopyOf(heap, L, Frame.parent, P, low)
      /\ L[Frame.parent] = k /\ call.p \in Points
  BY <1>3 DEF InsertPlace
<1>5. /\ Sibling = Kid(heap, Frame.parent, QuadrantIn(Frame.parent, P))
      /\ Sibling \in DOMAIN heap /\ heap[Sibling].parent = Frame.parent
      /\ Frame.parent \in DOMAIN heap /\ L[Frame.parent] >= 0
  BY <1>2 DEF SiblingOK
<1>6. Between(heap, L, sq, Frame.parent, Sibling, down) BY <1>1, <1>5 DEF Between
<1>7. /\ heap' = WithSquare(heap, NewPoint, low, Frame.parent, Sibling, NewSquare, down)
      /\ low' = NewPoint /\ frames' = Tail(frames) /\ pc' = "insert"
      /\ cur' = cur /\ call' = call /\ pending' = pending /\ lost' = lost /\ ans' = ans
  BY DEF InsertSquare, Pop
<1>8. NewPoint = FreshIn(DOMAIN heap, P) /\ NewSquare = FreshIn(DOMAIN heap, sq)
  BY DEF NewPoint, NewSquare, Fresh, P
<1>9. \E M : Adds(heap, heap', L, M, k, call.p, NewPoint, low)
  <2>1. Adds(heap, WithSquare(heap, NewPoint, low, Frame.parent, Sibling, NewSquare, down),
             L, Alloc(Alloc(L, NewSquare, L[Frame.parent]), NewPoint, L[Frame.parent]),
             L[Frame.parent], call.p, NewPoint, low)
    BY <1>1, <1>4, <1>5, <1>6, <1>8, InsertSquareIs DEF P
  <2> QED BY <1>4, <1>7, <2>1
<1>10. PICK M : Adds(heap, heap', L, M, k, call.p, NewPoint, low) BY <1>9
<1>11. pending = <<>> /\ cur \in DOMAIN heap BY DEF Inserting
<1> QED BY <1>3, <1>7, <1>10, <1>11, Inserted

LEMMA SplitBottomStep ==
  ASSUME Inv, SplitBottom
  PROVE  Inv' /\ Sim
<1>1. /\ pc = "split" /\ call.op = "add" /\ heap[Frame.parent].down = Null
      /\ QuadrantIn(sq, Sibling) # QuadrantIn(sq, P) /\ InsertSquare(Null)
  BY SlotIs DEF SplitBottom, Parts, At, P
<1>2. CallOK /\ pc # "free" BY <1>1 DEF Inv
<1>3. PICK L : TreeOK(heap, L) /\ Located(L) BY <1>2 DEF Inv
<1>4. Inserting(L) /\ Splitting /\ AllThick(heap, {}) BY <1>1, <1>3 DEF Located, Leaves
<1>5. SiblingOK(L) BY <1>1, <1>2, <1>3, <1>4, SiblingFacts DEF Splitting
<1>6. L[Frame.parent] = 0
  BY <1>1, <1>3, <1>5, DownFacts DEF SiblingOK, Stands, GridSquare
<1> QED BY <1>1, <1>2, <1>3, <1>4, <1>6, SquareInserted

LEMMA SplitUpperStep ==
  ASSUME Inv, SplitUpper
  PROVE  Inv' /\ Sim
<1>1. /\ pc = "split" /\ call.op = "add" /\ heap[Frame.parent].down # Null
      /\ QuadrantIn(sq, Sibling) # QuadrantIn(sq, P)
      /\ cur' = heap[Frame.parent].down /\ pc' = "find"
      /\ frames' = frames /\ gap' = gap /\ sq' = sq
      /\ heap' = heap /\ low' = low /\ call' = call /\ pending' = pending
      /\ lost' = lost /\ ans' = ans
  BY SlotIs DEF SplitUpper, Parts, At, P, Keeps
<1>2. CallOK /\ pc # "free" BY <1>1 DEF Inv
<1>3. PICK L : TreeOK(heap, L) /\ Located(L) BY <1>2 DEF Inv
<1>4. Inserting(L) /\ Splitting /\ AllThick(heap, {}) BY <1>1, <1>3 DEF Located, Leaves
<1>5. SiblingOK(L) BY <1>1, <1>2, <1>3, <1>4, SiblingFacts DEF Splitting
<1>6. Stands(heap, L, Frame.parent) BY <1>5 DEF SiblingOK, Stands, GridSquare
<1> DEFINE d == heap[Frame.parent].down
<1>7. Stands(heap, L, d) /\ Same(Frame.parent, d) /\ L[Frame.parent] = L[d] + 1
  BY <1>1, <1>3, <1>6, DownFacts
<1>8. In(sq, d) BY <1>4, <1>7, InSame, SameIsEquivalence DEF Splitting
<1>9. P' = P /\ Frame' = Frame /\ Sibling' = Sibling /\ Contents' = Contents
  BY <1>1 DEF P, Frame, Sibling, Slot, Contents
<1>10. Splitting' BY <1>1, <1>4, <1>9 DEF Splitting
<1>11. Inserting(L)' BY <1>1, <1>4, <1>7, <1>9 DEF Inserting, Stands
<1>12. Finding(L)' BY <1>1, <1>7, <1>8, <1>9 DEF Finding
<1>13. CallOK' BY <1>1, <1>2 DEF CallOK
<1>14. Inv' BY <1>1, <1>3, <1>4, <1>10, <1>11, <1>12, <1>13, Goes
<1> QED BY <1>1, <1>9, <1>14, QuietStep DEF Quiet, Phase

(* The square that the loop looks for is on the level below, where the     *)
(* copies of the two nodes part.                                           *)
LEMMA SquareBelow ==
  ASSUME CallOK, pc = "find", NEW L, TreeOK(heap, L), Inserting(L), Splitting, Finding(L)
  PROVE  \E x \in DOMAIN heap : Same(x, sq) /\ L[x] = L[cur]
<1>1. /\ frames # <<>> /\ Frame.gap = 0 /\ Sibling # Null
      /\ GridSquare(sq) /\ In(P, sq) /\ In(Sibling, sq)
  BY DEF Splitting
<1>2. SiblingOK(L) BY <1>1, SiblingFacts
<1>3. PICK k \in Nat : InsertPlace(L, k) BY <1>1, PlaceToInsert
<1>4. /\ L[Frame.parent] = L[cur] + 1 /\ Stands(heap, L, cur)
      /\ QuadrantIn(sq, Sibling) # QuadrantIn(sq, P)
  BY DEF Finding
<1>5. L[cur] \in Int /\ L[cur] >= 0 BY <1>4, DownFacts DEF Stands
<1>6. low \in DOMAIN heap /\ Same(low, P) /\ L[low] = L[cur]
  <2>1. L[Frame.parent] # 0 /\ CopyOf(heap, L, Frame.parent, P, low)
    BY <1>3, <1>4, <1>5 DEF InsertPlace
  <2> QED BY <1>4, <1>5, <2>1 DEF CopyOf
<1> DEFINE b == heap[Sibling].down
<1>7. b \in DOMAIN heap /\ Same(Sibling, b) /\ L[b] = L[cur]
  <2>1. Sibling \in DOMAIN heap /\ L[Sibling] = L[cur] + 1 BY <1>2, <1>4 DEF SiblingOK
  <2>2. L[Sibling] > 0 BY <1>5, <2>1
  <2>3. b \in DOMAIN heap /\ Same(Sibling, b) /\ L[b] = L[Sibling] - 1
    BY <2>1, <2>2, DownStep
  <2> QED BY <1>5, <2>1, <2>3
<1>8. Parted(b, low, sq)
  <2>1. Same(sq, sq) /\ Same(P, low) BY <1>6, SameIsEquivalence
  <2>2. In(b, sq) /\ QuadrantIn(sq, b) = QuadrantIn(sq, Sibling)
    BY <1>1, <1>7, <2>1, InSame
  <2>3. In(low, sq) /\ QuadrantIn(sq, low) = QuadrantIn(sq, P)
    BY <1>1, <2>1, InSame
  <2> QED BY <1>4, <2>2, <2>3 DEF Parted
<1>9. Level(L, b, low) BY <1>5, <1>6, <1>7 DEF Level
<1>10. \E s \in DOMAIN heap : Level(L, s, b) /\ Same(s, sq)
  BY <1>1, <1>6, <1>7, <1>8, <1>9 DEF TreeOK, PartedOK
<1> QED BY <1>7, <1>10 DEF Level

LEMMA FindDownStep ==
  ASSUME Inv, FindDown
  PROVE  Inv' /\ Sim
<1>1. /\ pc = "find" /\ call.op = "add" /\ ~SameSquare(cur, sq)
      /\ cur' = Slot(cur, sq.center) /\ pc' = pc
      /\ frames' = frames /\ gap' = gap /\ sq' = sq
      /\ heap' = heap /\ low' = low /\ call' = call /\ pending' = pending
      /\ lost' = lost /\ ans' = ans
  BY DEF FindDown, At, Keeps
<1>2. CallOK /\ pc # "free" BY <1>1 DEF Inv
<1>3. PICK L : TreeOK(heap, L) /\ Located(L) BY <1>2 DEF Inv
<1>4. Inserting(L) /\ Splitting /\ Finding(L) /\ AllThick(heap, {})
  BY <1>1, <1>3 DEF Located, Leaves
<1>5. PICK x \in DOMAIN heap : Same(x, sq) /\ L[x] = L[cur]
  BY <1>1, <1>2, <1>3, <1>4, SquareBelow
<1>6. /\ Stands(heap, L, cur) /\ cur \in DOMAIN heap /\ L[cur] >= 0
      /\ (In(sq, cur) \/ Same(sq, cur)) /\ L[Frame.parent] = L[cur] + 1
      /\ QuadrantIn(sq, Sibling) # QuadrantIn(sq, P) /\ GridSquare(sq)
  BY <1>4 DEF Finding, Stands, Splitting
<1>7. GridSquare(cur)
  <2>1. IsNode(cur) /\ cur.square BY <1>3, <1>6, HeapTypes DEF TreeOK, Stands
  <2> QED BY <2>1, NodeFacts
<1>8. In(sq, cur)
  <2>1. ~Same(cur, sq) BY <1>1, <1>6, <1>7, FindsSquare
  <2> QED BY <1>6, <2>1, SameIsEquivalence
<1>9. In(x, cur) /\ Level(L, cur, x) /\ QuadrantIn(cur, x) = QuadrantIn(cur, sq)
  BY <1>5, <1>6, <1>8, InSame, SameIsEquivalence DEF Level
<1> DEFINE c == Kid(heap, cur, QuadrantIn(cur, x))
<1>10. c \in DOMAIN heap /\ L[c] = L[cur] /\ (c = x \/ In(x, c))
  BY <1>3, <1>6, <1>9, Towards
<1>11. cur' = c BY <1>1, <1>9 DEF Slot, SlotIn, Kid, QuadrantIn
<1>12. Same(sq, c) \/ In(sq, c) BY <1>5, <1>10, InSame, SameIsEquivalence
<1>13. Stands(heap, L, c)
  <2>1. c.square BY <1>6, <1>12 DEF Same, In, GridSquare
  <2> QED BY <1>6, <1>10, <2>1 DEF Stands
<1>14. P' = P /\ Frame' = Frame /\ Sibling' = Sibling /\ Contents' = Contents
  BY <1>1 DEF P, Frame, Sibling, Slot, Contents
<1>15. Splitting' BY <1>1, <1>4, <1>14 DEF Splitting
<1>16. Inserting(L)'
  <2> HIDE DEF c
  <2> QED BY <1>1, <1>4, <1>10, <1>11, <1>14 DEF Inserting
<1>17. Finding(L)'
  <2> HIDE DEF c
  <2> QED BY <1>1, <1>6, <1>10, <1>11, <1>12, <1>13, <1>14 DEF Finding
<1>18. CallOK' BY <1>1, <1>2 DEF CallOK
<1>19. Inv' BY <1>1, <1>3, <1>4, <1>15, <1>16, <1>17, <1>18, Goes
<1> QED BY <1>1, <1>14, <1>19, QuietStep DEF Quiet, Phase

LEMMA FoundDownStep ==
  ASSUME Inv, FoundDown
  PROVE  Inv' /\ Sim
<1>1. pc = "find" /\ call.op = "add" /\ SameSquare(cur, sq) /\ InsertSquare(cur)
  BY DEF FoundDown, At
<1>2. CallOK /\ pc # "free" BY <1>1 DEF Inv
<1>3. PICK L : TreeOK(heap, L) /\ Located(L) BY <1>2 DEF Inv
<1>4. Inserting(L) /\ Splitting /\ Finding(L) /\ AllThick(heap, {})
  BY <1>1, <1>3 DEF Located, Leaves
<1>5. /\ Stands(heap, L, cur) /\ cur \in DOMAIN heap /\ L[cur] >= 0
      /\ (In(sq, cur) \/ Same(sq, cur)) /\ L[Frame.parent] = L[cur] + 1
      /\ QuadrantIn(sq, Sibling) # QuadrantIn(sq, P) /\ GridSquare(sq)
  BY <1>4 DEF Finding, Stands, Splitting
<1>6. GridSquare(cur) /\ L[cur] \in Int
  <2>1. IsNode(cur) /\ cur.square BY <1>3, <1>5, HeapTypes DEF TreeOK, Stands
  <2> QED BY <1>3, <1>5, <2>1, NodeFacts, DownFacts
<1>7. Same(cur, sq) BY <1>1, <1>5, <1>6, FindsSquare
<1>8. L[Frame.parent] # 0 /\ L[cur] = L[Frame.parent] - 1 BY <1>5, <1>6
<1> QED BY <1>1, <1>2, <1>3, <1>4, <1>5, <1>7, <1>8, SquareInserted

LEMMA AddDoneStep ==
  ASSUME Inv, AddDone
  PROVE  Inv' /\ Sim
<1>1. pc = "insert" /\ call.op = "add" /\ frames = <<>> /\ Finish(low # Null)
  BY DEF AddDone, At
<1>2. CallOK /\ pc # "free" BY <1>1 DEF Inv
<1>3. PICK L : TreeOK(heap, L) /\ Located(L) BY <1>2 DEF Inv
<1>4. Inserting(L) /\ AllThick(heap, {}) BY <1>1, <1>3 DEF Located, Leaves
<1>5. low # Null /\ call.p \notin call.was /\ Contents = call.was \cup {call.p}
  BY <1>1, <1>4 DEF Inserting
<1>6. Contents \subseteq Space BY <1>3, PointsHeld DEF Contents, Holds
<1>7. Contents = ASet!After(call) /\ ASet!MayAnswer(call, TRUE) /\ Finish(TRUE)
  BY <1>1, <1>5, <1>6 DEF ASet!After, ASet!MayAnswer
<1> QED BY <1>1, <1>2, <1>3, <1>4, <1>7, Finishing
-----------------------------------------------------------------------------
(* What a removal has pending: the nodes to visit before the rest s.       *)
LEMMA Reseq ==
  ASSUME NEW S, NEW s \in Seq(S), NEW T, \A i \in 1..Len(s) : s[i] \in T
  PROVE  s \in Seq(T)
OBVIOUS

LEMMA VisitIs ==
  ASSUME NEW S, NEW a, a # Null => a \in S
  PROVE  /\ Visit(a) \in Seq(S) /\ Len(Visit(a)) = IF a = Null THEN 0 ELSE 1
         /\ a # Null => Visit(a)[1] = a
<1>1. CASE a = Null
  <2>1. Visit(a) = <<>> BY <1>1 DEF Visit
  <2>2. <<>> \in Seq(S) /\ Len(<<>>) = 0 OBVIOUS
  <2> QED BY <1>1, <2>1, <2>2
<1>2. CASE a # Null
  <2>1. Visit(a) = <<a>> BY <1>2 DEF Visit
  <2>2. a \in S BY <1>2
  <2>3. <<a>> \in Seq(S) /\ Len(<<a>>) = 1 /\ <<a>>[1] = a BY <2>2
  <2> QED BY <1>2, <2>1, <2>3
<1> QED BY <1>1, <1>2

LEMMA Joined ==
  ASSUME NEW S, NEW s \in Seq(S), NEW t \in Seq(S)
  PROVE  /\ s \o t \in Seq(S) /\ Len(s \o t) = Len(s) + Len(t)
         /\ Len(s) \in Nat /\ Len(t) \in Nat
         /\ \A i \in 1..Len(s) : (s \o t)[i] = s[i]
         /\ \A i \in 1..Len(t) : (s \o t)[Len(s) + i] = t[i]
OBVIOUS

Queued(t, a, b, c, s) ==
  LET one(x) == IF x = Null THEN 0 ELSE 1 IN
  /\ Len(t) = one(a) + one(b) + one(c) + Len(s)
  /\ a # Null => t[1] = a
  /\ b # Null => t[one(a) + 1] = b
  /\ c # Null => t[one(a) + one(b) + 1] = c
  /\ \A i \in 1..Len(s) : t[one(a) + one(b) + one(c) + i] = s[i]
LEMMA QueuedIs ==
  ASSUME NEW S, NEW a, NEW b, NEW c, a # Null => a \in S, b # Null => b \in S,
         c # Null => c \in S, NEW s \in Seq(S)
  PROVE  LET t == ((Visit(a) \o Visit(b)) \o Visit(c)) \o s
         IN t \in Seq(S) /\ Queued(t, a, b, c, s) /\ Len(s) \in Nat
<1> DEFINE A == Visit(a)
           B == Visit(b)
           C == Visit(c)
           AB == A \o B
           ABC == AB \o C
           t == ABC \o s
<1>1. A \in Seq(S) /\ Len(A) = (IF a = Null THEN 0 ELSE 1) /\ (a # Null => A[1] = a)
  BY VisitIs
<1>2. B \in Seq(S) /\ Len(B) = (IF b = Null THEN 0 ELSE 1) /\ (b # Null => B[1] = b)
  BY VisitIs
<1>3. C \in Seq(S) /\ Len(C) = (IF c = Null THEN 0 ELSE 1) /\ (c # Null => C[1] = c)
  BY VisitIs
<1> HIDE DEF A, B, C
<1>4. /\ AB \in Seq(S) /\ Len(AB) = Len(A) + Len(B)
      /\ \A i \in 1..Len(A) : AB[i] = A[i]
      /\ \A i \in 1..Len(B) : AB[Len(A) + i] = B[i]
  BY <1>1, <1>2, Joined
<1> HIDE DEF AB
<1>5. /\ ABC \in Seq(S) /\ Len(ABC) = Len(AB) + Len(C)
      /\ \A i \in 1..Len(AB) : ABC[i] = AB[i]
      /\ \A i \in 1..Len(C) : ABC[Len(AB) + i] = C[i]
  <2>1. AB \in Seq(S) /\ C \in Seq(S) BY <1>3, <1>4
  <2> QED BY <2>1, Joined
<1> HIDE DEF ABC
<1>6. /\ t \in Seq(S) /\ Len(t) = Len(ABC) + Len(s) /\ Len(s) \in Nat
      /\ \A i \in 1..Len(ABC) : t[i] = ABC[i]
      /\ \A i \in 1..Len(s) : t[Len(ABC) + i] = s[i]
  <2>1. ABC \in Seq(S) BY <1>5
  <2> QED BY <2>1, Joined
<1> HIDE DEF t
<1>7. a # Null => t[1] = a BY <1>1, <1>2, <1>3, <1>4, <1>5, <1>6
<1>8. b # Null => t[Len(A) + 1] = b BY <1>1, <1>2, <1>3, <1>4, <1>5, <1>6
<1>9. c # Null => t[Len(AB) + 1] = c BY <1>1, <1>2, <1>3, <1>4, <1>5, <1>6
<1>10. Queued(t, a, b, c, s)
  BY <1>1, <1>2, <1>3, <1>4, <1>5, <1>6, <1>7, <1>8, <1>9 DEF Queued
<1>11. t = ((Visit(a) \o Visit(b)) \o Visit(c)) \o s BY DEF t, ABC, AB, A, B, C
<1> QED BY <1>6, <1>10, <1>11
(* What is left after the first pending node stays, or is taken out.       *)
Pends(h, L, p, todo) ==
  PendingOK(h, L, p, todo) /\ AllThick(h, IF todo # <<>> THEN {Head(todo)} ELSE {})

LEMMA FirstPending ==
  ASSUME NEW h, NEW L, TreeOK(h, L), NEW pp \in Points,
         NEW todo, Pends(h, L, PointAt(pp), todo), todo # <<>>
  PROVE  LET n == Head(todo) p == PointAt(pp)
         IN /\ n \in DOMAIN h /\ n = todo[1] /\ AllThick(h, {n}) /\ L[n] \in Int
            /\ Tail(todo) \in Seq(DOMAIN h) /\ Len(todo) \in Nat \ {0}
            /\ Len(Tail(todo)) = Len(todo) - 1
            /\ \A i \in 1..Len(Tail(todo)) : Tail(todo)[i] = todo[i + 1]
            /\ IF n.square THEN StaysIn(h, n) \/ Leaving(h, L, p, todo)
               ELSE Len(todo) = 1 /\ Target(h, L, p, n)
<1> DEFINE D == DOMAIN h
<1>1. todo \in Seq(D) BY DEF Pends, PendingOK
<1>2. /\ Len(todo) \in Nat \ {0} /\ Head(todo) = todo[1] /\ Head(todo) \in D
      /\ Tail(todo) \in Seq(D) /\ Len(Tail(todo)) = Len(todo) - 1
      /\ \A i \in 1..(Len(todo) - 1) : Tail(todo)[i] = todo[i + 1]
  <2> HIDE DEF D
  <2> QED BY <1>1, Popped
<1>3. 1 \in 1..Len(todo) BY <1>2
<1>4. IF todo[1].square THEN StaysIn(h, todo[1]) \/ Leaving(h, L, PointAt(pp), todo)
      ELSE 1 = Len(todo) /\ Target(h, L, PointAt(pp), todo[1])
  BY <1>3 DEF Pends, PendingOK
<1>5. AllThick(h, {Head(todo)}) BY DEF Pends
<1>6. L[Head(todo)] \in Int BY <1>2 DEF TreeOK, LevelsOK, LevelsIn
<1> QED BY <1>2, <1>4, <1>5, <1>6

LEMMA TakesStaying ==
  ASSUME NEW h, NEW L, TreeOK(h, L), NEW pp \in Points,
         NEW todo, Pends(h, L, PointAt(pp), todo), todo # <<>>, StaysIn(h, Head(todo))
  PROVE  Pends(h, L, PointAt(pp), Tail(todo))
<1> DEFINE n == Head(todo)
           p == PointAt(pp)
           t == Tail(todo)
<1>1. /\ n \in DOMAIN h /\ n = todo[1] /\ AllThick(h, {n})
      /\ t \in Seq(DOMAIN h) /\ Len(todo) \in Nat \ {0} /\ Len(t) = Len(todo) - 1
      /\ \A i \in 1..Len(t) : t[i] = todo[i + 1]
  BY FirstPending
<1>2. h[n].parent = Null <=> IsRoot(n) BY <1>1 DEF TreeOK, LevelsOK, LevelsIn
<1>3. n.square BY <1>2, RootFacts DEF StaysIn
<1>4. IsRoot(n) \/ Thick(h, n)
  <2>1. Count(h, n) > 1 => Thick(h, n) BY <1>1, CountFacts DEF TreeOK, LinksOK
  <2> QED BY <1>2, <2>1 DEF StaysIn
<1>5. AllThick(h, {}) BY <1>1, <1>4 DEF AllThick
<1> HIDE DEF t, n
<1>6. ASSUME NEW i \in 1..Len(t)
      PROVE  IF t[i].square THEN StaysIn(h, t[i])
             ELSE i = Len(t) /\ Target(h, L, p, t[i])
  <2>1. i + 1 \in 1..Len(todo) /\ i + 1 # 1 /\ t[i] = todo[i + 1] /\ i \in Nat BY <1>1
  <2>2. IF todo[i + 1].square THEN StaysIn(h, todo[i + 1])
        ELSE i + 1 = Len(todo) /\ Target(h, L, p, todo[i + 1])
    BY <2>1 DEF Pends, PendingOK
  <2> QED BY <1>1, <2>1, <2>2
<1>7. ASSUME Copied(h, p) PROVE t # <<>> /\ Target(h, L, p, t[Len(t)])
  <2>1. Target(h, L, p, todo[Len(todo)]) BY <1>7 DEF Pends, PendingOK
  <2>2. Len(todo) # 1
    <3>1. Len(todo) = 1 => Same(n, p) BY <1>1, <2>1 DEF Target
    <3> QED BY <1>3, <3>1, PointPlace DEF Same
  <2>3. Len(t) \in 1..Len(t) /\ Len(t) + 1 = Len(todo) /\ t # <<>> BY <1>1, <2>2
  <2> QED BY <1>1, <2>1, <2>3
<1>8. PendingOK(h, L, p, t) BY <1>1, <1>6, <1>7 DEF PendingOK
<1>9. AllThick(h, IF t # <<>> THEN {Head(t)} ELSE {}) BY <1>5 DEF AllThick
<1> QED BY <1>8, <1>9 DEF Pends, t
Taken(h, g, p, t) ==
  /\ \E M : TreeOK(g, M) /\ Pends(g, M, p, t)
  /\ Root \in DOMAIN h => Root \in DOMAIN g
  /\ Copied(g, p) => Copied(h, p) /\ Holds(g) = Holds(h)
  /\ ~Copied(g, p) => Holds(g) = Holds(h) \ {p.center}

LEMMA HoldsWithout ==
  ASSUME NEW h, NEW L, TreeOK(h, L), NEW g, NEW M, TreeOK(g, M),
         NEW n \in DOMAIN h, DOMAIN g = DOMAIN h \ {n}, NEW pp \in Points,
         n.square \/ Same(n, PointAt(pp))
  PROVE  /\ Copied(g, PointAt(pp)) => Copied(h, PointAt(pp)) /\ Holds(g) = Holds(h)
         /\ ~Copied(g, PointAt(pp)) => Holds(g) = Holds(h) \ {pp}
<1> DEFINE p == PointAt(pp)
<1>1. p.center = pp /\ p.square = FALSE BY PointPlace
<1>2. /\ \A r \in Points : r \in Holds(h) <=> Copied(h, PointAt(r))
      /\ Holds(h) \subseteq Points
  BY PointsHeld DEF Space
<1>3. /\ \A r \in Points : r \in Holds(g) <=> Copied(g, PointAt(r))
      /\ Holds(g) \subseteq Points
  BY PointsHeld DEF Space
<1>4. Copied(g, p) => Copied(h, p) BY DEF Copied
<1>5. ASSUME NEW r \in Points, r # pp PROVE r \in Holds(g) <=> r \in Holds(h)
  <2>1. PointAt(r).center = r /\ PointAt(r).square = FALSE BY PointPlace
  <2>2. ~Same(n, PointAt(r)) BY <1>1, <1>5, <2>1 DEF Same
  <2>3. Copied(g, PointAt(r)) <=> Copied(h, PointAt(r)) BY <2>2 DEF Copied
  <2> QED BY <1>2, <1>3, <2>3
<1>6. pp \in Holds(g) <=> Copied(g, p) BY <1>3
<1>7. pp \in Holds(h) <=> Copied(h, p) BY <1>2
<1> HIDE DEF p
<1>8. Copied(g, p) => Holds(g) = Holds(h) BY <1>2, <1>3, <1>4, <1>5, <1>6, <1>7
<1>9. ~Copied(g, p) => Holds(g) = Holds(h) \ {pp} BY <1>2, <1>3, <1>5, <1>6
<1> QED BY <1>4, <1>8, <1>9 DEF p

(* The copy n of p: what is left of its parent m, and the copy below it.   *)
InParent(h, L, n, m) ==
  /\ n \in DOMAIN h /\ n.square = FALSE /\ CutPlace(h, n, Null)
  /\ m \in DOMAIN h /\ m # n /\ L[m] = L[n] /\ m.square
  /\ L[n] >= 0 /\ L[n] \in Int
  /\ Kid(h, m, QuadrantIn(m, n)) = n /\ QuadrantIn(m, n) \in Quadrants
  /\ h[n].down = Null <=> L[n] = 0
LEMMA HighestCopy ==
  ASSUME NEW h, NEW L, TreeOK(h, L), NEW pp \in Points, NEW n,
         Target(h, L, PointAt(pp), n)
  PROVE  InParent(h, L, n, h[n].parent)
<1> DEFINE D == DOMAIN h
           m == h[n].parent
           p == PointAt(pp)
<1>1. /\ n \in D /\ Same(n, p) /\ L[n] >= 0 /\ \A y \in D : Same(y, p) => L[y] <= L[n]
      /\ n.square = FALSE
  BY PointPlace DEF Target, Same
<1>2. HeapOK(h) /\ LinksOK(h) /\ LevelsIn(h, L) BY DEF TreeOK, LevelsOK
<1>3. Null \notin D /\ m \in D \cup {Null} /\ h[n].up \in D \cup {Null} /\ L[n] \in Int
  BY <1>1, <1>2, HeapTypes DEF LevelsIn
<1>4. m # Null BY <1>1, <1>2, RootFacts DEF LevelsIn
<1>5. Kid(h, m, QuadrantIn(m, n)) = n /\ QuadrantIn(m, n) \in Quadrants
  BY <1>1, <1>2, <1>4, QuadrantType DEF LinksOK, ParentsOK
<1>6. m \in D /\ m.square /\ L[m] = L[n]
  BY <1>1, <1>2, <1>3, <1>4, <1>5 DEF LinksOK, KidsOK, LevelsIn
<1>7. h[n].up = Null
  <2> SUFFICES ASSUME h[n].up # Null PROVE FALSE OBVIOUS
  <2> DEFINE u == h[n].up
  <2>1. u \in D /\ h[u].down = n BY <1>1, <1>2, <1>3 DEF LinksOK, UpsOK
  <2>2. Same(u, n) /\ L[u] = L[n] + 1
    BY <1>1, <1>2, <1>3, <2>1 DEF LinksOK, DownsOK, LevelsIn
  <2>3. Same(u, p) BY <1>1, <2>2, SameIsEquivalence
  <2> QED BY <1>1, <1>3, <2>1, <2>2, <2>3
<1>8. \A q \in Quadrants : Kid(h, n, q) = Null BY <1>1, <1>2 DEF LinksOK, KidsOK
<1>9. CutPlace(h, n, Null) BY <1>1, <1>4, <1>7, <1>8 DEF CutPlace
<1>10. h[n].down = Null <=> L[n] = 0 BY <1>1, <1>2 DEF LevelsIn
<1> QED BY <1>1, <1>3, <1>5, <1>6, <1>9, <1>10 DEF InParent

(* A square of the highest copy's level above which there is one: both     *)
(* have a child in both of the quadrants, and none is a copy's parent.     *)
LEMMA NotUnderSquare ==
  ASSUME NEW h, NEW L, TreeOK(h, L), NEW pp \in Points, NEW n,
         Target(h, L, PointAt(pp), n), NEW u \in DOMAIN h, NEW m \in DOMAIN h,
         h[n].parent = m, h[u].down = m, NEW q \in Quadrants, Kid(h, u, q) # Null
  PROVE  Kid(h, m, q) # Null /\ q # QuadrantIn(m, n)
<1> DEFINE D == DOMAIN h
           p == PointAt(pp)
           a == Kid(h, u, q)
           b == h[a].down
<1>1. HeapOK(h) /\ LinksOK(h) /\ LevelsIn(h, L) BY DEF TreeOK, LevelsOK
<1>2. /\ n \in D /\ n.square = FALSE /\ L[m] = L[n] /\ m.square /\ L[n] >= 0
      /\ L[n] \in Int /\ Kid(h, m, QuadrantIn(m, n)) = n
  <2>1. InParent(h, L, n, h[n].parent) BY HighestCopy
  <2> QED BY <2>1 DEF InParent
<1>3. Same(u, m) /\ L[u] = L[m] + 1 /\ Null \notin D /\ m # Null
  BY <1>1, <1>2, HeapTypes DEF LinksOK, DownsOK, LevelsIn
<1>4. a \in D /\ L[a] = L[u] /\ In(a, u) /\ q = QuadrantIn(u, a) BY ChildFacts
<1>5. b \in D /\ Same(a, b) /\ L[b] = L[a] - 1
  <2>1. L[a] > 0 BY <1>2, <1>3, <1>4
  <2> QED BY <1>4, <2>1, DownStep
<1>6. In(b, m) /\ QuadrantIn(m, b) = q
  <2>1. In(b, u) BY <1>4, <1>5 DEF In, Same
  <2> QED BY <1>3, <1>4, <1>5, <2>1 DEF In, Same, in_range, QuadrantIn
<1>7. L[b] = L[m] BY <1>2, <1>3, <1>4, <1>5
<1> HIDE DEF b, a
<1>8. Kid(h, m, q) \in D /\ (Kid(h, m, q) = b \/ In(b, Kid(h, m, q)))
  <2>1. Level(L, m, b) /\ In(b, m) BY <1>2, <1>6, <1>7 DEF Level
  <2>2. LET c == Kid(h, m, QuadrantIn(m, b)) IN c \in D /\ (c = b \/ In(b, c))
    BY <1>5, <2>1, Towards
  <2> QED BY <1>6, <2>2
<1>9. ASSUME q = QuadrantIn(m, n) PROVE FALSE
  <2>1. n = b \/ In(b, n) BY <1>2, <1>8, <1>9
  <2>2. n = b BY <1>2, <2>1 DEF In
  <2>3. Same(a, p)
    <3>1. Same(n, p) BY DEF Target
    <3> QED BY <1>5, <2>2, <3>1, SameIsEquivalence
  <2>4. L[a] <= L[n] BY <1>4, <2>3 DEF Target, a
  <2> QED BY <1>2, <1>3, <1>4, <2>4
<1> QED BY <1>3, <1>8, <1>9
(* The parent m, when it has one child left, is a root or about to go.     *)
LEMMA ParentLeaves ==
  ASSUME NEW h, NEW L, TreeOK(h, L), NEW pp \in Points, NEW n,
         Target(h, L, PointAt(pp), n), AllThick(h, {n}), NEW g, CutShape(h, g, n, Null),
         NEW m, m = h[n].parent, ~Thick(g, m), ~IsRoot(m)
  PROVE  /\ g[m].up = Null
         /\ \E q \in Quadrants : Kid(g, m, q) # Null
         /\ g[m].down # Null => Thick(g, g[m].down)
<1> DEFINE D == DOMAIN h
<1>1. InParent(h, L, n, m) BY HighestCopy
<1>2. /\ n \in D /\ n.square = FALSE /\ m \in D /\ m # n /\ L[m] = L[n] /\ m.square
      /\ L[n] >= 0 /\ L[n] \in Int /\ Kid(h, m, QuadrantIn(m, n)) = n
      /\ CutPlace(h, n, Null)
  BY <1>1 DEF InParent
<1>3. /\ HeapOK(h) /\ LinksOK(h) /\ LevelsIn(h, L) /\ Null \notin D
      /\ \A x \in D : h[x].up \in D \cup {Null} /\ h[x].down \in D \cup {Null}
  BY HeapTypes DEF TreeOK, LevelsOK
<1>4. /\ g[m].up = (IF m = h[n].down THEN Null ELSE h[m].up)
      /\ g[m].down = h[m].down
      /\ \A x \in D \ {n}, r \in Quadrants :
           Kid(g, x, r) = IF x = m /\ r = QuadrantIn(m, n) THEN Null ELSE Kid(h, x, r)
  BY <1>2 DEF CutShape
<1>5. \A x \in D : x.square /\ ~IsRoot(x) => Thick(h, x)
  BY <1>2 DEF AllThick
<1>6. PICK q \in Quadrants, r \in Quadrants : q # r /\ Kid(h, m, q) # Null /\ Kid(h, m, r) # Null
  BY <1>2, <1>5 DEF Thick
<1>7. \E s \in Quadrants : Kid(g, m, s) # Null BY <1>2, <1>4, <1>6
<1>8. ASSUME h[m].up # Null PROVE FALSE
  <2> DEFINE u == h[m].up
  <2>1. u \in D /\ h[u].down = m BY <1>2, <1>3, <1>8 DEF LinksOK, UpsOK
  <2>2. Same(u, m) BY <1>2, <1>3, <2>1 DEF LinksOK, DownsOK
  <2>3. u.square /\ ~IsRoot(u)
    <3>1. Same(m, u) BY <2>2, SameIsEquivalence
    <3> QED BY <1>2, <2>2, <3>1, SameIsEquivalence DEF IsRoot, Same
  <2>4. PICK v \in Quadrants, w \in Quadrants :
          v # w /\ Kid(h, u, v) # Null /\ Kid(h, u, w) # Null
    BY <1>5, <2>1, <2>3 DEF Thick
  <2> HIDE DEF u
  <2>5. Kid(h, m, v) # Null /\ v # QuadrantIn(m, n)
    BY <1>2, <2>1, <2>4, NotUnderSquare
  <2>6. Kid(h, m, w) # Null /\ w # QuadrantIn(m, n)
    BY <1>2, <2>1, <2>4, NotUnderSquare
  <2>7. Kid(g, m, v) # Null /\ Kid(g, m, w) # Null BY <1>2, <1>4, <2>5, <2>6
  <2> QED BY <2>4, <2>7 DEF Thick
<1>9. ASSUME g[m].down # Null PROVE Thick(g, g[m].down)
  <2> DEFINE b == h[m].down
  <2>1. b \in D /\ b # Null /\ g[m].down = b BY <1>2, <1>3, <1>4, <1>9
  <2>2. Same(m, b) BY <1>2, <1>3, <2>1 DEF LinksOK, DownsOK
  <2>3. b.square /\ ~IsRoot(b) BY <1>2, <2>2, SameIsEquivalence DEF IsRoot, Same
  <2>4. b # m
    <3>1. L[m] = IF L[b] = -1 THEN -1 ELSE L[b] + 1 BY <1>2, <1>3, <2>1 DEF LevelsIn
    <3> QED BY <1>2, <3>1
  <2>5. b # n BY <1>2, <2>3
  <2>6. Thick(h, b) BY <1>5, <2>1, <2>3
  <2> HIDE DEF b
  <2>7. \A s \in Quadrants : Kid(g, b, s) = Kid(h, b, s) BY <1>4, <2>1, <2>4, <2>5
  <2> QED BY <2>1, <2>6, <2>7 DEF Thick
<1> QED BY <1>4, <1>7, <1>8, <1>9

LEMMA TakesPoint ==
  ASSUME NEW h, NEW L, TreeOK(h, L), NEW pp \in Points, NEW n,
         Target(h, L, PointAt(pp), n), AllThick(h, {n}), NEW g, CutShape(h, g, n, Null),
         NEW t \in Seq(DOMAIN h), NEW s, Len(s) = 0,
         Queued(t, IF Thick(g, h[n].parent) THEN Null ELSE h[n].parent, Null, h[n].down, s)
  PROVE  Taken(h, g, PointAt(pp), t)
<1> DEFINE D == DOMAIN h
           p == PointAt(pp)
           m == h[n].parent
           d == h[n].down
           M == Only(L, D \ {n})
<1>1. InParent(h, L, n, m) BY HighestCopy
<1>2. /\ n \in D /\ n.square = FALSE /\ m \in D /\ m # n /\ L[m] = L[n] /\ m.square
      /\ L[n] >= 0 /\ L[n] \in Int /\ Kid(h, m, QuadrantIn(m, n)) = n
      /\ CutPlace(h, n, Null) /\ (d = Null <=> L[n] = 0)
  BY <1>1 DEF InParent
<1>3. /\ HeapOK(h) /\ LinksOK(h) /\ LevelsIn(h, L) /\ Null \notin D
      /\ h[n].down \in D \cup {Null}
      /\ \A x \in D : L[x] \in Int /\ (~x.square => L[x] >= 0)
  BY <1>2, HeapTypes, PointsHeld DEF TreeOK, LevelsOK, LevelsIn
<1>4. TreeOK(g, M) /\ DOMAIN g = D \ {n} BY <1>2, CutTree DEF CutShape
<1>5. \A x \in D \ {n}, r \in Quadrants :
        Kid(g, x, r) = IF x = m /\ r = QuadrantIn(m, n) THEN Null ELSE Kid(h, x, r)
  BY DEF CutShape
<1>6. \A x \in D \ {n} : M[x] = L[x] BY DEF Only
<1>7. AllThick(g, {m})
  <2>1. \A x \in D \ {n} : x # m => \A r \in Quadrants : Kid(g, x, r) = Kid(h, x, r)
    BY <1>5
  <2>2. \A x \in D \ {n} : x.square /\ ~IsRoot(x) => Thick(h, x) BY DEF AllThick
  <2> QED BY <1>4, <2>1, <2>2 DEF AllThick, Thick
<1>8. Same(n, p) /\ \A y \in D : Same(y, p) => L[y] <= L[n] BY DEF Target
<1>9. ASSUME NEW y \in D, y # n, Same(y, p) PROVE L[y] >= 0 /\ L[y] < L[n]
  <2>1. L[y] >= 0 BY <1>3, <1>9, PointPlace DEF Same
  <2>2. ASSUME L[y] = L[n] PROVE FALSE
    <3>1. Same(n, y) BY <1>8, <1>9, SameIsEquivalence
    <3>2. Level(L, n, y) BY <1>2, <2>2 DEF Level
    <3> QED BY <1>2, <1>9, <3>1, <3>2, OnlyOnce
  <2> QED BY <1>2, <1>3, <1>8, <1>9, <2>1, <2>2
<1>10. d = Null => ~Copied(g, p) BY <1>2, <1>3, <1>4, <1>9 DEF Copied
<1>11. ASSUME d # Null PROVE Target(g, M, p, d) /\ L[n] = L[d] + 1 /\ M[d] = L[d] /\ d # m
  <2>1. d \in D /\ Same(n, d) BY <1>2, <1>3, <1>11 DEF LinksOK, DownsOK
  <2>2. L[n] = IF L[d] = -1 THEN -1 ELSE L[d] + 1 BY <1>2, <1>3, <1>11 DEF LevelsIn
  <2>3. L[d] \in Int /\ L[n] = L[d] + 1 /\ d # n /\ L[d] >= 0
    <3>1. ~d.square BY <1>2, <2>1 DEF Same
    <3> QED BY <1>2, <1>3, <2>1, <2>2, <3>1
  <2>4. Same(d, p) BY <1>8, <2>1, SameIsEquivalence
  <2>5. \A y \in D \ {n} : Same(y, p) => M[y] <= M[d]
    <3> SUFFICES ASSUME NEW y \in D \ {n}, Same(y, p) PROVE M[y] <= M[d] OBVIOUS
    <3>1. y \in D /\ y # n /\ L[y] < L[n] BY <1>9
    <3>2. M[y] = L[y] /\ M[d] = L[d] BY <1>6, <2>1, <2>3
    <3>3. L[y] \in Int BY <1>3, <3>1
    <3> HIDE DEF M, d, p
    <3> QED BY <1>2, <2>3, <3>1, <3>2, <3>3
  <2>6. d.square = FALSE BY <1>2, <2>1 DEF Same
  <2> QED BY <1>2, <1>4, <1>6, <2>1, <2>3, <2>4, <2>5, <2>6 DEF Target
<1>12. m # Null BY <1>2, <1>3
<1> HIDE DEF m, d, M, D
<1>13. /\ Len(t) = (IF Thick(g, m) THEN 0 ELSE 1) + (IF d = Null THEN 0 ELSE 1)
       /\ ~Thick(g, m) => t[1] = m
       /\ d # Null => t[Len(t)] = d
  <2> DEFINE a == IF Thick(g, m) THEN Null ELSE m
  <2>1. Queued(t, a, Null, d, s) BY DEF m, d
  <2>2. a = Null <=> Thick(g, m) BY <1>12
  <2>3. ~Thick(g, m) => a = m OBVIOUS
  <2> HIDE DEF a
  <2>4. /\ Len(t) = (IF a = Null THEN 0 ELSE 1) + 0 + (IF d = Null THEN 0 ELSE 1) + 0
        /\ a # Null => t[1] = a
        /\ d # Null => t[(IF a = Null THEN 0 ELSE 1) + 0 + 1] = d
    BY <2>1 DEF Queued
  <2> QED BY <2>2, <2>3, <2>4
<1>14. \A i \in 1..Len(t) : \/ i = 1 /\ ~Thick(g, m) /\ t[i] = m
                            \/ i = Len(t) /\ d # Null /\ t[i] = d
  BY <1>13
<1>15. m \in DOMAIN g /\ (d # Null => d \in DOMAIN g) BY <1>2, <1>4, <1>11 DEF Target
<1>16. t \in Seq(DOMAIN g)
  <2>1. \A i \in 1..Len(t) : t[i] \in DOMAIN g BY <1>14, <1>15
  <2>2. t \in Seq(D) BY DEF D
  <2> QED BY <2>1, <2>2, Reseq
<1>17. ASSUME ~Thick(g, m) PROVE Leaving(g, M, p, t)
  <2>1. Head(t) = m BY <1>13, <1>16, <1>17
  <2>2. M[m] >= 0 /\ M[m] = L[n] BY <1>2, <1>6
  <2>3. ~IsRoot(m) => /\ g[m].up = Null /\ \E q \in Quadrants : Kid(g, m, q) # Null
                      /\ g[m].down # Null => Thick(g, g[m].down)
    <3>1. m = h[n].parent BY DEF m
    <3> QED BY <1>17, <3>1, ParentLeaves
  <2>4. d = Null => Len(t) = 1 /\ M[m] = 0 BY <1>2, <1>13, <1>17, <2>2
  <2>5. d # Null => Len(t) = 2 /\ Target(g, M, p, t[2]) /\ M[m] = M[t[2]] + 1
    BY <1>11, <1>13, <1>17, <2>2
  <2> QED BY <1>17, <2>1, <2>2, <2>3, <2>4, <2>5 DEF Leaving
<1>18. d # Null => d.square = FALSE
  BY <1>11, PointPlace DEF Target, Same
<1>19. PendingOK(g, M, p, t)
  <2>1. ASSUME NEW i \in 1..Len(t)
        PROVE IF t[i].square THEN StaysIn(g, t[i]) \/ (i = 1 /\ Leaving(g, M, p, t))
              ELSE i = Len(t) /\ Target(g, M, p, t[i])
    BY <1>2, <1>11, <1>14, <1>17, <1>18
  <2>2. Copied(g, p) => t # <<>> /\ Target(g, M, p, t[Len(t)])
    <3>1. Len(t) # 0 => t # <<>> OBVIOUS
    <3> QED BY <1>10, <1>11, <1>13, <3>1
  <2> QED BY <1>16, <2>1, <2>2 DEF PendingOK
<1>20. AllThick(g, IF t # <<>> THEN {Head(t)} ELSE {})
  <2>1. CASE Thick(g, m) BY <1>7, <2>1 DEF AllThick
  <2>2. CASE ~Thick(g, m)
    <3>1. t # <<>> /\ Head(t) = m BY <1>13, <1>16, <2>2
    <3> QED BY <1>7, <3>1
  <2> QED BY <2>1, <2>2
<1>21. Root \in DOMAIN h => Root \in DOMAIN g
  <2>1. Root # n BY <1>2 DEF Root, Node, Square
  <2> QED BY <1>4, <2>1 DEF D
<1>22. /\ Copied(g, p) => Copied(h, p) /\ Holds(g) = Holds(h)
       /\ ~Copied(g, p) => Holds(g) = Holds(h) \ {pp}
  <2>1. n \in DOMAIN h /\ DOMAIN g = DOMAIN h \ {n} BY <1>2, <1>4 DEF D
  <2> QED BY <1>4, <1>8, <2>1, HoldsWithout
<1>23. p.center = pp BY PointPlace
<1>24. Pends(g, M, p, t) BY <1>19, <1>20 DEF Pends
<1> HIDE DEF p
<1>25. Taken(h, g, p, t) BY <1>4, <1>21, <1>22, <1>23, <1>24 DEF Taken
<1> QED BY <1>25 DEF p
(* A square with one child left makes way for it.                          *)
LEMMA OnlyChild ==
  ASSUME NEW h, NEW L, TreeOK(h, L), NEW pp \in Points, NEW todo,
         Leaving(h, L, PointAt(pp), todo), NEW n, n = Head(todo), n \in DOMAIN h, ~IsRoot(n),
         NEW c \in Children(h, n)
  PROVE  CutPlace(h, n, c) /\ c # Null /\ Count(h, n) = 1
<1> DEFINE D == DOMAIN h
<1>1. h[n].up = Null /\ ~Thick(h, n) BY DEF Leaving
<1>2. /\ HeapOK(h) /\ LinksOK(h) /\ LevelsIn(h, L) /\ Null \notin D
      /\ \A q \in Quadrants : Kid(h, n, q) \in D \cup {Null}
  BY HeapTypes DEF TreeOK, LevelsOK
<1>3. Children(h, n) = {Kid(h, n, q) : q \in Quadrants} \ {Null}
  BY DEF Children, Kid, Quadrants
<1>4. \A x, y \in Children(h, n) : x = y
  BY <1>1, <1>2, CountFacts DEF LinksOK
<1>5. \A q \in Quadrants : Kid(h, n, q) \in {Null, c} BY <1>3, <1>4
<1>6. PICK q \in Quadrants : Kid(h, n, q) = c /\ c # Null BY <1>3
<1>7. c \in D /\ h[c].parent = n BY <1>2, <1>6 DEF LinksOK, KidsOK
<1>8. h[n].parent # Null BY <1>2 DEF LevelsIn
<1>9. CutPlace(h, n, c) BY <1>1, <1>5, <1>7, <1>8 DEF CutPlace
<1>10. Count(h, n) = 1
  <2>1. Children(h, n) # {} OBVIOUS
  <2> QED BY <1>1, <1>2, <2>1, CountFacts DEF LinksOK
<1> QED BY <1>6, <1>9, <1>10

LEMMA TakesSquare ==
  ASSUME NEW h, NEW L, TreeOK(h, L), NEW pp \in Points,
         NEW todo, Pends(h, L, PointAt(pp), todo), todo # <<>>,
         NEW n, n = Head(todo), n.square, ~IsRoot(n), Leaving(h, L, PointAt(pp), todo),
         NEW c, c # Null, CutPlace(h, n, c), NEW g, CutShape(h, g, n, c),
         NEW t \in Seq(DOMAIN h), Queued(t, Null, Null, h[n].down, Tail(todo))
  PROVE  Taken(h, g, PointAt(pp), t)
<1> DEFINE D == DOMAIN h
           p == PointAt(pp)
           m == h[n].parent
           d == h[n].down
           M == Only(L, D \ {n})
           s == Tail(todo)
<1>1. /\ n \in D /\ n = todo[1] /\ AllThick(h, {n}) /\ Len(todo) \in Nat \ {0}
      /\ Len(s) = Len(todo) - 1 /\ \A i \in 1..Len(s) : s[i] = todo[i + 1]
      /\ L[n] \in Int
  BY FirstPending
<1>2. /\ HeapOK(h) /\ LinksOK(h) /\ LevelsIn(h, L) /\ Null \notin D
      /\ h[n].down \in D \cup {Null} /\ m \in D \cup {Null}
      /\ \A x \in D : L[x] \in Int
  BY <1>1, HeapTypes DEF TreeOK, LevelsOK, LevelsIn
<1>3. /\ L[n] >= 0 /\ ~Thick(h, n) /\ (d # Null => Thick(h, d))
      /\ IF Len(todo) = 1 THEN L[n] = 0
         ELSE Len(todo) = 2 /\ Target(h, L, p, todo[2]) /\ L[n] = L[todo[2]] + 1
  BY DEF Leaving
<1>4. TreeOK(g, M) /\ DOMAIN g = D \ {n}
  <2>1. TreeOK(g, Only(L, DOMAIN h \ {n})) BY CutTree
  <2>2. DOMAIN g = DOMAIN h \ {n} BY DEF CutShape
  <2> QED BY <2>1, <2>2
<1>5. \A x \in D \ {n} : M[x] = L[x] BY DEF Only
<1>6. \A x \in D \ {n}, r \in Quadrants : Kid(h, x, r) # Null => Kid(g, x, r) # Null
  BY DEF CutShape
<1>7. \A x \in D \ {n} : Thick(h, x) => Thick(g, x)
  BY <1>6 DEF Thick
<1>8. AllThick(g, {}) BY <1>1, <1>4, <1>7 DEF AllThick
<1>9. p.square = FALSE /\ p.center = pp BY PointPlace
<1>10. d = Null <=> L[n] = 0 BY <1>1, <1>2, <1>3 DEF LevelsIn
<1>11. /\ Len(t) = (IF d = Null THEN 0 ELSE 1) + Len(s)
       /\ d # Null => t[1] = d
       /\ \A i \in 1..Len(s) : t[(IF d = Null THEN 0 ELSE 1) + i] = s[i]
  <2> HIDE DEF d, s
  <2>1. Queued(t, Null, Null, d, s) BY DEF d, s
  <2>2. /\ Len(t) = 0 + 0 + (IF d = Null THEN 0 ELSE 1) + Len(s)
        /\ d # Null => t[0 + 0 + 1] = d
        /\ \A i \in 1..Len(s) : t[0 + 0 + (IF d = Null THEN 0 ELSE 1) + i] = s[i]
    BY <2>1 DEF Queued
  <2> QED BY <2>2
<1>12. d # Null => /\ d \in D /\ d # n /\ d.square /\ Thick(g, d)
  <2> SUFFICES ASSUME d # Null PROVE d \in D /\ d # n /\ d.square /\ Thick(g, d) OBVIOUS
  <2>1. d \in D /\ Same(n, d) BY <1>1, <1>2 DEF LinksOK, DownsOK
  <2>2. d # n BY <1>3
  <2>3. d.square BY <2>1 DEF Same
  <2> QED BY <1>3, <1>7, <2>1, <2>2, <2>3
<1>13. d # Null => StaysIn(g, d)
  <2> SUFFICES ASSUME d # Null PROVE StaysIn(g, d) OBVIOUS
  <2>1. d \in DOMAIN g /\ HeapOK(g) /\ KidsOK(g) BY <1>4, <1>12 DEF TreeOK, LinksOK
  <2>2. Count(g, d) > 1 BY <1>12, <2>1, CountFacts
  <2> QED BY <1>12, <2>2 DEF StaysIn
<1>14. Root \in DOMAIN h => Root \in DOMAIN g
  <2>1. Root # n BY SameIsEquivalence DEF IsRoot
  <2> QED BY <1>4, <2>1
<1>15. /\ Copied(g, p) => Copied(h, p) /\ Holds(g) = Holds(h)
       /\ ~Copied(g, p) => Holds(g) = Holds(h) \ {pp}
  BY <1>1, <1>4, HoldsWithout
<1> HIDE DEF M, s, d, D
<1>16. CASE Len(todo) = 1
  <2>1. d = Null /\ Len(t) = 0 BY <1>1, <1>3, <1>10, <1>11, <1>16
  <2>2. t = <<>> /\ t \in Seq(DOMAIN g)
    <3> <<>> \in Seq(DOMAIN g) OBVIOUS
    <3> QED BY <2>1
  <2>3. ~Copied(h, p)
    <3>1. Copied(h, p) => Target(h, L, p, todo[1]) BY <1>16 DEF Pends, PendingOK
    <3> QED BY <1>1, <1>9, <3>1 DEF Target, Same
  <2>4. PendingOK(g, M, p, t) BY <1>15, <2>1, <2>2, <2>3 DEF PendingOK
  <2>5. Pends(g, M, p, t) BY <1>8, <2>2, <2>4 DEF Pends
  <2> QED BY <1>4, <1>9, <1>14, <1>15, <2>5 DEF Taken
<1>17. CASE Len(todo) = 2
  <2> DEFINE x == todo[2]
  <2>1. Target(h, L, p, x) /\ L[n] = L[x] + 1 /\ x \in D /\ Same(x, p) /\ L[x] >= 0
        /\ x.square = FALSE
    BY <1>3, <1>9, <1>17 DEF Target, Same, D
  <2>2. d # Null BY <1>2, <1>10, <2>1
  <2>3. Len(s) = 1 /\ s[1] = x BY <1>1, <1>17
  <2>4. Len(t) = 2 /\ t[1] = d /\ t[2] = x BY <1>11, <2>2, <2>3
  <2>5. x # n BY <2>1
  <2> HIDE DEF x
  <2>6. Target(g, M, p, x)
    <3>1. \A y \in D : Same(y, p) => L[y] <= L[x] BY <2>1 DEF Target, D
    <3>2. \A y \in D \ {n} : M[y] = L[y] BY <1>5
    <3> QED BY <1>4, <2>1, <2>5, <3>1, <3>2 DEF Target
  <2>7. t \in Seq(DOMAIN g)
    <3>1. d \in DOMAIN g /\ x \in DOMAIN g BY <1>4, <1>12, <2>1, <2>2, <2>5
    <3>2. \A i \in 1..Len(t) : t[i] \in DOMAIN g BY <2>4, <3>1
    <3>3. t \in Seq(D) BY DEF D
    <3> QED BY <3>2, <3>3, Reseq
  <2>8. PendingOK(g, M, p, t)
    <3>1. t # <<>> /\ \A i \in 1..Len(t) : i = 1 \/ i = 2
      <4>1. t # <<>>
        <5>1. t = <<>> => Len(t) = 0 OBVIOUS
        <5> HIDE DEF x
        <5> QED BY <2>4, <5>1
      <4>2. \A i \in 1..2 : i = 1 \/ i = 2 OBVIOUS
      <4> QED BY <2>4, <4>1, <4>2
    <3> QED BY <1>12, <1>13, <2>1, <2>2, <2>4, <2>6, <2>7, <3>1 DEF PendingOK
  <2>9. Pends(g, M, p, t) BY <1>8, <2>8 DEF Pends, AllThick
  <2> QED BY <1>4, <1>9, <1>14, <1>15, <2>9 DEF Taken
<1> QED BY <1>3, <1>16, <1>17
(* An empty root, on the level above the highest copy.                     *)
LEMMA TakesRoot ==
  ASSUME NEW h, NEW L, TreeOK(h, L), NEW pp \in Points,
         NEW todo, Pends(h, L, PointAt(pp), todo), todo # <<>>,
         NEW n, n = Head(todo), IsRoot(n), Leaving(h, L, PointAt(pp), todo),
         ~StaysIn(h, n), NEW g, FreeShape(h, g, n, DOMAIN h),
         NEW t \in Seq(DOMAIN h), Queued(t, Null, h[n].up, h[n].down, Tail(todo))
  PROVE  Taken(h, g, PointAt(pp), t)
<1> DEFINE D == DOMAIN h
           p == PointAt(pp)
           u == h[n].up
           d == h[n].down
           M == Lowered(L, D \ {n}, n)
           s == Tail(todo)
           x == todo[2]
<1>1. /\ n \in D /\ n = todo[1] /\ AllThick(h, {n}) /\ Len(todo) \in Nat \ {0}
      /\ Len(s) = Len(todo) - 1 /\ \A i \in 1..Len(s) : s[i] = todo[i + 1]
      /\ L[n] \in Int
  BY FirstPending
<1>2. /\ HeapOK(h) /\ LinksOK(h) /\ LevelsIn(h, L) /\ Null \notin D
      /\ h[n].down \in D \cup {Null} /\ h[n].up \in D \cup {Null}
      /\ \A y \in D : L[y] \in Int
  BY <1>1, HeapTypes DEF TreeOK, LevelsOK, LevelsIn
<1>3. n.square = TRUE /\ h[n].parent = Null BY <1>1, <1>2, RootFacts DEF LevelsIn
<1>4. /\ L[n] >= 0
      /\ IF Len(todo) = 1 THEN L[n] = 0
         ELSE Len(todo) = 2 /\ Target(h, L, p, x) /\ L[n] = L[x] + 1
  BY DEF Leaving
<1>5. d # Null /\ \A q \in Quadrants : Kid(h, n, q) = Null
  <2>1. d # Null BY <1>3 DEF StaysIn
  <2>2. ~(Count(h, n) > 1) /\ Count(h, n) # 1 BY <1>3 DEF StaysIn
  <2>3. Children(h, n) = {} BY <1>1, <1>2, <2>2, CountFacts DEF LinksOK
  <2> QED BY <1>1, <1>2, <2>1, <2>3, CountFacts DEF LinksOK
<1>6. /\ L[n] > 0 /\ Len(todo) = 2 /\ Target(h, L, p, x) /\ L[n] = L[x] + 1
      /\ x \in D /\ Same(x, p) /\ L[x] >= 0 /\ x.square = FALSE
  <2>1. L[n] # 0 BY <1>1, <1>2, <1>4, <1>5 DEF LevelsIn
  <2> HIDE DEF x, D, p
  <2>2. Len(todo) = 2 /\ L[n] > 0 /\ Target(h, L, p, x) /\ L[n] = L[x] + 1
    BY <1>1, <1>4, <2>1
  <2>3. x \in D /\ Same(x, p) /\ L[x] >= 0 BY <2>2 DEF Target, D
  <2>4. p.square = FALSE BY PointPlace DEF p
  <2> QED BY <2>2, <2>3, <2>4 DEF Same
<1>7. TreeOK(g, M)
  <2>1. TreeOK(g, Lowered(L, DOMAIN h \ {n}, n)) BY <1>1, <1>5, <1>6, CutRoot
  <2> QED BY <2>1
<1>8. /\ DOMAIN g = D \ {n}
      /\ \A y \in D \ {n} : /\ g[y].parent = h[y].parent
                            /\ g[y].down = IF y = u THEN Null ELSE h[y].down
                            /\ \A r \in Quadrants : Kid(g, y, r) = Kid(h, y, r)
  BY DEF FreeShape
<1>9. \A y \in D \ {n} : M[y] = IF L[y] > L[n] THEN -1 ELSE L[y] BY DEF Lowered
<1>10. d \in D /\ Same(n, d) /\ L[d] = L[x] /\ d # n /\ IsRoot(d) /\ L[d] >= 0
  <2>1. d \in D /\ Same(n, d) /\ L[d] = L[n] - 1 BY <1>1, <1>6, DownStep
  <2>2. IsRoot(d) BY <2>1, SameIsEquivalence DEF IsRoot
  <2> QED BY <1>2, <1>6, <2>1, <2>2
<1>11. Kid(h, d, QuadrantIn(d, x)) # Null /\ QuadrantIn(d, x) \in Quadrants
  <2>1. PICK r \in D : IsRoot(r) /\ L[r] = L[x] /\ (x = r \/ In(x, r))
    BY <1>6, RootOfLevel
  <2>2. r = d BY <1>6, <1>10, <2>1 DEF TreeOK, OneRoot
  <2>3. x # r BY <1>6, <2>1, RootFacts
  <2>4. Level(L, d, x) /\ In(x, d) BY <1>6, <1>10, <2>1, <2>2, <2>3 DEF Level
  <2>5. Kid(h, d, QuadrantIn(d, x)) \in D BY <1>6, <1>10, <2>4, Towards
  <2> QED BY <1>2, <2>5, QuadrantType
<1>12. StaysIn(g, d) /\ d.square /\ d \in DOMAIN g
  <2>1. d \in DOMAIN g /\ HeapOK(g) /\ KidsOK(g) BY <1>7, <1>8, <1>10 DEF TreeOK, LinksOK
  <2>2. Kid(g, d, QuadrantIn(d, x)) # Null BY <1>8, <1>10, <1>11
  <2>3. Children(g, d) # {} BY <1>11, <2>1, <2>2, CountFacts
  <2>4. Count(g, d) > 1 \/ Count(g, d) = 1 BY <2>1, <2>3, CountFacts
  <2>5. g[d].parent = Null BY <1>2, <1>8, <1>10 DEF LevelsIn
  <2>6. d.square BY <1>10, RootFacts
  <2> QED BY <2>1, <2>4, <2>5, <2>6 DEF StaysIn
<1>13. ASSUME u # Null PROVE StaysIn(g, u) /\ u.square /\ u \in DOMAIN g
  <2>1. u \in D /\ h[u].down = n BY <1>1, <1>2, <1>13 DEF LinksOK, UpsOK
  <2>2. Same(u, n) /\ L[u] = L[n] + 1
    BY <1>1, <1>2, <1>4, <2>1 DEF LinksOK, DownsOK, LevelsIn
  <2>3. IsRoot(u) BY <2>2, SameIsEquivalence DEF IsRoot
  <2>4. u # n BY <1>1, <2>2
  <2>5. g[u].down = Null /\ g[u].parent = Null BY <1>2, <1>8, <2>1, <2>3, <2>4 DEF LevelsIn
  <2> QED BY <1>8, <2>1, <2>3, <2>4, <2>5, RootFacts DEF StaysIn
<1>14. Target(g, M, p, x)
  <2>1. \A y \in D : Same(y, p) => L[y] <= L[x] BY <1>6 DEF Target
  <2>2. x # n BY <1>3, <1>6
  <2>3. ASSUME NEW y \in D \ {n}, Same(y, p) PROVE M[y] = L[y] /\ L[y] <= L[x]
    <3>1. L[y] <= L[x] /\ L[y] \in Int BY <1>2, <2>1, <2>3
    <3>2. ~(L[y] > L[n]) BY <1>2, <1>6, <3>1
    <3> QED BY <1>9, <3>1, <3>2
  <2>4. x \in DOMAIN g /\ M[x] = L[x] BY <1>6, <1>8, <2>2, <2>3
  <2> QED BY <1>6, <1>8, <2>3, <2>4 DEF Target
<1>15. AllThick(g, {})
  <2>1. \A y \in D \ {n} : y.square /\ ~IsRoot(y) => Thick(h, y) BY <1>1 DEF AllThick
  <2> QED BY <1>8, <2>1 DEF AllThick, Thick
<1>16. Root \in DOMAIN h => Root \in DOMAIN g
  <2>1. Root \in D => L[Root] = 0 BY DEF TreeOK, LevelsOK
  <2> QED BY <1>6, <1>8, <2>1
<1>17. /\ Copied(g, p) => Copied(h, p) /\ Holds(g) = Holds(h)
       /\ ~Copied(g, p) => Holds(g) = Holds(h) \ {pp}
  BY <1>1, <1>3, <1>7, <1>8, HoldsWithout
<1> HIDE DEF M, d, u, D, x
<1>18. Len(s) = 1 /\ s[1] = x
  <2> HIDE DEF s
  <2> QED BY <1>1, <1>6 DEF x
<1> HIDE DEF s
<1>19. /\ Len(t) = (IF u = Null THEN 0 ELSE 1) + 2
       /\ u # Null => t[1] = u
       /\ t[(IF u = Null THEN 0 ELSE 1) + 1] = d
       /\ t[(IF u = Null THEN 0 ELSE 1) + 2] = x
  <2>1. Queued(t, Null, u, d, s) BY DEF d, s, u
  <2>2. /\ Len(t) = 0 + (IF u = Null THEN 0 ELSE 1) + 1 + 1
        /\ u # Null => t[0 + 1] = u
        /\ t[0 + (IF u = Null THEN 0 ELSE 1) + 1] = d
        /\ t[0 + (IF u = Null THEN 0 ELSE 1) + 1 + 1] = s[1]
    <3>1. d # Null /\ 1 \in 1..Len(s) /\ Len(s) = 1 BY <1>5, <1>18
    <3>2. /\ Len(t) = 0 + (IF u = Null THEN 0 ELSE 1) + 1 + Len(s)
          /\ u # Null => t[0 + 1] = u
          /\ t[0 + (IF u = Null THEN 0 ELSE 1) + 1] = d
          /\ \A i \in 1..Len(s) : t[0 + (IF u = Null THEN 0 ELSE 1) + 1 + i] = s[i]
      BY <2>1, <3>1 DEF Queued
    <3> QED BY <3>1, <3>2
  <2> QED BY <1>18, <2>2
<1>20. \A i \in 1..Len(t) : \/ u # Null /\ t[i] = u
                            \/ t[i] = d
                            \/ i = Len(t) /\ t[i] = x
  BY <1>19
<1>21. Len(t) \in Nat \ {0} /\ t[Len(t)] = x BY <1>19
<1>22. t \in Seq(DOMAIN g)
  <2>1. \A i \in 1..Len(t) : t[i] \in DOMAIN g BY <1>12, <1>13, <1>14, <1>20 DEF Target
  <2>2. t \in Seq(D) BY DEF D
  <2> QED BY <2>1, <2>2, Reseq
<1>23. PendingOK(g, M, p, t)
  <2>1. ASSUME NEW i \in 1..Len(t)
        PROVE IF t[i].square THEN StaysIn(g, t[i]) \/ (i = 1 /\ Leaving(g, M, p, t))
              ELSE i = Len(t) /\ Target(g, M, p, t[i])
    BY <1>6, <1>12, <1>13, <1>14, <1>20
  <2>2. t # <<>>
    <3>1. t = <<>> => Len(t) = 0 OBVIOUS
    <3> QED BY <1>21, <3>1
  <2> QED BY <1>14, <1>21, <1>22, <2>1, <2>2 DEF PendingOK
<1>24. Pends(g, M, p, t) BY <1>15, <1>23 DEF Pends, AllThick
<1>25. p.center = pp BY PointPlace
<1> HIDE DEF p
<1>26. Taken(h, g, p, t) BY <1>7, <1>16, <1>17, <1>24, <1>25 DEF Taken
<1> QED BY <1>26 DEF p
LEMMA Unlinks ==
  ASSUME CallOK, At("remove", "unlink"), NEW L, TreeOK(heap, L), Located(L),
         Taken(heap, heap', P, pending'),
         UNCHANGED <<call, pc, cur, gap, frames, sq, low, ans, lost>>
  PROVE  Inv' /\ Sim
<1>1. /\ pc = "unlink" /\ call.op = "remove" /\ pc' = pc /\ call' = call /\ cur' = cur
      /\ frames' = frames /\ low' = low /\ ans' = ans /\ lost' = lost
  BY DEF At
<1>2. Unlinking(L) BY <1>1 DEF Located
<1>3. PICK M : TreeOK(heap', M) /\ Pends(heap', M, P, pending') BY DEF Taken
<1>4. P' = P /\ P.center = call.p BY <1>1, PointPlace DEF P, CallOK, Calls, PointAt
<1>5. CallOK'
  <2>1. Root \in DOMAIN heap => Root \in DOMAIN heap' BY DEF Taken
  <2> QED BY <1>1, <2>1 DEF CallOK
<1>6. Contents = Holds(heap) /\ Contents' = Holds(heap') BY DEF Contents, Holds
<1>7. /\ Contents = IF Copied(heap, P) THEN call.was ELSE call.was \ {call.p}
      /\ frames = <<>> /\ low = Null /\ cur = Root /\ call.p \in call.was
  BY <1>2 DEF Unlinking
<1>8. /\ Copied(heap', P) => Copied(heap, P) /\ Contents' = Contents
      /\ ~Copied(heap', P) => Contents' = Contents \ {call.p}
  BY <1>4, <1>6 DEF Taken
<1>9. Contents' = IF Copied(heap', P) THEN call.was ELSE call.was \ {call.p}
  BY <1>7, <1>8
<1>10. PendingOK(heap', M, P', pending') BY <1>3, <1>4 DEF Pends
<1>11. Unlinking(M)'
  <2>1. frames' = <<>> /\ low' = Null /\ cur' = Root /\ call'.p \in call'.was
    BY <1>1, <1>7
  <2>2. Contents' = IF Copied(heap', P') THEN call'.was ELSE call'.was \ {call'.p}
    BY <1>1, <1>4, <1>9
  <2> QED BY <1>10, <2>1, <2>2 DEF Unlinking
<1>12. AllThick(heap', Leaves')
  <2>1. AllThick(heap', IF pending' # <<>> THEN {Head(pending')} ELSE {})
    BY <1>3 DEF Pends
  <2> QED BY <1>1, <2>1 DEF Leaves
<1>13. Located(M)' BY <1>1, <1>11, <1>12 DEF Located, At
<1>14. Inv' BY <1>1, <1>3, <1>5, <1>13 DEF Inv
<1>15. Sim
  <2>1. CASE Contents' = Contents BY <1>1, <2>1, QuietStep DEF Quiet, Phase
  <2>2. CASE Contents' # Contents
    <3>1. Contents' = call.was \ {call.p} BY <1>7, <1>8, <2>2
    <3>2. Contents' = ASet!After(call) BY <1>1, <3>1 DEF ASet!After
    <3> QED BY <1>1, <3>2, ChangeStep
  <2> QED BY <2>1, <2>2
<1> QED BY <1>14, <1>15

LEMMA RemoveNodeStep ==
  ASSUME Inv, RemoveNode
  PROVE  Inv' /\ Sim
<1> DEFINE n == Head(pending)
           h == Node_free(Unlink(n), n)
           m == heap[n].parent
           s == Tail(pending)
           D == DOMAIN heap
<1>1. /\ At("remove", "unlink") /\ pending # <<>>
      /\ IF Stays(n) THEN heap' = heap /\ pending' = s
         ELSE heap' = h /\ pending' = NextNodes(h, n) \o s
      /\ UNCHANGED <<call, pc, cur, gap, frames, sq, low, ans, lost>>
  BY DEF RemoveNode
<1>2. pc = "unlink" /\ call.op = "remove" BY <1>1 DEF At
<1>3. CallOK /\ pc # "free" BY <1>2 DEF Inv
<1>4. PICK L : TreeOK(heap, L) /\ Located(L) BY <1>3 DEF Inv
<1>5. call.p \in Points BY <1>2, <1>3 DEF CallOK, Calls
<1>6. Pends(heap, L, P, pending)
  <2>1. AllThick(heap, {n}) /\ Unlinking(L) BY <1>1, <1>2, <1>4 DEF Located, Leaves
  <2> QED BY <1>1, <2>1 DEF Unlinking, Pends
<1>7. /\ n \in D /\ AllThick(heap, {n}) /\ s \in Seq(D)
      /\ Len(pending) \in Nat \ {0} /\ Len(s) = Len(pending) - 1
      /\ IF n.square THEN StaysIn(heap, n) \/ Leaving(heap, L, P, pending)
         ELSE Len(pending) = 1 /\ Target(heap, L, P, n)
  BY <1>1, <1>4, <1>5, <1>6, FirstPending DEF P
<1>8. /\ HeapOK(heap) /\ LinksOK(heap) /\ LevelsIn(heap, L) /\ Null \notin D
      /\ m \in D \cup {Null} /\ heap[n].up \in D \cup {Null} /\ heap[n].down \in D \cup {Null}
      /\ \A x \in D : x # Null
  BY <1>4, <1>7, HeapTypes DEF TreeOK, LevelsOK
<1>9. Stays(n) <=> StaysIn(heap, n) BY DEF Stays, StaysIn, Splices
<1> HIDE DEF n, s, D
<1>10. CASE Stays(n)
  <2>1. heap' = heap /\ pending' = s BY <1>1, <1>10
  <2>2. Pends(heap, L, P, s)
    BY <1>1, <1>4, <1>5, <1>6, <1>9, <1>10, TakesStaying DEF P, n, s
  <2>3. ~Copied(heap, P) => Holds(heap) = Holds(heap) \ {P.center}
    <3>1. call.p \in Holds(heap) <=> Copied(heap, P) BY <1>4, <1>5, PointsHeld DEF P
    <3>2. P.center = call.p BY DEF P, PointAt
    <3> QED BY <3>1, <3>2
  <2>4. Taken(heap, heap', P, pending') BY <1>4, <2>1, <2>2, <2>3 DEF Taken
  <2> QED BY <1>1, <1>3, <1>4, <2>4, Unlinks
<1>11. CASE ~Stays(n) /\ ~n.square
  <2> DEFINE g == Node_free(SetSlot(heap, m, QuadrantIn(m, n), Null), n)
             a == IF Thick(g, m) THEN Null ELSE m
             t == ((Visit(a) \o Visit(heap[n].up)) \o Visit(heap[n].down)) \o s
  <2>1. Target(heap, L, P, n) /\ Len(s) = 0 BY <1>7, <1>11
  <2>2. InParent(heap, L, n, m) BY <1>4, <1>5, <2>1, HighestCopy DEF P
  <2>3. /\ CutPlace(heap, n, Null) /\ m \in D /\ m # n /\ heap[n].up = Null
        /\ Kid(heap, m, QuadrantIn(m, n)) = n /\ m # Null
    BY <1>8, <2>2 DEF InParent, CutPlace, D
  <2>4. CutShape(heap, g, n, Null) BY <1>8, <2>3, CutPointIs
  <2>5. TreeOK(g, Only(L, DOMAIN heap \ {n})) BY <1>4, <2>3, <2>4, CutTree
  <2>6. h = g
    <3>1. ~Splices(n) BY <1>11 DEF Splices
    <3>2. Unlink(n) = SetSlot(heap, m, QuadrantIn(m, n), Null)
      BY <2>3, <3>1 DEF Unlink, Kid
    <3> QED BY <3>2
  <2> HIDE DEF g, h
  <2>7. Thin(g, m) <=> ~Thick(g, m)
    <3>1. m \in DOMAIN g BY <2>3, <2>4 DEF CutShape, D
    <3> QED BY <2>5, <3>1, CountFacts DEF TreeOK, LinksOK
  <2>8. NextNodes(g, n) = (Visit(a) \o Visit(heap[n].up)) \o Visit(heap[n].down)
    <3>1. (IF ~Splices(n) /\ m # Null /\ Thin(g, m) THEN <<m>> ELSE <<>>) = Visit(a)
      BY <1>11, <2>3, <2>7 DEF Splices, Visit
    <3> QED BY <3>1 DEF NextNodes
  <2>9. heap' = g /\ pending' = t BY <1>1, <1>11, <2>6, <2>8
  <2>10. t \in Seq(D) /\ Queued(t, a, heap[n].up, heap[n].down, s)
    <3>1. a # Null => a \in D BY <2>3
    <3> HIDE DEF a, D
    <3> QED BY <1>7, <1>8, <3>1, QueuedIs
  <2>11. Queued(t, IF Thick(g, m) THEN Null ELSE m, Null, heap[n].down, s)
    BY <2>3, <2>10
  <2>12. Taken(heap, g, P, t)
    <3>1. t \in Seq(DOMAIN heap) BY <2>10 DEF D
    <3> HIDE DEF t, a
    <3> QED BY <1>4, <1>5, <1>7, <2>1, <2>4, <2>11, <3>1, TakesPoint DEF P
  <2>13. Taken(heap, heap', P, pending') BY <2>9, <2>12
  <2> QED BY <1>1, <1>3, <1>4, <2>13, Unlinks
<1>12. CASE ~Stays(n) /\ n.square /\ ~IsRoot(n)
  <2> DEFINE c == CHOOSE x \in Children(heap, n) : TRUE
             g == Node_free(SetParent(SetSlot(heap, m, QuadrantIn(m, n), c), c, m), n)
             t == ((Visit(Null) \o Visit(heap[n].up)) \o Visit(heap[n].down)) \o s
  <2>1. Leaving(heap, L, P, pending) BY <1>7, <1>9, <1>12
  <2>2. c \in Children(heap, n)
    <3>1. \E q \in Quadrants : Kid(heap, n, q) # Null /\ heap[n].up = Null
      BY <1>12, <2>1 DEF Leaving, n
    <3> QED BY <1>7, <1>8, <3>1, CountFacts DEF LinksOK, D
  <2> HIDE DEF c
  <2>3. CutPlace(heap, n, c) /\ c # Null /\ Count(heap, n) = 1
    BY <1>4, <1>5, <1>7, <1>12, <2>1, <2>2, OnlyChild DEF P, D, n
  <2>4. CutShape(heap, g, n, c) BY <1>8, <2>3, CutSquareIs
  <2>5. Splices(n) BY <1>12, <2>3 DEF Splices
  <2>6. h = g BY <2>5 DEF Unlink, c
  <2> HIDE DEF g, h
  <2>7. NextNodes(g, n) = (Visit(Null) \o Visit(heap[n].up)) \o Visit(heap[n].down)
    BY <2>5 DEF NextNodes, Visit
  <2>8. heap' = g /\ pending' = t BY <1>1, <1>12, <2>6, <2>7
  <2>9. t \in Seq(D) /\ Queued(t, Null, heap[n].up, heap[n].down, s)
    <3> HIDE DEF D
    <3> QED BY <1>7, <1>8, QueuedIs
  <2>10. Queued(t, Null, Null, heap[n].down, s) BY <2>3, <2>9 DEF CutPlace
  <2>11. Taken(heap, g, P, t)
    <3>1. t \in Seq(DOMAIN heap) BY <2>9 DEF D
    <3> HIDE DEF t
    <3>2. n = Head(pending) /\ Queued(t, Null, Null, heap[n].down, Tail(pending))
      BY <2>10 DEF n, s
    <3> QED BY <1>1, <1>4, <1>5, <1>6, <1>12, <2>1, <2>3, <2>4, <3>1, <3>2, TakesSquare DEF P
  <2>12. Taken(heap, heap', P, pending') BY <2>8, <2>11
  <2> QED BY <1>1, <1>3, <1>4, <2>12, Unlinks
<1>13. CASE ~Stays(n) /\ IsRoot(n)
  <2> DEFINE g == Node_free(heap, n)
             t == ((Visit(Null) \o Visit(heap[n].up)) \o Visit(heap[n].down)) \o s
  <2>1. n.square BY <1>13, RootFacts
  <2>2. Leaving(heap, L, P, pending) BY <1>7, <1>9, <1>13, <2>1
  <2>3. m = Null BY <1>7, <1>8, <1>13 DEF LevelsIn, D
  <2>4. ~Splices(n) BY <1>13, <2>3 DEF Stays
  <2>5. h = g BY <2>3, <2>4 DEF Unlink
  <2>6. FreeShape(heap, g, n, DOMAIN heap)
    <3>1. Typed(heap, DOMAIN heap) BY <1>8 DEF HeapOK, Typed
    <3> QED BY <1>7, <1>8, <3>1, FreeIs DEF D
  <2> HIDE DEF g, h
  <2>7. NextNodes(g, n) = (Visit(Null) \o Visit(heap[n].up)) \o Visit(heap[n].down)
    BY <2>3 DEF NextNodes, Visit
  <2>8. heap' = g /\ pending' = t BY <1>1, <1>13, <2>5, <2>7
  <2>9. t \in Seq(D) /\ Queued(t, Null, heap[n].up, heap[n].down, s)
    <3> HIDE DEF D
    <3> QED BY <1>7, <1>8, QueuedIs
  <2>10. Taken(heap, g, P, t)
    <3>1. t \in Seq(DOMAIN heap) BY <2>9 DEF D
    <3> HIDE DEF t
    <3>2. n = Head(pending) /\ Queued(t, Null, heap[n].up, heap[n].down, Tail(pending))
      BY <2>9 DEF n, s
    <3>3. ~StaysIn(heap, n) BY <1>9, <1>13
    <3> QED BY <1>1, <1>4, <1>5, <1>6, <1>13, <2>2, <2>6, <3>1, <3>2, <3>3, TakesRoot DEF P
  <2>11. Taken(heap, heap', P, pending') BY <2>8, <2>10
  <2> QED BY <1>1, <1>3, <1>4, <2>11, Unlinks
<1> QED BY <1>10, <1>11, <1>12, <1>13

LEMMA RemoveDoneStep ==
  ASSUME Inv, RemoveDone
  PROVE  Inv' /\ Sim
<1>1. pc = "unlink" /\ call.op = "remove" /\ pending = <<>> /\ Finish(TRUE)
  BY DEF RemoveDone, At
<1>2. CallOK /\ pc # "free" BY <1>1 DEF Inv
<1>3. PICK L : TreeOK(heap, L) /\ Located(L) BY <1>2 DEF Inv
<1>4. Unlinking(L) /\ AllThick(heap, {}) BY <1>1, <1>3 DEF Located, Leaves
<1>5. ~Copied(heap, P) BY <1>1, <1>4 DEF Unlinking, PendingOK
<1>6. Contents = call.was \ {call.p} /\ call.p \in call.was BY <1>4, <1>5 DEF Unlinking
<1>7. Contents = ASet!After(call) /\ ASet!MayAnswer(call, TRUE)
  BY <1>1, <1>6 DEF ASet!After, ASet!MayAnswer
<1> QED BY <1>1, <1>2, <1>3, <1>4, <1>7, Finishing
-----------------------------------------------------------------------------
(* Quadtree_free: a level is begun, a child is cut off, a node is freed.   *)
LEMMA ShrunkFacts ==
  ASSUME NEW h, NEW L, Shrunk(h, L)
  PROVE  /\ HeapOK(h) /\ KidsOK(h) /\ UpsOK(h) /\ DownsOK(h) /\ LevelsIn(h, L)
         /\ Null \notin DOMAIN h
         /\ \A x \in DOMAIN h :
              /\ IsNode(x) /\ L[x] \in Int /\ L[x] >= -1
              /\ h[x].parent \in DOMAIN h \cup {Null} /\ h[x].up \in DOMAIN h \cup {Null}
              /\ h[x].down \in DOMAIN h \cup {Null}
              /\ \A q \in Quadrants : Kid(h, x, q) \in DOMAIN h \cup {Null}
BY HeapTypes DEF Shrunk, LevelsIn

LEMMA FreeLevelStep ==
  ASSUME Inv, FreeLevel
  PROVE  Inv' /\ Sim
<1> DEFINE d == heap[cur].down
<1>1. /\ pc = "free" /\ pc' = pc /\ pending = <<>> /\ cur # Null
      /\ pending' = <<cur>> /\ cur' = d
      /\ heap' = heap /\ frames' = frames /\ low' = low /\ call' = call
      /\ lost' = lost /\ ans' = ans
  BY DEF FreeLevel, At
<1>2. CallOK /\ \E L : Freeing(L) BY <1>1 DEF Inv
<1>3. PICK L : Freeing(L) BY <1>2
<1>4. /\ frames = <<>> /\ low = Null /\ Shrunk(heap, L)
      /\ Stands(heap, L, cur) /\ IsRoot(cur)
      /\ TodoOK(heap, L, <<>>, L[cur] + 1)
  BY <1>1, <1>3 DEF Freeing
<1>5. /\ cur \in DOMAIN heap /\ L[cur] >= 0 /\ L[cur] \in Int /\ d \in DOMAIN heap \cup {Null}
      /\ DownsOK(heap) /\ LevelsIn(heap, L) /\ Null \notin DOMAIN heap
      /\ \A x \in DOMAIN heap : L[x] \in Int /\ L[x] >= -1
  BY <1>4, ShrunkFacts DEF Stands
<1>6. d = Null <=> L[cur] = 0 BY <1>5 DEF LevelsIn
<1>7. d # Null => /\ Stands(heap, L, d) /\ IsRoot(d) /\ L[d] + 1 = L[cur]
  <2> SUFFICES ASSUME d # Null
               PROVE  Stands(heap, L, d) /\ IsRoot(d) /\ L[d] + 1 = L[cur]
    OBVIOUS
  <2>1. Same(cur, d) BY <1>5 DEF DownsOK
  <2>2. IsRoot(d) BY <1>4, <2>1, SameIsEquivalence DEF IsRoot
  <2>3. L[cur] = IF L[d] = -1 THEN -1 ELSE L[d] + 1 BY <1>5 DEF LevelsIn
  <2>4. d \in DOMAIN heap /\ d.square BY <1>5, <2>2, RootFacts
  <2> QED BY <1>5, <2>2, <2>3, <2>4 DEF Stands
<1>8. TodoOK(heap, L, <<cur>>, L[cur])
  <2>1. \A n \in DOMAIN heap : HangsOn(heap, <<cur>>, n) /\ L[n] <= L[cur]
    <3> SUFFICES ASSUME NEW n \in DOMAIN heap
                 PROVE  HangsOn(heap, <<cur>>, n) /\ L[n] <= L[cur]
      OBVIOUS
    <3>1. HangsOn(heap, <<>>, n) /\ L[n] <= (L[cur] + 1) - 1 BY <1>4 DEF TodoOK
    <3>2. ~(\E i \in 1..(Len(<<>>) - 1) : <<>>[i] = n /\ <<>>[i + 1] = heap[n].parent)
      OBVIOUS
    <3> QED BY <1>5, <3>1, <3>2 DEF HangsOn
  <2>2. <<cur>> \in Seq(DOMAIN heap) /\ Len(<<cur>>) = 1 /\ <<cur>>[1] = cur /\ <<cur>> # <<>>
    BY <1>5
  <2> QED BY <1>4, <2>1, <2>2 DEF TodoOK
<1>9. Freeing(L)'
  <2> HIDE DEF d
  <2>1. (IF d = Null THEN 0 ELSE L[d] + 1) = L[cur] BY <1>5, <1>6, <1>7
  <2>2. TodoOK(heap, L, <<cur>>, IF d = Null THEN 0 ELSE L[d] + 1) BY <1>8, <2>1
  <2> QED BY <1>1, <1>4, <1>7, <2>2 DEF Freeing
<1>10. CallOK' BY <1>1, <1>2 DEF CallOK
<1>11. Inv' BY <1>1, <1>9, <1>10 DEF Inv
<1>12. Contents' = Contents BY <1>1 DEF Contents
<1> QED BY <1>1, <1>11, <1>12, QuietStep DEF Quiet, Phase

Shrinks(h, g, L, M, todo, k) ==
  /\ Shrunk(g, M) /\ TodoOK(g, M, todo, k) /\ Holds(g) \subseteq Holds(h)
  /\ \A x : Stands(h, L, x) /\ L[x] # k => Stands(g, M, x) /\ M[x] = L[x]
LEMMA CutsOff ==
  ASSUME NEW h, NEW L, Shrunk(h, L), NEW k \in Int, NEW todo, TodoOK(h, L, todo, k),
         todo # <<>>, NEW n, n = Head(todo), NEW q \in Quadrants,
         NEW c, c = Kid(h, n, q), c # Null, NEW g, g = SetSlot(h, n, q, Null),
         NEW t, t = <<c>> \o todo
  PROVE  Shrinks(h, g, L, L, t, k)
<1> DEFINE D == DOMAIN h
<1>1. /\ HeapOK(h) /\ KidsOK(h) /\ UpsOK(h) /\ DownsOK(h) /\ LevelsIn(h, L)
      /\ Null \notin D
      /\ \A x \in D : /\ IsNode(x) /\ L[x] \in Int /\ L[x] >= -1
                      /\ h[x].parent \in D \cup {Null} /\ h[x].up \in D \cup {Null}
                      /\ h[x].down \in D \cup {Null}
                      /\ \A r \in Quadrants : Kid(h, x, r) \in D \cup {Null}
  BY ShrunkFacts
<1>2. /\ todo \in Seq(D)
      /\ \A x \in D : HangsOn(h, todo, x) /\ L[x] <= k
      /\ \A i \in 1..Len(todo) : L[todo[i]] = k
      /\ \A i, j \in 1..Len(todo) : i < j => todo[i].length < todo[j].length
      /\ \A i \in 1..(Len(todo) - 1), x \in D, r \in Quadrants : Kid(h, x, r) # todo[i]
      /\ IsRoot(todo[Len(todo)])
  BY DEF TodoOK
<1>3. Len(todo) \in Nat \ {0} /\ n = todo[1] /\ n \in D
  <2> HIDE DEF D
  <2> QED BY <1>2, Popped
<1>4. c \in D /\ h[c].parent = n /\ q = QuadrantIn(n, c) /\ In(c, n) /\ L[c] = L[n]
  BY <1>1, <1>3 DEF KidsOK, LevelsIn
<1>5. SlotSet(h, g, D, n, q, Null)
  <2>1. Typed(h, D) BY <1>1 DEF HeapOK, Typed
  <2> QED BY <1>1, <1>3, <2>1, SetSlotIs
<1>6. /\ DOMAIN g = D /\ Typed(g, D)
      /\ \A x \in D : /\ g[x].parent = h[x].parent /\ g[x].up = h[x].up
                      /\ g[x].down = h[x].down
                      /\ \A r \in Quadrants :
                           Kid(g, x, r) = IF x = n /\ r = q THEN Null ELSE Kid(h, x, r)
  BY <1>5 DEF SlotSet
<1>7. Shrunk(g, L)
  <2>1. HeapOK(g) BY <1>1, <1>6 DEF HeapOK, Typed
  <2>2. KidsOK(g) BY <1>1, <1>6 DEF KidsOK
  <2>3. UpsOK(g) BY <1>1, <1>6 DEF UpsOK
  <2>4. DownsOK(g) BY <1>1, <1>6 DEF DownsOK
  <2>5. LevelsIn(g, L)
    <3>1. ASSUME NEW x \in D, NEW r \in Quadrants, Kid(g, x, r) # Null
          PROVE  Kid(g, x, r) = Kid(h, x, r)
      BY <1>6, <3>1
    <3>2. \A x \in D, r \in Quadrants : Kid(h, x, r) = Null => Kid(g, x, r) = Null
      BY <1>6
    <3>3. L \in [DOMAIN g -> Int] BY <1>1, <1>6 DEF LevelsIn
    <3>4. ASSUME NEW x \in D
          PROVE /\ L[x] >= -1
                /\ \A r \in Quadrants : Kid(g, x, r) # Null => L[Kid(g, x, r)] = L[x]
                /\ g[x].down # Null =>
                     L[x] = IF L[g[x].down] = -1 THEN -1 ELSE L[g[x].down] + 1
                /\ g[x].parent = Null <=> IsRoot(x)
                /\ L[x] = -1 => IsRoot(x) /\ \A r \in Quadrants : Kid(g, x, r) = Null
                /\ L[x] >= 0 => (g[x].down = Null <=> L[x] = 0)
      <4>1. g[x].parent = h[x].parent /\ g[x].down = h[x].down BY <1>6
      <4> QED BY <1>1, <3>1, <3>2, <4>1 DEF LevelsIn
    <3> QED BY <1>6, <3>3, <3>4 DEF LevelsIn
  <2>6. OneRoot(g, L) /\ (Root \in DOMAIN g => L[Root] = 0) BY <1>6 DEF Shrunk, OneRoot
  <2> QED BY <2>1, <2>2, <2>3, <2>4, <2>5, <2>6 DEF Shrunk
<1>8. /\ t \in Seq(D) /\ t # <<>> /\ Len(t) = Len(todo) + 1 /\ t[1] = c
      /\ \A i \in 1..Len(t) : t[i] = IF i = 1 THEN c ELSE todo[i - 1]
      /\ \A i \in 1..Len(todo) : t[i + 1] = todo[i] /\ i + 1 \in 1..Len(t)
  <2> HIDE DEF D
  <2>1. /\ t \in Seq(D) /\ t # <<>> /\ Len(t) = Len(todo) + 1
        /\ \A i \in 1..(Len(todo) + 1) : t[i] = IF i = 1 THEN c ELSE todo[i - 1]
    BY <1>2, <1>4, Pushed
  <2> QED BY <1>3, <2>1
<1>9. \A i \in 1..Len(t) : i = 1 \/ (i \in Int /\ i - 1 \in 1..Len(todo)) BY <1>3, <1>8
<1>10. ASSUME NEW x \in D PROVE HangsOn(g, t, x)
  <2> DEFINE y == h[x].parent
  <2> SUFFICES ASSUME y # Null
               PROVE  \/ Kid(g, y, QuadrantIn(y, x)) = x
                      \/ \E i \in 1..(Len(t) - 1) : t[i] = x /\ t[i + 1] = y
    BY <1>6 DEF HangsOn
  <2>1. y \in D /\ QuadrantIn(y, x) \in Quadrants BY <1>1, QuadrantType
  <2>2. CASE Kid(h, y, QuadrantIn(y, x)) = x
    <3>1. CASE y = n /\ QuadrantIn(y, x) = q
      <4>1. x = c BY <2>2, <3>1
      <4>2. t[1] = x /\ t[1 + 1] = y /\ 1 \in 1..(Len(t) - 1)
        BY <1>3, <1>8, <3>1, <4>1
      <4> QED BY <4>2
    <3>2. CASE ~(y = n /\ QuadrantIn(y, x) = q) BY <1>6, <2>1, <2>2, <3>2
    <3> QED BY <3>1, <3>2
  <2>3. CASE \E i \in 1..(Len(todo) - 1) : todo[i] = x /\ todo[i + 1] = y
    <3>1. PICK i \in 1..(Len(todo) - 1) : todo[i] = x /\ todo[i + 1] = y BY <2>3
    <3>2. i \in 1..Len(todo) /\ i + 1 \in 1..Len(todo) /\ i + 1 \in 1..(Len(t) - 1)
      BY <1>3, <1>8
    <3>3. t[i + 1] = x /\ t[(i + 1) + 1] = y BY <1>8, <3>1, <3>2
    <3> QED BY <3>2, <3>3
  <2>4. HangsOn(h, todo, x) BY <1>2
  <2> QED BY <2>2, <2>3, <2>4 DEF HangsOn
<1>11. ASSUME NEW i \in 1..Len(t) PROVE L[t[i]] = k
  <2>1. 1 \in 1..Len(todo) BY <1>3
  <2>2. L[c] = k BY <1>2, <1>3, <1>4, <2>1
  <2>3. i # 1 => i - 1 \in 1..Len(todo) /\ t[i] = todo[i - 1] BY <1>8, <1>9
  <2> QED BY <1>2, <1>8, <2>2, <2>3
<1>12. ASSUME NEW i \in 1..Len(t), NEW j \in 1..Len(t), i < j
       PROVE  t[i].length < t[j].length
  <2>1. j \in Int /\ j - 1 \in 1..Len(todo) /\ t[j] = todo[j - 1] /\ i \in Int
    BY <1>3, <1>8, <1>9, <1>12
  <2>2. CASE i = 1
    <3>1. t[i] = c /\ c.length < n.length BY <1>4, <1>8, <2>2 DEF In
    <3>2. j - 1 = 1 \/ 1 < j - 1 BY <2>1
    <3>3. j - 1 # 1 => n.length < todo[j - 1].length
      <4>1. 1 \in 1..Len(todo) BY <1>3
      <4>2. j - 1 # 1 => todo[1].length < todo[j - 1].length BY <1>2, <2>1, <3>2, <4>1
      <4> QED BY <1>3, <4>2
    <3>4. c \in D /\ n \in D /\ todo[j - 1] \in D BY <1>2, <1>3, <1>4, <2>1
    <3>5. c.length \in Nat /\ n.length \in Nat /\ todo[j - 1].length \in Nat
      BY <1>1, <3>4, NodeFacts
    <3> QED BY <1>3, <2>1, <3>1, <3>3, <3>5
  <2>3. CASE i # 1
    <3>1. i - 1 \in 1..Len(todo) /\ t[i] = todo[i - 1] /\ i - 1 < j - 1
      BY <1>8, <1>9, <1>12, <2>1, <2>3
    <3> QED BY <1>2, <2>1, <3>1
  <2> QED BY <2>2, <2>3
<1>13. ASSUME NEW i \in 1..(Len(t) - 1), NEW x \in D, NEW r \in Quadrants,
              Kid(g, x, r) = t[i]
       PROVE  FALSE
  <2>1. i \in 1..Len(t) /\ t[i] \in D /\ t[i] # Null BY <1>1, <1>3, <1>8
  <2>2. Kid(h, x, r) = t[i] /\ ~(x = n /\ r = q) BY <1>6, <1>13, <2>1
  <2>3. CASE i = 1
    <3>1. Kid(h, x, r) = c BY <1>8, <2>2, <2>3
    <3>2. x = n /\ r = q BY <1>1, <1>4, <3>1 DEF KidsOK
    <3> QED BY <2>2, <3>2
  <2>4. CASE i # 1
    <3>1. t[i] = todo[i - 1] /\ i - 1 \in 1..(Len(todo) - 1)
      BY <1>3, <1>8, <2>1, <2>4
    <3> QED BY <1>2, <2>2, <3>1
  <2> QED BY <2>3, <2>4
<1>14. IsRoot(t[Len(t)])
  <2>1. Len(t) = Len(todo) + 1 /\ Len(todo) \in 1..Len(todo) BY <1>3, <1>8
  <2>2. t[Len(t)] = todo[Len(todo)] BY <1>8, <2>1
  <2> QED BY <1>2, <2>2
<1>15. TodoOK(g, L, t, k)
  BY <1>2, <1>6, <1>8, <1>10, <1>11, <1>12, <1>13, <1>14 DEF TodoOK
<1>16. Holds(g) = Holds(h)
  <2>1. {x \in DOMAIN g : ~x.square /\ g[x].down = Null}
          = {x \in DOMAIN h : ~x.square /\ h[x].down = Null}
    BY <1>6
  <2> QED BY <2>1 DEF Holds
<1>17. \A x : Stands(h, L, x) => Stands(g, L, x) BY <1>6 DEF Stands
<1> QED BY <1>7, <1>15, <1>16, <1>17 DEF Shrinks
(* The node to free is on the highest level left, and nothing leads to it. *)
Loose(h, L, k, todo, n) ==
  /\ n \in DOMAIN h /\ n = todo[1] /\ L[n] = k /\ Len(todo) \in Nat \ {0}
  /\ h[n].up = Null
  /\ \A i \in 1..Len(todo) : i # 1 => todo[i] # n
  /\ \A x \in DOMAIN h : h[x].parent # n /\ h[x].down # n
  /\ \A x \in DOMAIN h, q \in Quadrants : Kid(h, x, q) # n
LEMMA NothingLeads ==
  ASSUME NEW h, NEW L, Shrunk(h, L), NEW k \in Nat, NEW todo, TodoOK(h, L, todo, k),
         todo # <<>>, NEW n, n = Head(todo), \A q \in Quadrants : Kid(h, n, q) = Null
  PROVE  Loose(h, L, k, todo, n)
<1> DEFINE D == DOMAIN h
<1>1. /\ HeapOK(h) /\ KidsOK(h) /\ UpsOK(h) /\ DownsOK(h) /\ LevelsIn(h, L)
      /\ Null \notin D
      /\ \A x \in D : /\ IsNode(x) /\ L[x] \in Int /\ L[x] >= -1
                      /\ h[x].parent \in D \cup {Null} /\ h[x].up \in D \cup {Null}
                      /\ h[x].down \in D \cup {Null}
                      /\ \A r \in Quadrants : Kid(h, x, r) \in D \cup {Null}
  BY ShrunkFacts
<1>2. /\ todo \in Seq(D)
      /\ \A x \in D : HangsOn(h, todo, x) /\ L[x] <= k
      /\ \A i \in 1..Len(todo) : L[todo[i]] = k
      /\ \A i, j \in 1..Len(todo) : i < j => todo[i].length < todo[j].length
      /\ \A i \in 1..(Len(todo) - 1), x \in D, r \in Quadrants : Kid(h, x, r) # todo[i]
      /\ IsRoot(todo[Len(todo)])
  BY DEF TodoOK
<1>3. Len(todo) \in Nat \ {0} /\ n = todo[1] /\ n \in D
  <2> HIDE DEF D
  <2> QED BY <1>2, Popped
<1>4. 1 \in 1..Len(todo) /\ L[n] = k
  <2>1. 1 \in 1..Len(todo) BY <1>3
  <2> QED BY <1>2, <1>3, <2>1
<1>5. h[n].up = Null
  <2> SUFFICES ASSUME h[n].up # Null PROVE FALSE OBVIOUS
  <2> DEFINE u == h[n].up
  <2>1. u \in D /\ h[u].down = n BY <1>1, <1>3 DEF UpsOK
  <2>2. L[u] = IF L[n] = -1 THEN -1 ELSE L[n] + 1 BY <1>1, <1>3, <2>1 DEF LevelsIn
  <2>3. L[u] <= k BY <1>2, <2>1
  <2> QED BY <1>4, <2>2, <2>3
<1>6. ASSUME NEW i \in 1..Len(todo), i # 1 PROVE todo[i] # n
  <2>1. n.length < todo[i].length
    <3>1. 1 < i BY <1>6
    <3> QED BY <1>2, <1>3, <1>4, <3>1
  <2>2. n.length \in Nat BY <1>1, <1>3, NodeFacts
  <2> QED BY <2>1, <2>2
<1>7. ASSUME NEW x \in D, h[x].parent = n PROVE FALSE
  <2>1. HangsOn(h, todo, x) /\ n # Null BY <1>1, <1>2, <1>3
  <2>2. Kid(h, n, QuadrantIn(n, x)) = Null BY QuadrantType
  <2>3. PICK i \in 1..(Len(todo) - 1) : todo[i + 1] = n
    BY <1>1, <1>7, <2>1, <2>2 DEF HangsOn
  <2>4. i + 1 \in 1..Len(todo) /\ i + 1 # 1 BY <1>3
  <2> QED BY <1>6, <2>3, <2>4
<1>8. ASSUME NEW x \in D, h[x].down = n PROVE FALSE
  <2>1. h[n].up = x BY <1>1, <1>3, <1>8 DEF DownsOK
  <2> QED BY <1>1, <1>5, <2>1
<1>9. ASSUME NEW x \in D, NEW q \in Quadrants, Kid(h, x, q) = n PROVE FALSE
  <2>1. CASE Len(todo) = 1
    <3>1. IsRoot(n) BY <1>2, <1>3, <2>1
    <3>2. In(n, x) BY <1>1, <1>3, <1>9 DEF KidsOK
    <3> QED BY <1>1, <3>1, <3>2, RootInNothing
  <2>2. CASE Len(todo) # 1
    <3>1. 1 \in 1..(Len(todo) - 1) BY <1>3, <2>2
    <3> QED BY <1>2, <1>3, <1>9, <3>1
  <2> QED BY <2>1, <2>2
<1> QED BY <1>3, <1>4, <1>5, <1>6, <1>7, <1>8, <1>9 DEF Loose

(* After its root the level is empty.                                      *)
LEMMA LastOfLevel ==
  ASSUME NEW h, NEW L, Shrunk(h, L), NEW k \in Nat, NEW todo, TodoOK(h, L, todo, k),
         todo # <<>>, Len(todo) = 1, NEW n, n = Head(todo),
         \A q \in Quadrants : Kid(h, n, q) = Null,
         NEW x \in DOMAIN h, x # n, L[x] = k
  PROVE  FALSE
<1> DEFINE D == DOMAIN h
           X == {y \in D : y # n /\ L[y] = k}
           S == {RootLength - y.length : y \in X}
<1>1. /\ HeapOK(h) /\ KidsOK(h) /\ LevelsIn(h, L) /\ Null \notin D
      /\ \A y \in D : IsNode(y) /\ h[y].parent \in D \cup {Null} /\ L[y] \in Int
  BY ShrunkFacts
<1>2. n \in D /\ n = todo[1] /\ L[n] = k
  <2>1. Loose(h, L, k, todo, n) BY NothingLeads
  <2> QED BY <2>1 DEF Loose
<1>3. IsRoot(n) /\ \A y \in D : HangsOn(h, todo, y) BY <1>2 DEF TodoOK
<1>4. RootLength \in Nat BY GeometryAssumption
<1>5. \A y \in D : y.length \in Nat /\ y.length <= RootLength BY <1>1, NodeFacts
<1>6. S \in SUBSET Nat /\ S # {}
  <2>1. \A y \in X : RootLength - y.length \in Nat BY <1>4, <1>5
  <2>2. x \in X OBVIOUS
  <2> QED BY <2>1, <2>2
<1> HIDE DEF S
<1>7. PICK v \in S : \A w \in S : v <= w BY <1>6, NatMin
<1>8. PICK y \in X : v = RootLength - y.length BY <1>7 DEF S
<1>9. y \in D /\ y # n /\ L[y] = k BY <1>8
<1>10. ~IsRoot(y)
  <2>1. OneRoot(h, L) BY DEF Shrunk
  <2> QED BY <1>2, <1>3, <1>9, <2>1 DEF OneRoot
<1> DEFINE z == h[y].parent
<1>11. z # Null /\ z \in D BY <1>1, <1>9, <1>10 DEF LevelsIn
<1>12. Kid(h, z, QuadrantIn(z, y)) = y
  <2>1. ~(\E i \in 1..(Len(todo) - 1) : todo[i] = y /\ todo[i + 1] = z) OBVIOUS
  <2>2. HangsOn(h, todo, y) BY <1>3, <1>9
  <2> QED BY <1>11, <2>1, <2>2 DEF HangsOn
<1>13. In(y, z) /\ L[y] = L[z] /\ z # n
  <2>1. QuadrantIn(z, y) \in Quadrants /\ y # Null BY <1>1, <1>9, QuadrantType
  <2> QED BY <1>1, <1>11, <1>12, <2>1 DEF KidsOK, LevelsIn
<1>14. z \in X BY <1>9, <1>11, <1>13
<1>15. RootLength - z.length \in S BY <1>14 DEF S
<1>16. y.length < z.length BY <1>13 DEF In
<1> QED BY <1>4, <1>5, <1>7, <1>8, <1>9, <1>11, <1>15, <1>16

LEMMA FreesOne ==
  ASSUME NEW h, NEW L, Shrunk(h, L), NEW k \in Nat, NEW todo, TodoOK(h, L, todo, k),
         todo # <<>>, NEW n, n = Head(todo), \A q \in Quadrants : Kid(h, n, q) = Null,
         NEW g, g = Node_free(h, n), NEW t, t = Tail(todo), NEW M,
         M = Only(L, DOMAIN h \ {n})
  PROVE  Shrinks(h, g, L, M, t, k)
<1> DEFINE D == DOMAIN h
<1>1. /\ HeapOK(h) /\ KidsOK(h) /\ UpsOK(h) /\ DownsOK(h) /\ LevelsIn(h, L)
      /\ Null \notin D /\ IsFiniteSet(D) /\ OneRoot(h, L) /\ (Root \in D => L[Root] = 0)
      /\ \A x \in D : /\ IsNode(x) /\ L[x] \in Int /\ L[x] >= -1
                      /\ h[x].parent \in D \cup {Null} /\ h[x].up \in D \cup {Null}
                      /\ h[x].down \in D \cup {Null}
                      /\ \A r \in Quadrants : Kid(h, x, r) \in D \cup {Null}
  BY ShrunkFacts DEF Shrunk, HeapOK
<1>2. /\ todo \in Seq(D)
      /\ \A x \in D : HangsOn(h, todo, x) /\ L[x] <= k
      /\ \A i \in 1..Len(todo) : L[todo[i]] = k
      /\ \A i, j \in 1..Len(todo) : i < j => todo[i].length < todo[j].length
      /\ \A i \in 1..(Len(todo) - 1), x \in D, r \in Quadrants : Kid(h, x, r) # todo[i]
      /\ IsRoot(todo[Len(todo)])
  BY DEF TodoOK
<1>3. /\ n \in D /\ n = todo[1] /\ L[n] = k /\ Len(todo) \in Nat \ {0}
      /\ h[n].up = Null
      /\ \A i \in 1..Len(todo) : i # 1 => todo[i] # n
      /\ \A x \in D : h[x].parent # n /\ h[x].down # n
      /\ \A x \in D, q \in Quadrants : Kid(h, x, q) # n
  <2>1. Loose(h, L, k, todo, n) BY NothingLeads
  <2> QED BY <2>1 DEF Loose
<1>4. FreeShape(h, g, n, D)
  <2>1. Typed(h, D) BY <1>1 DEF HeapOK, Typed
  <2> QED BY <1>1, <1>3, <2>1, FreeIs
<1>5. /\ DOMAIN g = D \ {n} /\ Typed(g, D)
      /\ \A x \in D \ {n} :
           /\ g[x].parent = h[x].parent /\ g[x].down = h[x].down
           /\ g[x].up = IF x = h[n].down THEN Null ELSE h[x].up
           /\ \A r \in Quadrants : Kid(g, x, r) = Kid(h, x, r)
  BY <1>1, <1>3, <1>4 DEF FreeShape
<1>6. /\ \A x \in D \ {n} : M[x] = L[x]
      /\ M \in [D \ {n} -> Int]
  BY <1>1 DEF Only
<1>7. \A x \in D \ {n} : h[x].up = n => x = h[n].down BY <1>1, <1>3 DEF UpsOK
<1>8. \A x \in D \ {n} :
        /\ g[x].parent \in (D \ {n}) \cup {Null} /\ g[x].up \in (D \ {n}) \cup {Null}
        /\ g[x].down \in (D \ {n}) \cup {Null}
        /\ \A r \in Quadrants : Kid(g, x, r) \in (D \ {n}) \cup {Null}
  BY <1>1, <1>3, <1>5, <1>7
<1>9. HeapOK(g)
  <2>1. IsFiniteSet(D \ {n}) BY <1>1, FS_RemoveElement
  <2>2. Typed(g, D \ {n})
    <3> HIDE DEF D
    <3> QED BY <1>5, <1>8, Retyped
  <2> QED BY <1>1, <1>5, <2>1, <2>2 DEF HeapOK, Typed
<1>10. KidsOK(g) BY <1>1, <1>5, <1>8 DEF KidsOK
<1>11. UpsOK(g) BY <1>1, <1>5, <1>8 DEF UpsOK
<1>12. DownsOK(g)
  <2>1. ASSUME NEW x \in D \ {n}, g[x].down # Null
        PROVE  g[g[x].down].up = x /\ Same(x, g[x].down)
    <3>1. g[x].down = h[x].down /\ g[x].down \in D \ {n} BY <1>5, <1>8, <2>1
    <3>2. h[h[x].down].up = x /\ Same(x, h[x].down) BY <1>1, <2>1, <3>1 DEF DownsOK
    <3>3. h[x].down # h[n].down
      <4>1. h[n].down # Null => h[h[n].down].up = n BY <1>1, <1>3 DEF DownsOK
      <4> QED BY <2>1, <3>1, <3>2, <4>1
    <3> QED BY <1>5, <3>1, <3>2, <3>3
  <2> QED BY <1>5, <2>1 DEF DownsOK
<1>13. LevelsIn(g, M)
  <2>1. ASSUME NEW x \in D \ {n}
        PROVE /\ M[x] >= -1
              /\ \A r \in Quadrants : Kid(g, x, r) # Null => M[Kid(g, x, r)] = M[x]
              /\ g[x].down # Null =>
                   M[x] = IF M[g[x].down] = -1 THEN -1 ELSE M[g[x].down] + 1
              /\ g[x].parent = Null <=> IsRoot(x)
              /\ M[x] = -1 => IsRoot(x) /\ \A r \in Quadrants : Kid(g, x, r) = Null
              /\ M[x] >= 0 => (g[x].down = Null <=> M[x] = 0)
    <3>1. /\ \A r \in Quadrants : Kid(h, x, r) # Null => L[Kid(h, x, r)] = L[x]
          /\ h[x].down # Null =>
               L[x] = IF L[h[x].down] = -1 THEN -1 ELSE L[h[x].down] + 1
          /\ h[x].parent = Null <=> IsRoot(x)
          /\ L[x] = -1 => IsRoot(x) /\ \A r \in Quadrants : Kid(h, x, r) = Null
          /\ L[x] >= 0 => (h[x].down = Null <=> L[x] = 0)
      BY <1>1 DEF LevelsIn
    <3>2. M[x] = L[x] /\ L[x] >= -1 BY <1>1, <1>6
    <3>3. ASSUME NEW r \in Quadrants, Kid(g, x, r) # Null
          PROVE  M[Kid(g, x, r)] = M[x]
      <4>1. Kid(g, x, r) = Kid(h, x, r) /\ Kid(g, x, r) \in D \ {n} BY <1>5, <1>8, <3>3
      <4>2. M[Kid(g, x, r)] = L[Kid(g, x, r)] BY <1>6, <4>1
      <4> QED BY <3>1, <3>2, <3>3, <4>1, <4>2
    <3>4. ASSUME g[x].down # Null
          PROVE  M[x] = IF M[g[x].down] = -1 THEN -1 ELSE M[g[x].down] + 1
      <4>1. g[x].down = h[x].down /\ g[x].down \in D \ {n} BY <1>5, <1>8, <3>4
      <4>2. M[g[x].down] = L[g[x].down] BY <1>6, <4>1
      <4> QED BY <3>1, <3>2, <3>4, <4>1, <4>2
    <3> QED BY <1>5, <3>1, <3>2, <3>3, <3>4
  <2> QED BY <1>5, <1>6, <2>1 DEF LevelsIn
<1>14. OneRoot(g, M)
  <2> SUFFICES ASSUME NEW r \in D \ {n}, NEW s \in D \ {n}, IsRoot(r), IsRoot(s),
                      M[r] = M[s], M[r] >= 0
               PROVE  r = s
    BY <1>5 DEF OneRoot
  <2>1. L[r] = L[s] /\ L[r] >= 0 BY <1>6
  <2> QED BY <1>1, <2>1 DEF OneRoot
<1>15. Shrunk(g, M)
  BY <1>1, <1>5, <1>6, <1>9, <1>10, <1>11, <1>12, <1>13, <1>14 DEF Shrunk
<1>16. /\ t \in Seq(D) /\ Len(t) = Len(todo) - 1
       /\ \A i \in 1..Len(t) : /\ t[i] = todo[i + 1] /\ i + 1 \in 1..Len(todo)
                               /\ i \in Int /\ i + 1 # 1 /\ t[i] # n /\ t[i] \in D
  <2>1. t \in Seq(D) /\ Len(t) = Len(todo) - 1
        /\ \A i \in 1..(Len(todo) - 1) : t[i] = todo[i + 1]
    <3> HIDE DEF D
    <3> QED BY <1>2, Popped
  <2>2. ASSUME NEW i \in 1..Len(t)
        PROVE t[i] = todo[i + 1] /\ i + 1 \in 1..Len(todo) /\ i \in Int /\ i + 1 # 1
    BY <1>3, <2>1
  <2> QED BY <1>2, <1>3, <2>1, <2>2
<1>17. t \in Seq(D \ {n})
  <2>1. \A i \in 1..Len(t) : t[i] \in D \ {n} BY <1>16
  <2> HIDE DEF D
  <2> QED BY <1>16, <2>1, Reseq
<1>18. ASSUME NEW x \in D \ {n} PROVE HangsOn(g, t, x)
  <2> DEFINE y == h[x].parent
  <2> SUFFICES ASSUME y # Null
               PROVE  \/ Kid(g, y, QuadrantIn(y, x)) = x
                      \/ \E i \in 1..(Len(t) - 1) : t[i] = x /\ t[i + 1] = y
    BY <1>5 DEF HangsOn
  <2>1. y \in D \ {n} /\ QuadrantIn(y, x) \in Quadrants BY <1>1, <1>3, QuadrantType
  <2>2. HangsOn(h, todo, x) BY <1>2
  <2>3. CASE Kid(h, y, QuadrantIn(y, x)) = x BY <1>5, <2>1, <2>3
  <2>4. CASE \E i \in 1..(Len(todo) - 1) : todo[i] = x /\ todo[i + 1] = y
    <3>1. PICK i \in 1..(Len(todo) - 1) : todo[i] = x /\ todo[i + 1] = y BY <2>4
    <3>2. i # 1 BY <1>3, <3>1
    <3>3. i - 1 \in 1..(Len(t) - 1) /\ i - 1 \in 1..Len(t) /\ i \in 1..Len(t)
      BY <1>3, <1>16, <3>2
    <3>4. t[i - 1] = todo[(i - 1) + 1] /\ t[i] = todo[i + 1] BY <1>16, <3>3
    <3>5. (i - 1) + 1 = i OBVIOUS
    <3>6. t[i - 1] = x /\ t[(i - 1) + 1] = y BY <3>1, <3>4, <3>5
    <3> QED BY <3>3, <3>6
  <2> QED BY <2>2, <2>3, <2>4 DEF HangsOn
<1>19. ASSUME NEW x \in D \ {n}
       PROVE  M[x] <= IF t = <<>> THEN k - 1 ELSE k
  <2>1. M[x] = L[x] /\ L[x] \in Int /\ L[x] <= k BY <1>1, <1>2, <1>6
  <2>2. ASSUME t = <<>> PROVE L[x] # k
    <3>1. Len(t) = 0
      <4>1. Len(<<>>) = 0 OBVIOUS
      <4> QED BY <2>2, <4>1
    <3>2. Len(todo) = 1 BY <1>3, <1>16, <3>1
    <3> QED BY <3>2, LastOfLevel
  <2> QED BY <2>1, <2>2
<1>20. ASSUME NEW i \in 1..Len(t) PROVE M[t[i]] = k
  <2>1. t[i] \in D \ {n} /\ t[i] = todo[i + 1] /\ i + 1 \in 1..Len(todo) BY <1>16
  <2>2. M[t[i]] = L[t[i]] BY <1>6, <2>1
  <2>3. L[todo[i + 1]] = k BY <1>2, <2>1
  <2> QED BY <2>1, <2>2, <2>3
<1>21. ASSUME NEW i \in 1..Len(t), NEW j \in 1..Len(t), i < j
       PROVE  t[i].length < t[j].length
  <2>1. i + 1 < j + 1 BY <1>16, <1>21
  <2> QED BY <1>2, <1>16, <2>1
<1>22. ASSUME NEW i \in 1..(Len(t) - 1), NEW x \in D \ {n}, NEW q \in Quadrants
       PROVE  Kid(g, x, q) # t[i]
  <2>1. i \in 1..Len(t) /\ i + 1 \in 1..(Len(todo) - 1) BY <1>3, <1>16
  <2> QED BY <1>2, <1>5, <1>16, <2>1
<1>23. t # <<>> => IsRoot(t[Len(t)])
  <2> SUFFICES ASSUME t # <<>> PROVE IsRoot(t[Len(t)]) OBVIOUS
  <2>1. Len(t) \in Nat \ {0}
    <3> HIDE DEF D
    <3> QED BY <1>16, Popped
  <2>2. Len(t) \in 1..Len(t) /\ Len(t) + 1 = Len(todo) BY <1>3, <1>16, <2>1
  <2>3. t[Len(t)] = todo[Len(todo)] BY <1>16, <2>2
  <2> QED BY <1>2, <2>3
<1>24. TodoOK(g, M, t, k)
  BY <1>5, <1>17, <1>18, <1>19, <1>20, <1>21, <1>22, <1>23 DEF TodoOK
<1>25. Holds(g) \subseteq Holds(h)
  <2>1. {x \in DOMAIN g : ~x.square /\ g[x].down = Null}
          \subseteq {x \in DOMAIN h : ~x.square /\ h[x].down = Null}
    BY <1>5
  <2> QED BY <2>1 DEF Holds
<1>26. \A x : Stands(h, L, x) /\ L[x] # k => Stands(g, M, x) /\ M[x] = L[x]
  BY <1>3, <1>5, <1>6 DEF Stands
<1> QED BY <1>15, <1>24, <1>25, <1>26 DEF Shrinks
LEMMA FreeNodeStep ==
  ASSUME Inv, FreeNode
  PROVE  Inv' /\ Sim
<1> DEFINE n == Head(pending)
           q == CHOOSE r \in Quadrants : heap[n].child[r] # Null
           c == Kid(heap, n, q)
<1>1. /\ pc = "free" /\ pc' = pc /\ call.op = "free" /\ pending # <<>> /\ cur' = cur
      /\ frames' = frames /\ low' = low /\ call' = call /\ lost' = lost /\ ans' = ans
      /\ IF Children(heap, n) # {}
         THEN heap' = SetSlot(heap, n, q, Null) /\ pending' = <<c>> \o pending
         ELSE heap' = Node_free(heap, n) /\ pending' = Tail(pending)
  BY DEF FreeNode, At, Kid, Quadrants
<1>2. CallOK /\ \E L : Freeing(L) BY <1>1 DEF Inv
<1>3. PICK L : Freeing(L) BY <1>2
<1>4. PICK k : k = IF cur = Null THEN 0 ELSE L[cur] + 1 OBVIOUS
<1>5. /\ frames = <<>> /\ low = Null /\ Shrunk(heap, L)
      /\ cur = Null \/ (Stands(heap, L, cur) /\ IsRoot(cur))
      /\ TodoOK(heap, L, pending, k)
  BY <1>3, <1>4 DEF Freeing
<1>6. k \in Nat /\ k \in Int /\ (cur # Null => L[cur] # k)
  <2>1. cur # Null => L[cur] \in Int /\ L[cur] >= 0 BY <1>5, ShrunkFacts DEF Stands
  <2> QED BY <1>4, <2>1
<1>7. n \in DOMAIN heap
  <2>1. pending \in Seq(DOMAIN heap) BY <1>5 DEF TodoOK
  <2> QED BY <1>1, <2>1, Popped
<1>8. CallOK' BY <1>1, <1>2 DEF CallOK
<1>9. Contents = Holds(heap) /\ Contents' = Holds(heap') BY DEF Contents, Holds
<1>10. Children(heap, n) = {} <=> \A r \in Quadrants : Kid(heap, n, r) = Null
  BY <1>5, <1>7, CountFacts DEF Shrunk
<1> HIDE DEF n
<1>11. \E M : Shrinks(heap, heap', L, M, pending', k)
  <2>1. CASE Children(heap, n) # {}
    <3>1. q \in Quadrants /\ c # Null BY <1>10, <2>1 DEF Kid
    <3> HIDE DEF q
    <3>2. c = Kid(heap, n, q) OBVIOUS
    <3> HIDE DEF c
    <3>3. heap' = SetSlot(heap, n, q, Null) /\ pending' = <<c>> \o pending BY <1>1, <2>1
    <3>4. n = Head(pending) BY DEF n
    <3>5. Shrinks(heap, heap', L, L, pending', k)
      BY <1>1, <1>5, <1>6, <3>1, <3>2, <3>3, <3>4, CutsOff
    <3> QED BY <3>5
  <2>2. CASE Children(heap, n) = {}
    <3>1. PICK M : M = Only(L, DOMAIN heap \ {n}) OBVIOUS
    <3>2. heap' = Node_free(heap, n) /\ pending' = Tail(pending) BY <1>1, <2>2
    <3>3. \A r \in Quadrants : Kid(heap, n, r) = Null BY <1>10, <2>2
    <3>4. n = Head(pending) BY DEF n
    <3>5. Shrinks(heap, heap', L, M, pending', k)
      BY <1>1, <1>5, <1>6, <3>1, <3>2, <3>3, <3>4, FreesOne
    <3> QED BY <3>5
  <2> QED BY <2>1, <2>2
<1>12. PICK M : Shrinks(heap, heap', L, M, pending', k) BY <1>11
<1>13. cur # Null => Stands(heap', M, cur) /\ IsRoot(cur) /\ M[cur] = L[cur]
  BY <1>5, <1>6, <1>12 DEF Shrinks
<1>14. k = IF cur = Null THEN 0 ELSE M[cur] + 1 BY <1>4, <1>13
<1>15. Freeing(M)' BY <1>1, <1>5, <1>12, <1>13, <1>14 DEF Freeing, Shrinks
<1>16. Inv' BY <1>1, <1>8, <1>15 DEF Inv
<1>17. Contents' \subseteq Contents BY <1>9, <1>12 DEF Shrinks
<1>18. Sim
  <2>1. Phase = "busy" /\ Phase' = "busy" BY <1>1 DEF Phase
  <2> QED BY <1>1, <1>17, <2>1 DEF Sim, ASet!SetNext, ASet!Shrink
<1> QED BY <1>16, <1>18

LEMMA FreeDoneStep ==
  ASSUME Inv, FreeDone
  PROVE  Inv' /\ Sim
<1>1. pc = "free" /\ call.op = "free" /\ pending = <<>> /\ cur = Null /\ Finish(TRUE)
  BY DEF FreeDone, At
<1>2. CallOK /\ \E L : Freeing(L) BY <1>1 DEF Inv
<1>3. PICK L : Freeing(L) BY <1>2
<1>4. Shrunk(heap, L) /\ TodoOK(heap, L, <<>>, 0) BY <1>1, <1>3 DEF Freeing
<1>5. HeapOK(heap) /\ KidsOK(heap) /\ UpsOK(heap) /\ DownsOK(heap) /\ LevelsIn(heap, L)
  BY <1>4 DEF Shrunk
<1>6. ASSUME NEW x \in DOMAIN heap
      PROVE  L[x] = -1 /\ IsRoot(x) /\ heap[x].parent = Null /\ x.square
  <2>1. L[x] <= 0 - 1 BY <1>4 DEF TodoOK
  <2>2. L[x] = -1 BY <1>4, <2>1, ShrunkFacts
  <2> QED BY <1>5, <2>2, RootFacts DEF LevelsIn
<1>7. TreeOK(heap, L)
  <2>1. Root \notin DOMAIN heap
    <3>1. Root \in DOMAIN heap => L[Root] = 0 BY <1>4 DEF Shrunk
    <3> QED BY <1>6, <3>1
  <2>2. LevelsOK(heap, L) BY <1>5, <1>6, <2>1 DEF LevelsOK
  <2>3. LinksOK(heap) BY <1>5, <1>6 DEF LinksOK, ParentsOK
  <2>4. \A x \in DOMAIN heap : ~(L[x] >= 0) BY <1>6
  <2>5. OneRoot(heap, L) BY <2>4 DEF OneRoot
  <2>6. LeastOK(heap, L) BY <2>4 DEF LeastOK, Level
  <2>7. PartedOK(heap, L) BY <2>4 DEF PartedOK, Level
  <2> QED BY <1>5, <2>2, <2>3, <2>5, <2>6, <2>7 DEF TreeOK
<1>8. AllThick(heap, {}) BY <1>6 DEF AllThick
<1>9. Contents = {} BY <1>6 DEF Contents
<1>10. Contents = ASet!After(call) /\ ASet!MayAnswer(call, TRUE)
  BY <1>1, <1>9 DEF ASet!After, ASet!MayAnswer
<1> QED BY <1>1, <1>2, <1>7, <1>8, <1>10, Finishing
-----------------------------------------------------------------------------
(* Every step keeps the invariant and is a step of the set of points.      *)
LEMMA NothingChanges ==
  ASSUME Inv, UNCHANGED vars
  PROVE  Inv' /\ Sim
<1>1. /\ heap' = heap /\ call' = call /\ pc' = pc /\ cur' = cur /\ gap' = gap
      /\ frames' = frames /\ sq' = sq /\ low' = low /\ pending' = pending /\ ans' = ans
      /\ lost' = lost
  BY DEF vars
<1>2. Contents' = Contents /\ P' = P /\ Frame' = Frame BY <1>1 DEF Contents, P, Frame
<1>3. Sibling' = Sibling BY <1>1, <1>2 DEF Sibling, Slot
<1>4. CallOK' BY <1>1 DEF Inv, CallOK
<1>5. CASE pc = "free"
  <2>1. PICK L : Freeing(L) BY <1>5 DEF Inv
  <2>2. Freeing(L)' BY <1>1, <2>1 DEF Freeing
  <2> QED BY <1>1, <1>2, <1>4, <1>5, <2>2, QuietStep DEF Inv, Quiet, Phase
<1>6. CASE pc # "free"
  <2>1. PICK L : TreeOK(heap, L) /\ Located(L) BY <1>6 DEF Inv
  <2>2. Idle => Idle' BY <1>1 DEF Idle, Unused
  <2>3. Answered => Answered' BY <1>1, <1>2, <2>2 DEF Answered
  <2>4. Rising(L) => Rising(L)' BY <1>1, <1>2 DEF Rising, Unused
  <2>5. Searching(L) => Searching(L)' BY <1>1, <1>2 DEF Searching, Unused
  <2>6. Locating(L) => Locating(L)' BY <1>1, <1>2 DEF Locating, Unused
  <2>7. Entering(L) => Entering(L)' BY <1>1, <1>2 DEF Entering, Descending
  <2>8. Walking(L) => Walking(L)' BY <1>1, <1>2 DEF Walking, Descending
  <2>9. Inserting(L) => Inserting(L)' BY <1>1, <1>2 DEF Inserting
  <2>10. Splitting => Splitting' BY <1>1, <1>2, <1>3 DEF Splitting
  <2>11. Finding(L) => Finding(L)' BY <1>1, <1>2, <1>3 DEF Finding
  <2>12. Unlinking(L) => Unlinking(L)' BY <1>1, <1>2 DEF Unlinking
  <2>13. Leaves' = Leaves BY <1>1 DEF Leaves
  <2>14. Located(L)'
    BY <1>1, <2>1, <2>2, <2>3, <2>4, <2>5, <2>6, <2>7, <2>8, <2>9, <2>10, <2>11,
       <2>12, <2>13 DEF Located, At
  <2>15. Inv' BY <1>1, <1>4, <1>6, <2>1, <2>14 DEF Inv
  <2> QED BY <1>1, <1>2, <2>15, QuietStep DEF Quiet, Phase
<1> QED BY <1>5, <1>6

LEMMA EveryStep ==
  ASSUME Inv, [Next]_vars
  PROVE  Inv' /\ Sim
<1>1. CASE \E op \in {"add", "remove", "search", "free"}, p \in Points : Begin(op, p)
  <2>1. PICK op \in {"add", "remove", "search", "free"}, p \in Points : Begin(op, p)
    BY <1>1
  <2> QED BY <2>1, BeginStep
<1>2. CASE Return BY <1>2, ReturnStep
<1>3. CASE GoUp BY <1>3, GoUpStep
<1>4. CASE AtTop BY <1>4, AtTopStep
<1>5. CASE SearchStep BY <1>5, SearchStepStep
<1>6. CASE Climb BY <1>6, ClimbStep
<1>7. CASE StopClimbing BY <1>7, StopClimbingStep
<1>8. CASE AddEnter BY <1>8, AddEnterStep
<1>9. CASE Walk BY <1>9, WalkStep
<1>10. CASE WalkEnds BY <1>10, WalkEndsStep
<1>11. CASE SkipLevel BY <1>11, SkipLevelStep
<1>12. CASE InsertInEmptySlot BY <1>12, InsertInEmptySlotStep
<1>13. CASE StartSquare BY <1>13, StartSquareStep
<1>14. CASE HalveSquare BY <1>14, HalveSquareStep
<1>15. CASE SplitBottom BY <1>15, SplitBottomStep
<1>16. CASE SplitUpper BY <1>16, SplitUpperStep
<1>17. CASE FindDown BY <1>17, FindDownStep
<1>18. CASE FoundDown BY <1>18, FoundDownStep
<1>19. CASE AddDone BY <1>19, AddDoneStep
<1>20. CASE Locate BY <1>20, LocateStep
<1>21. CASE RemoveNode BY <1>21, RemoveNodeStep
<1>22. CASE RemoveDone BY <1>22, RemoveDoneStep
<1>23. CASE FreeLevel BY <1>23, FreeLevelStep
<1>24. CASE FreeNode BY <1>24, FreeNodeStep
<1>25. CASE FreeDone BY <1>25, FreeDoneStep
<1>26. CASE Freed \/ UNCHANGED vars BY <1>26, NothingChanges DEF Freed
<1> QED
  BY <1>1, <1>2, <1>3, <1>4, <1>5, <1>6, <1>7, <1>8, <1>9, <1>10, <1>11, <1>12,
     <1>13, <1>14, <1>15, <1>16, <1>17, <1>18, <1>19, <1>20, <1>21, <1>22, <1>23,
     <1>24, <1>25, <1>26 DEF Next, Step

(* The invariant of the calls holds whatever is called and in what order.  *)
THEOREM InvariantHolds == Spec => []Inv
<1>1. Init => Inv BY Begins
<1>2. Inv /\ [Next]_vars => Inv' BY EveryStep
<1> QED BY <1>1, <1>2, PTL DEF Spec
-----------------------------------------------------------------------------
(* What the invariant says of the tree.                                    *)
LEMMA HeapIsOK ==
  ASSUME NEW h, NEW L, TreeOK(h, L)
  PROVE  HeapOK(h) /\ KidsOK(h)
BY DEF TreeOK, LinksOK

(* Children, as the code finds them.                                       *)
LEMMA KidsAreChildren ==
  ASSUME NEW h, NEW n, NEW c
  PROVE  c \in Children(h, n) <=> \E q \in Quadrants : Kid(h, n, q) = c /\ c # Null
BY DEF Children, Kid, Quadrants

LEMMA FramesAlive ==
  ASSUME NEW h, NEW L, NEW p, NEW fs, NEW k, FramesOK(h, L, p, fs, k)
  PROVE  \A i \in DOMAIN fs : fs[i].parent \in DOMAIN h
<1>1. fs \in Seq([parent : DOMAIN h, gap : Nat]) BY DEF FramesOK
<1>2. DOMAIN fs = 1..Len(fs) BY <1>1
<1> QED BY <1>2 DEF FramesOK, FrameOK, Stands

LEMMA TodoAlive ==
  ASSUME NEW S, NEW todo \in Seq(S)
  PROVE  \A i \in DOMAIN todo : todo[i] \in S
OBVIOUS

(* The locals of every call, where it is.                                  *)
LocalsAlive ==
  /\ pc \in {"idle", "return"} \/ cur \in Nodes \/ (At("free", "free") /\ cur = Null)
  /\ pc = "find" => cur.square
  /\ \A i \in DOMAIN pending : pending[i] \in Nodes
  /\ \A i \in DOMAIN frames : frames[i].parent \in Nodes
  /\ low \in Nodes \cup {Null}
LEMMA LocalsOf ==
  ASSUME CallOK, pc # "free", NEW L, Located(L)
  PROVE  LocalsAlive
<1>1. ASSUME pc \in {"idle", "return"} PROVE LocalsAlive
  BY <1>1 DEF Located, Answered, Idle, Unused, LocalsAlive
<1>2. ASSUME pc \in {"climb", "top"} PROVE LocalsAlive
  BY <1>2 DEF Located, Rising, Unused, Stands, LocalsAlive, Nodes
<1>3. ASSUME pc = "enter" \/ pc = "walk" PROVE LocalsAlive
  <2>1. call.op \in {"add", "remove", "search"} BY <1>3 DEF CallOK, Calls
  <2>2. CASE Searching(L) BY <1>3, <2>2 DEF Searching, Unused, Stands, LocalsAlive, Nodes
  <2>3. CASE Locating(L) BY <1>3, <2>3 DEF Locating, Unused, Stands, LocalsAlive, Nodes
  <2>4. CASE Descending(L)
    <3>1. \A i \in DOMAIN frames : frames[i].parent \in DOMAIN heap
      BY <2>4, FramesAlive DEF Descending
    <3> QED BY <1>3, <2>4, <3>1 DEF Descending, Stands, LocalsAlive, Nodes
  <2>5. Searching(L) \/ Locating(L) \/ Descending(L)
    BY <1>3, <2>1 DEF Located, At, Entering, Walking
  <2> QED BY <2>2, <2>3, <2>4, <2>5
<1>4. ASSUME pc \in {"insert", "split", "find"} PROVE LocalsAlive
  <2>1. Inserting(L) /\ (pc = "find" => Finding(L)) BY <1>4 DEF Located
  <2>2. PICK k \in Nat : /\ FramesOK(heap, L, P, frames, k)
                         /\ low = Null \/ low \in DOMAIN heap
    BY <2>1 DEF Inserting
  <2>3. \A i \in DOMAIN frames : frames[i].parent \in DOMAIN heap
    BY <2>2, FramesAlive
  <2>4. cur \in DOMAIN heap /\ pending = <<>> /\ (pc = "find" => cur.square)
    BY <2>1 DEF Inserting, Finding, Stands
  <2> QED BY <2>2, <2>3, <2>4 DEF LocalsAlive, Nodes
<1>5. ASSUME pc = "unlink" PROVE LocalsAlive
  <2>1. Unlinking(L) /\ Root \in DOMAIN heap BY <1>5 DEF Located, CallOK
  <2>2. pending \in Seq(DOMAIN heap) BY <2>1 DEF Unlinking, PendingOK
  <2>3. \A i \in DOMAIN pending : pending[i] \in DOMAIN heap BY <2>2, TodoAlive
  <2> QED BY <1>5, <2>1, <2>3 DEF Unlinking, LocalsAlive, Nodes
<1> QED BY <1>1, <1>2, <1>3, <1>4, <1>5 DEF CallOK

LEMMA PointersOf == Inv => PointersAlive
<1> SUFFICES ASSUME Inv PROVE PointersAlive OBVIOUS
<1>1. CallOK BY DEF Inv
<1>2. PICK L : IF pc = "free" THEN Freeing(L) ELSE TreeOK(heap, L) /\ Located(L)
  BY DEF Inv
<1>3. HeapOK(heap) BY <1>2 DEF Freeing, Shrunk, TreeOK
<1>4. \A n \in Nodes : heap[n] \in Fields
  BY <1>3 DEF HeapOK, FieldsIn, Fields, Nodes, Quadrants
<1>5. LocalsAlive
  <2>1. CASE pc # "free" BY <1>1, <1>2, <2>1, LocalsOf
  <2>2. CASE pc = "free"
    <3>1. Freeing(L) /\ At("free", "free") BY <1>1, <1>2, <2>2 DEF CallOK, At
    <3>2. pending \in Seq(DOMAIN heap) BY <3>1 DEF Freeing, TodoOK
    <3>3. \A i \in DOMAIN pending : pending[i] \in DOMAIN heap BY <3>2, TodoAlive
    <3> QED BY <2>2, <3>1, <3>3 DEF Freeing, Stands, LocalsAlive, Nodes
  <2> QED BY <2>1, <2>2
<1> QED BY <1>4, <1>5 DEF PointersAlive, LocalsAlive

(* Every pointer of the program leads to an allocated node: those in nodes, *)
(* and the locals that live across the recursive calls and loops of        *)
(* Quadtree_add_helper, Quadtree_remove_node and Quadtree_free, which free *)
(* nodes on the way.                                                       *)
THEOREM NoDanglingPointers == Spec => []PointersAlive
BY InvariantHolds, PointersOf, PTL

LEMMA LinkedOf == Inv => Linked
<1> SUFFICES ASSUME Inv, ~At("free", "free"), NEW n \in Nodes
             PROVE  /\ \A c \in Children(heap, n) : heap[c].parent = n
                    /\ heap[n].parent # Null => n \in Children(heap, heap[n].parent)
                    /\ heap[n].up # Null => heap[heap[n].up].down = n
                    /\ heap[n].down # Null => heap[heap[n].down].up = n
  BY DEF Linked
<1>1. pc # "free" BY DEF Inv, CallOK, At
<1>2. PICK L : TreeOK(heap, L) BY <1>1 DEF Inv
<1>3. n \in DOMAIN heap /\ n # Null BY <1>2, HeapTypes DEF Nodes, TreeOK
<1>4. \A c \in Children(heap, n) : heap[c].parent = n
  BY <1>2, <1>3, KidsAreChildren DEF TreeOK, LinksOK, KidsOK
<1>5. ASSUME heap[n].parent # Null PROVE n \in Children(heap, heap[n].parent)
  <2>1. Kid(heap, heap[n].parent, QuadrantIn(heap[n].parent, n)) = n
    BY <1>2, <1>3, <1>5 DEF TreeOK, LinksOK, ParentsOK
  <2> QED BY <1>3, <2>1, QuadrantType, KidsAreChildren
<1>6. /\ heap[n].up # Null => heap[heap[n].up].down = n
      /\ heap[n].down # Null => heap[heap[n].down].up = n
  BY <1>2, <1>3 DEF TreeOK, LinksOK, UpsOK, DownsOK
<1> QED BY <1>4, <1>5, <1>6

(* Pointers come in pairs, a child and its parent, a copy and the copy     *)
(* below it, between any two steps of an insertion and a removal: the      *)
(* recursion of Quadtree_remove_node starts over from these pointers.      *)
THEOREM PointersPaired == Spec => []Linked
BY InvariantHolds, LinkedOf, PTL

LEMMA NestedOf == Inv => LevelsNested
<1> SUFFICES ASSUME Inv, pc = "idle", NEW n \in Nodes
             PROVE  /\ heap[n].down # Null => Same(n, heap[n].down)
                    /\ \A c \in Children(heap, n) :
                         (heap[c].down = Null) = (heap[n].down = Null)
  BY DEF LevelsNested
<1>1. PICK L : TreeOK(heap, L) BY DEF Inv
<1>2. n \in DOMAIN heap BY DEF Nodes
<1>3. heap[n].down # Null => Same(n, heap[n].down)
  BY <1>1, <1>2 DEF TreeOK, LinksOK, DownsOK
<1>4. ASSUME NEW c \in Children(heap, n)
      PROVE  (heap[c].down = Null) <=> (heap[n].down = Null)
  <2>1. PICK q \in Quadrants : Kid(heap, n, q) = c /\ c # Null BY KidsAreChildren
  <2>2. c \in DOMAIN heap BY <1>1, <1>2, <2>1, HeapTypes DEF TreeOK
  <2>3. L[c] = L[n] /\ L[n] \in Int /\ L[n] >= -1 /\ L[n] # -1
    BY <1>1, <1>2, <2>1 DEF TreeOK, LevelsOK, LevelsIn
  <2>4. L[n] >= 0 /\ L[c] >= 0 BY <2>3
  <2> QED BY <1>1, <1>2, <2>2, <2>3, <2>4 DEF TreeOK, LevelsOK, LevelsIn
<1> QED BY <1>3, <1>4

(* A level is part of the level below: between calls every node above the  *)
(* lowest level has a copy of the same kind, place and size below it.  The *)
(* loop of Quadtree_add_helper that looks for down_square relies on it.    *)
THEOREM LevelsStayNested == Spec => []LevelsNested
BY InvariantHolds, NestedOf, PTL

LEMMA CompressedOf == Inv => Compressed
<1> SUFFICES ASSUME Inv, pc = "idle", NEW n \in Nodes
             PROVE  /\ \A q \in SUBSET Dims : LET c == heap[n].child[q] IN c # Null =>
                         /\ q = QuadrantIn(n, c)
                         /\ in_range(n, c.center)
                         /\ c.length <= n.length \div 2
                    /\ n.square /\ heap[n].parent # Null => Count(heap, n) > 1
  BY DEF Compressed
<1>1. PICK L : TreeOK(heap, L) /\ Located(L) BY DEF Inv
<1>2. n \in DOMAIN heap /\ HeapOK(heap) /\ KidsOK(heap) /\ IsNode(n)
  BY <1>1, HeapIsOK, HeapTypes DEF Nodes
<1>3. ASSUME NEW q \in SUBSET Dims, heap[n].child[q] # Null
      PROVE  LET c == heap[n].child[q]
             IN q = QuadrantIn(n, c) /\ in_range(n, c.center) /\ c.length <= n.length \div 2
  <2> DEFINE c == Kid(heap, n, q)
  <2>1. q \in Quadrants /\ c # Null BY <1>3 DEF Kid, Quadrants
  <2>2. n.square /\ q = QuadrantIn(n, c) /\ In(c, n) BY <1>2, <2>1 DEF KidsOK
  <2>3. c \in DOMAIN heap BY <1>2, <2>1, HeapTypes
  <2>4. Place(c) /\ GridSquare(n) BY <1>2, <2>2, <2>3, HeapTypes, NodeFacts DEF IsNode
  <2>5. c.length <= n.length \div 2 BY <2>2, <2>4, InHalf
  <2>6. in_range(n, c.center) BY <2>2 DEF In
  <2> QED BY <2>2, <2>5, <2>6 DEF Kid
<1>4. ASSUME n.square, heap[n].parent # Null PROVE Count(heap, n) > 1
  <2>1. ~IsRoot(n) BY <1>1, <1>2, <1>4 DEF TreeOK, LevelsOK, LevelsIn
  <2>2. AllThick(heap, {}) BY <1>1 DEF Located, Leaves
  <2>3. Thick(heap, n) BY <1>2, <1>4, <2>1, <2>2 DEF AllThick
  <2> QED BY <1>2, <2>3, CountFacts
<1> QED BY <1>3, <1>4

(* Between calls the tree is compressed: children are in the quadrants of  *)
(* their slots, and a square other than a root has at least two of them,   *)
(* whatever add and remove have put in and taken out.                      *)
THEOREM StaysCompressed == Spec => []Compressed
BY InvariantHolds, CompressedOf, PTL

(* Nothing that a call cuts off is left allocated but for copies of the    *)
(* root without children, the levels that Quadtree_remove_node forgets.    *)
THEOREM NoNodeLost == Spec => []OnlyLevelsLost
<1>1. Inv => OnlyLevelsLost BY DEF Inv, CallOK, OnlyLevelsLost
<1> QED BY <1>1, InvariantHolds, PTL

(* On a tree of one level Quadtree_search answers FALSE only for points    *)
(* that are not in the tree, although it goes into squares without asking  *)
(* whether they are around the point.                                      *)
THEOREM FindsOnOneLevel == Spec => []SearchFindsOnOneLevel
<1>1. Inv => SearchFindsOnOneLevel
  <2> SUFFICES ASSUME Inv, At("search", "return"), ~ans, Root \in DOMAIN heap,
                      heap[Root].up = Null
               PROVE  call.p \notin call.was
    BY DEF SearchFindsOnOneLevel, Allocated
  <2>1. Answered BY DEF Inv, Located, At
  <2> QED BY <2>1 DEF Answered, At
<1> QED BY <1>1, InvariantHolds, PTL

(* The tree is a set of points: add and remove change the points of the    *)
(* lowest level once and for all, and answer as they did, whatever the     *)
(* coins and the levels above; every step of the code is a step of         *)
(* PointSet or leaves its state as it is.                                  *)
THEOREM ImplementsPointSet == Spec => IsASet
<1>1. Init => ASet!SetInit
  <2> SUFFICES ASSUME Init PROVE ASet!SetInit OBVIOUS
  <2>1. {m \in DOMAIN heap : ~m.square /\ heap[m].down = Null} = {}
    BY DEF Init, Root, Node, Square
  <2>2. Contents = {} BY <2>1 DEF Contents
  <2> QED BY <2>2 DEF Init, ASet!SetInit, Phase
<1>2. Inv /\ [Next]_vars => [ASet!SetNext]_(ASet!setVars) BY EveryStep DEF Sim
<1> QED BY <1>1, <1>2, InvariantHolds, PTL DEF Spec, IsASet, ASet!SetSpec
=============================================================================
