----------------------------- MODULE Benchmark -----------------------------
(***************************************************************************)
(* The benchmark driver (benchmark/benchmark.c): a main thread that        *)
(* creates, starts, stops and joins its workers, and the workers, each     *)
(* with a ring of the points it has added.  Calls of the tree are steps    *)
(* that change nothing here.                                               *)
(***************************************************************************)
EXTENDS Integers

CONSTANTS
  NWorkers,  \* nthreads
  NPoints    \* npoints, the size of each ring

ASSUME DriverAssumption == NWorkers \in Nat \ {0} /\ NPoints \in Nat \ {0}

Workers == 0..(NWorkers - 1)

VARIABLES
  STARTED, ACTIVE,  \* the two flags the workers poll
  main,     \* where the main thread is
  i,        \* its loop index
  ready,    \* packets[i].ready
  tree,     \* are the tree and the initial points allocated?
  pc,       \* where each worker is
  inRlu,    \* has the worker called RLU_THREAD_INIT?
  head, tail,  \* of each worker's ring
  written   \* the entries of pbuffer each worker has written

mainVars == <<STARTED, ACTIVE, main, i, tree>>
workerVars == <<ready, inRlu, head, tail, written>>
driverVars == <<mainVars, workerVars, pc>>

DriverTypeOK ==
  /\ STARTED \in BOOLEAN /\ ACTIVE \in BOOLEAN /\ tree \in BOOLEAN
  /\ main \in {"create", "wait", "reset", "start",
              "sleep", "join", "free", "end"}
  /\ i \in 0..NWorkers
  /\ ready \in [Workers -> BOOLEAN] /\ inRlu \in [Workers -> BOOLEAN]
  /\ pc \in [Workers -> {"none", "fill", "init", "ready", "spin", "loop",
                         "call", "finish", "done"}]
  /\ head \in [Workers -> 0..NPoints] /\ tail \in [Workers -> 0..(NPoints - 1)]
  /\ written \in [Workers -> SUBSET Nat]

Init ==
  /\ STARTED = FALSE /\ ACTIVE = TRUE /\ main = "create" /\ i = 0 /\ tree = TRUE
  /\ ready = [w \in Workers |-> FALSE] /\ inRlu = [w \in Workers |-> FALSE]
  /\ pc = [w \in Workers |-> "none"]
  /\ head = [w \in Workers |-> 0] /\ tail = [w \in Workers |-> 0]
  /\ written = [w \in Workers |-> {}]

-----------------------------------------------------------------------------
(* The main thread, from pthread_create to the end.                        *)
NextTurn(then) ==
  IF i + 1 < NWorkers THEN i' = i + 1 /\ UNCHANGED main
  ELSE i' = 0 /\ main' = then
MainGoto(l) == main' = l /\ UNCHANGED i

Create ==
  /\ main = "create" /\ NextTurn("wait")
  /\ pc' = [pc EXCEPT ![i] = "fill"]
  /\ UNCHANGED <<STARTED, ACTIVE, tree, workerVars>>
WaitForFirst ==  \* mutant: only the first worker is waited for
  /\ main = "wait" /\ (i = 0 => ready[i]) /\ NextTurn("reset")
  /\ UNCHANGED <<STARTED, ACTIVE, tree, pc, workerVars>>
WaitReady ==
  /\ main = "wait" /\ ready[i] /\ NextTurn("reset")
  /\ UNCHANGED <<STARTED, ACTIVE, tree, pc, workerVars>>
ResetFlags ==
  /\ main = "reset" /\ STARTED' = FALSE /\ ACTIVE' = TRUE
  /\ MainGoto("start") /\ UNCHANGED <<tree, pc, workerVars>>
Start ==
  /\ main = "start" /\ STARTED' = TRUE
  /\ MainGoto("sleep") /\ UNCHANGED <<ACTIVE, tree, pc, workerVars>>
NoStop ==  \* mutant: the flag is not cleared
  /\ main = "sleep"
  /\ MainGoto("join") /\ UNCHANGED <<STARTED, ACTIVE, tree, pc, workerVars>>
Stop ==
  /\ main = "sleep" /\ ACTIVE' = FALSE
  /\ MainGoto("join") /\ UNCHANGED <<STARTED, tree, pc, workerVars>>
JoinFirst ==  \* mutant: only the first worker is joined
  /\ main = "join" /\ pc[0] = "done" /\ MainGoto("free")
  /\ UNCHANGED <<STARTED, ACTIVE, tree, pc, workerVars>>
Join ==
  /\ main = "join" /\ pc[i] = "done" /\ NextTurn("free")
  /\ UNCHANGED <<STARTED, ACTIVE, tree, pc, workerVars>>
Destroy ==
  /\ main = "free" /\ tree' = FALSE
  /\ MainGoto("end") /\ UNCHANGED <<STARTED, ACTIVE, pc, workerVars>>

MainStep ==
  Create \/ WaitReady \/ ResetFlags \/ Start \/ Stop \/ Join \/ Destroy

-----------------------------------------------------------------------------
(* execute, by worker w.                                                   *)
Moves(w, from, to) == pc[w] = from /\ pc' = [pc EXCEPT ![w] = to]

Fill(w) ==
  /\ Moves(w, "fill", "init")
  /\ head' = [head EXCEPT ![w] = NPoints]
  /\ written' = [written EXCEPT ![w] = 0..(NPoints - 1)]
  /\ UNCHANGED <<mainVars, ready, inRlu, tail>>
ThreadInit(w) ==
  /\ Moves(w, "init", "ready") /\ inRlu' = [inRlu EXCEPT ![w] = TRUE]
  /\ UNCHANGED <<mainVars, ready, head, tail, written>>
SetReady(w) ==
  /\ Moves(w, "ready", "spin") /\ ready' = [ready EXCEPT ![w] = TRUE]
  /\ UNCHANGED <<mainVars, inRlu, head, tail, written>>
Spin(w) ==
  /\ Moves(w, "spin", "loop") /\ STARTED
  /\ UNCHANGED <<mainVars, workerVars>>
Loop(w) ==
  /\ Moves(w, "loop", IF ACTIVE THEN "call" ELSE "finish")
  /\ UNCHANGED <<mainVars, workerVars>>

NoWrap(n) == n  \* mutant: the counters of the ring only grow
Wrap(n) == n % NPoints

(* The point is always added to the tree, and to the ring if it has room.  *)
Insert(w) ==
  /\ Moves(w, "call", "loop")
  /\ LET next == Wrap(head[w] + 1)
     IN IF next # tail[w]
        THEN /\ written' = [written EXCEPT ![w] = @ \cup {head[w]}]
             /\ head' = [head EXCEPT ![w] = next]
        ELSE UNCHANGED <<head, written>>
  /\ UNCHANGED <<mainVars, ready, inRlu, tail>>
Delete(w) ==
  /\ Moves(w, "call", "loop") /\ head[w] # tail[w]
  /\ tail' = [tail EXCEPT ![w] = Wrap(@ + 1)]
  /\ UNCHANGED <<mainVars, ready, inRlu, head, written>>
Query(w) ==
  /\ Moves(w, "call", "loop") /\ head[w] # tail[w]
  /\ UNCHANGED <<mainVars, workerVars>>

ThreadFinish(w) ==
  /\ Moves(w, "finish", "done")
  /\ inRlu' = [inRlu EXCEPT ![w] = FALSE]
  /\ UNCHANGED <<mainVars, ready, head, tail, written>>

WorkerStep(w) ==
  \/ Fill(w) \/ ThreadInit(w) \/ SetReady(w) \/ Spin(w) \/ Loop(w)
  \/ Insert(w) \/ Delete(w) \/ Query(w) \/ ThreadFinish(w)
Ended == main = "end" /\ UNCHANGED driverVars

Next == MainStep \/ (\E w \in Workers : WorkerStep(w)) \/ Ended
Spec == Init /\ [][Next]_driverVars
FairSpec ==
  /\ Spec /\ WF_driverVars(MainStep)
  /\ \A w \in Workers : WF_driverVars(WorkerStep(w))

-----------------------------------------------------------------------------
(* No worker calls the tree before every worker has registered with RLU:   *)
(* the registry does not change under running sections, which the models   *)
(* of RLU take for granted.                                                *)
StartTogether ==
  \A w \in Workers : pc[w] \in {"loop", "call"} =>
    \A v \in Workers : inRlu[v] \/ pc[v] = "done"

(* The tree and the initial points are freed when no worker will call any  *)
(* more; a worker may be in the middle of a call when ACTIVE is cleared.   *)
TreeOutlivesWorkers == ~tree => \A w \in Workers : pc[w] = "done"

(* What a worker adds to its ring goes into pbuffer (benchmark.c:99,       *)
(* "within buffer").  The first insertion does not: head is npoints.       *)
WithinBuffer == \A w \in Workers : written[w] \subseteq 0..(NPoints - 1)
=============================================================================
