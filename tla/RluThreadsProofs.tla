-------------------------- MODULE RluThreadsProofs --------------------------
(***************************************************************************)
(* What TLAPS proves of the benchmark driver (Benchmark), for any number   *)
(* of workers and any size of their rings, and of the table of threads     *)
(* under it (RluThreads), for any number of workers below RLU_MAX_THREADS. *)
(***************************************************************************)
EXTENDS RluThreads, FiniteSetTheorems, TLAPS

(* The driver alone: Spec, Init and Next are Benchmark's.                  *)
Late == {"sleep", "join", "free", "end"}

(* The main thread's loops have passed the workers below i, and all of     *)
(* them once they are over.                                                *)
MainKnows ==
  /\ main \in {"reset", "start", "sleep", "free", "end"} => i = 0
  /\ main \in {"create", "wait", "join"} => i < NWorkers
  /\ main = "create" => \A w \in Workers : w >= i => pc[w] = "none"
  /\ main = "wait" => \A w \in Workers : w < i => ready[w]
  /\ main \notin {"create", "wait"} => \A w \in Workers : ready[w]
  /\ main = "join" => \A w \in Workers : w < i => pc[w] = "done"
  /\ main \in {"free", "end"} => \A w \in Workers : pc[w] = "done"
  /\ STARTED => main \in Late
  /\ ~tree => main = "end"

(* A worker registers before it reports ready, and works once started.     *)
WorkersKnow ==
  \A w \in Workers :
    /\ ready[w] => pc[w] \in {"spin", "loop", "call", "finish", "done"}
    /\ pc[w] \in {"ready", "spin", "loop", "call", "finish"} => inRlu[w]
    /\ pc[w] \in {"loop", "call", "finish", "done"} => main \in Late

DriverInv == DriverTypeOK /\ MainKnows /\ WorkersKnow

LEMMA WrapType == ASSUME NEW n \in Nat PROVE Wrap(n) \in 0..(NPoints - 1)
  BY DriverAssumption DEF Wrap

(* The initial state satisfies the invariant.                              *)
LEMMA DriverInit == Init => DriverInv
<1> SUFFICES ASSUME Init PROVE DriverInv OBVIOUS
<1> USE DriverAssumption DEF Init, Workers
<1>1. /\ head \in [Workers -> 0..NPoints]
     /\ tail \in [Workers -> 0..(NPoints - 1)]
     /\ written \in [Workers -> SUBSET Nat]
  OBVIOUS
<1>2. /\ i \in 0..NWorkers
     /\ pc \in [Workers -> {"none", "fill", "init", "ready", "spin", "loop",
                            "call", "finish", "done"}]
     /\ ready \in [Workers -> BOOLEAN] /\ inRlu \in [Workers -> BOOLEAN]
  OBVIOUS
<1>3. DriverTypeOK BY <1>1, <1>2 DEF DriverTypeOK
<1>4. MainKnows BY DEF MainKnows, Late
<1>5. WorkersKnow BY DEF WorkersKnow
<1> QED BY <1>3, <1>4, <1>5 DEF DriverInv

(* Each step of the main thread keeps it.                                  *)
LEMMA MainKeeps == DriverInv /\ MainStep => DriverInv'
<1> SUFFICES ASSUME DriverInv, MainStep PROVE DriverInv' OBVIOUS
<1> USE DriverAssumption DEF DriverInv, DriverTypeOK, MainKnows, WorkersKnow,
      Workers, Late, mainVars, workerVars
<1>1. CASE Create
  <2>1. DriverTypeOK' BY <1>1 DEF Create, NextTurn, MainGoto
  <2>2. MainKnows' BY <1>1 DEF Create, NextTurn, MainGoto
  <2>3. WorkersKnow' BY <1>1 DEF Create, NextTurn, MainGoto
  <2> QED BY <2>1, <2>2, <2>3
<1>2. CASE WaitReady
  <2>1. DriverTypeOK'
    <3>1. main' \in {"wait", "reset"} /\ i' \in 0..NWorkers
      BY <1>2 DEF WaitReady, NextTurn
    <3>2. UNCHANGED <<STARTED, ACTIVE, tree, pc, workerVars>>
      BY <1>2 DEF WaitReady
    <3> QED BY <3>1, <3>2
  <2>2. MainKnows' BY <1>2 DEF WaitReady, NextTurn, MainGoto
  <2>3. WorkersKnow' BY <1>2 DEF WaitReady, NextTurn, MainGoto
  <2> QED BY <2>1, <2>2, <2>3
<1>3. CASE ResetFlags
  <2>1. DriverTypeOK' BY <1>3 DEF ResetFlags, NextTurn, MainGoto
  <2>2. MainKnows' BY <1>3 DEF ResetFlags, NextTurn, MainGoto
  <2>3. WorkersKnow' BY <1>3 DEF ResetFlags, NextTurn, MainGoto
  <2> QED BY <2>1, <2>2, <2>3
<1>4. CASE Start
  <2>1. DriverTypeOK' BY <1>4 DEF Start, NextTurn, MainGoto
  <2>2. MainKnows' BY <1>4 DEF Start, NextTurn, MainGoto
  <2>3. WorkersKnow' BY <1>4 DEF Start, NextTurn, MainGoto
  <2> QED BY <2>1, <2>2, <2>3
<1>5. CASE Stop
  <2>1. DriverTypeOK' BY <1>5 DEF Stop, NextTurn, MainGoto
  <2>2. MainKnows' BY <1>5 DEF Stop, NextTurn, MainGoto
  <2>3. WorkersKnow' BY <1>5 DEF Stop, NextTurn, MainGoto
  <2> QED BY <2>1, <2>2, <2>3
<1>6. CASE Join
  <2>1. DriverTypeOK' BY <1>6 DEF Join, NextTurn, MainGoto
  <2>2. MainKnows' BY <1>6 DEF Join, NextTurn, MainGoto
  <2>3. WorkersKnow' BY <1>6 DEF Join, NextTurn, MainGoto
  <2> QED BY <2>1, <2>2, <2>3
<1>7. CASE Destroy
  <2>1. DriverTypeOK' BY <1>7 DEF Destroy, NextTurn, MainGoto
  <2>2. MainKnows' BY <1>7 DEF Destroy, NextTurn, MainGoto
  <2>3. WorkersKnow' BY <1>7 DEF Destroy, NextTurn, MainGoto
  <2> QED BY <2>1, <2>2, <2>3
<1> QED BY <1>1, <1>2, <1>3, <1>4, <1>5, <1>6, <1>7 DEF MainStep

(* Each step of a worker keeps it.                                         *)
LEMMA WorkerKeeps ==
  ASSUME DriverInv, NEW w \in Workers, WorkerStep(w) PROVE DriverInv'
<1> USE DriverAssumption DEF DriverInv, DriverTypeOK, MainKnows, WorkersKnow,
      Workers, Late, mainVars, workerVars
<1>1. CASE Fill(w)
  <2>1. DriverTypeOK' BY <1>1 DEF Fill, Moves
  <2>2. MainKnows' BY <1>1 DEF Fill, Moves
  <2>3. WorkersKnow' BY <1>1 DEF Fill, Moves
  <2> QED BY <2>1, <2>2, <2>3
<1>2. CASE ThreadInit(w)
  <2>1. DriverTypeOK' BY <1>2 DEF ThreadInit, Moves
  <2>2. MainKnows' BY <1>2 DEF ThreadInit, Moves
  <2>3. WorkersKnow' BY <1>2 DEF ThreadInit, Moves
  <2> QED BY <2>1, <2>2, <2>3
<1>3. CASE SetReady(w)
  <2>1. DriverTypeOK' BY <1>3 DEF SetReady, Moves
  <2>2. MainKnows' BY <1>3 DEF SetReady, Moves
  <2>3. WorkersKnow' BY <1>3 DEF SetReady, Moves
  <2> QED BY <2>1, <2>2, <2>3
<1>4. CASE Spin(w)
  <2>1. DriverTypeOK' BY <1>4 DEF Spin, Moves
  <2>2. MainKnows' BY <1>4 DEF Spin, Moves
  <2>3. WorkersKnow' BY <1>4 DEF Spin, Moves
  <2> QED BY <2>1, <2>2, <2>3
<1>5. CASE Loop(w)
  <2>1. DriverTypeOK' BY <1>5 DEF Loop, Moves
  <2>2. MainKnows' BY <1>5 DEF Loop, Moves
  <2>3. WorkersKnow' BY <1>5 DEF Loop, Moves
  <2> QED BY <2>1, <2>2, <2>3
<1>6. CASE Insert(w)
  <2>1. DriverTypeOK'
    <3>0. head[w] + 1 \in Nat OBVIOUS
    <3>1. Wrap(head[w] + 1) \in 0..(NPoints - 1) BY ONLY <3>0, WrapType
    <3>2. head' \in [Workers -> 0..NPoints]
          /\ written' \in [Workers -> SUBSET Nat]
      <4>1. CASE Wrap(head[w] + 1) # tail[w]
        <5>1. /\ head' = [head EXCEPT ![w] = Wrap(head[w] + 1)]
              /\ written' = [written EXCEPT ![w] = @ \cup {head[w]}]
          BY <1>6, <4>1 DEF Insert
        <5>2. head' \in [Workers -> 0..NPoints] BY <3>1, <5>1
        <5>3. written[w] \cup {head[w]} \in SUBSET Nat OBVIOUS
        <5> QED BY <5>1, <5>2, <5>3
      <4>2. CASE Wrap(head[w] + 1) = tail[w]
        BY <1>6, <4>2 DEF Insert
      <4> QED BY <4>1, <4>2
    <3>4. pc' = [pc EXCEPT ![w] = "loop"]
          /\ UNCHANGED <<mainVars, ready, inRlu, tail>>
      BY <1>6 DEF Insert, Moves
    <3> QED BY <3>2, <3>4
  <2>2. MainKnows' BY <1>6 DEF Insert, Moves
  <2>3. WorkersKnow' BY <1>6 DEF Insert, Moves
  <2> QED BY <2>1, <2>2, <2>3
<1>7. CASE Delete(w)
  <2>1. DriverTypeOK'
    <3>0. tail[w] + 1 \in Nat OBVIOUS
    <3>1. Wrap(tail[w] + 1) \in 0..(NPoints - 1) BY ONLY <3>0, WrapType
    <3>2. tail' \in [Workers -> 0..(NPoints - 1)]
      BY <1>7, <3>1 DEF Delete
    <3>3. pc' = [pc EXCEPT ![w] = "loop"]
          /\ UNCHANGED <<mainVars, ready, inRlu, head, written>>
      BY <1>7 DEF Delete, Moves
    <3> QED BY <3>2, <3>3
  <2>2. MainKnows' BY <1>7 DEF Delete, Moves
  <2>3. WorkersKnow' BY <1>7 DEF Delete, Moves
  <2> QED BY <2>1, <2>2, <2>3
<1>8. CASE Query(w)
  <2>1. DriverTypeOK' BY <1>8 DEF Query, Moves
  <2>2. MainKnows' BY <1>8 DEF Query, Moves
  <2>3. WorkersKnow' BY <1>8 DEF Query, Moves
  <2> QED BY <2>1, <2>2, <2>3
<1>9. CASE ThreadFinish(w)
  <2>1. DriverTypeOK' BY <1>9 DEF ThreadFinish, Moves
  <2>2. MainKnows' BY <1>9 DEF ThreadFinish, Moves
  <2>3. WorkersKnow' BY <1>9 DEF ThreadFinish, Moves
  <2> QED BY <2>1, <2>2, <2>3
<1> QED BY <1>1, <1>2, <1>3, <1>4, <1>5, <1>6, <1>7, <1>8, <1>9 DEF WorkerStep

(* A step that changes nothing keeps it.                                   *)
LEMMA StutterKeeps == DriverInv /\ UNCHANGED driverVars => DriverInv'
  BY DEF DriverInv, DriverTypeOK, MainKnows, WorkersKnow, driverVars, mainVars,
         workerVars

(* The invariant holds in every reachable state.                           *)
THEOREM DriverInvariant == Spec => []DriverInv
<1>1. DriverInv /\ [Next]_driverVars => DriverInv'
  BY MainKeeps, WorkerKeeps, StutterKeeps DEF Next, Ended
<1> QED BY DriverInit, <1>1, PTL DEF Spec

(* The loop index and both ends of every ring stay in their ranges         *)
(* (benchmark.c:81-103).  Head may be npoints, as after the first loop:    *)
(* what is stored there is not in pbuffer (WithinBuffer).                  *)
THEOREM DriverTypes == Spec => []DriverTypeOK
  BY DriverInvariant, PTL DEF DriverInv

(* No worker calls the tree before all have registered (benchmark.c:67-72, *)
(* 254-267), however many there are.                                       *)
THEOREM StartsTogether == Spec => []StartTogether
<1>1. DriverInv => StartTogether
  <2> SUFFICES ASSUME DriverInv, NEW w \in Workers, pc[w] \in {"loop", "call"},
                      NEW v \in Workers
               PROVE inRlu[v] \/ pc[v] = "done"
    BY DEF StartTogether
  <2>1. main \in Late BY DEF DriverInv, WorkersKnow
  <2>2. ready[v] BY <2>1 DEF DriverInv, MainKnows, Late
  <2> QED BY <2>2 DEF DriverInv, WorkersKnow
<1> QED BY DriverInvariant, <1>1, PTL

(* The tree is destroyed after the last worker's end (benchmark.c:277-321). *)
THEOREM TreeOutlives == Spec => []TreeOutlivesWorkers
<1>1. DriverInv => TreeOutlivesWorkers
  BY DEF DriverInv, MainKnows, TreeOutlivesWorkers
<1> QED BY DriverInvariant, <1>1, PTL
-----------------------------------------------------------------------------
Places == {"out", "section", "sync", "init", "wait", "crashed", "hung"}
PcLabels == {"none", "fill", "init", "ready", "spin", "loop", "call", "finish",
             "done"}

RegistryTypeOK ==
  /\ cur \in Nat
  /\ table \in [Ids -> Blocks \cup {None}]
  /\ self \in [Workers -> Blocks \cup {None}]
  /\ uniq_id \in [Workers -> Nat \cup {None}]
  /\ at \in [Workers -> Places]
  /\ th_id \in [Workers -> Nat]
  /\ is_wait \in [Workers -> SUBSET Nat]
  /\ older \in [Workers -> SUBSET Workers]

(* Numbers are given once, to one worker each, and none is left out.       *)
Numbered == {w \in Workers : uniq_id[w] # None}
NumbersOK ==
  /\ cur = 1 + Cardinality(Numbered)
  /\ \A w \in Workers : uniq_id[w] # None => uniq_id[w] \in 1..(cur - 1)
  /\ \A v, w \in Workers : v # w /\ uniq_id[v] # None => uniq_id[v] # uniq_id[w]

(* A worker that has registered is found under its number, and no other    *)
(* has its data.                                                           *)
Registered(w) == pc[w] \in {"ready", "spin", "loop", "call", "finish"}
EntriesOK ==
  /\ \A w \in Workers :
       /\ uniq_id[w] # None /\ pc[w] # "done" => self[w] # None
       /\ Registered(w) => uniq_id[w] # None /\ table[uniq_id[w]] = self[w]
  /\ \A v, w \in Workers : v # w /\ self[v] # None => self[v] # self[w]

(* Sections are inside calls, syncs after them.                            *)
PlacesOK ==
  \A w \in Workers :
    /\ at[w] = "section" => pc[w] = "call"
    /\ at[w] \in {"sync", "init", "wait", "crashed", "hung"} =>
         pc[w] \in {"loop", "finish"}

(* The walk of a sync: the sections below th_id have been marked by the    *)
(* first loop, and those that the second has passed are over.              *)
WalksOK ==
  \A w \in Workers : \A v \in older[w] :
    /\ at[v] = "section"
    /\ at[w] = "init" /\ uniq_id[v] < th_id[w] => uniq_id[v] \in is_wait[w]
    /\ at[w] = "wait" => th_id[w] <= uniq_id[v] /\ uniq_id[v] \in is_wait[w]

RegistryInv ==
  DriverInv /\ RegistryTypeOK /\ NumbersOK /\ EntriesOK /\ PlacesOK /\ WalksOK

-----------------------------------------------------------------------------
(* The registry under the driver does nothing the driver does not.         *)
LEMMA StepIsDriverStep == [RegistryNext]_vars => [Next]_driverVars
<1> SUFFICES ASSUME [RegistryNext]_vars PROVE [Next]_driverVars OBVIOUS
<1>1. CASE MainDoes BY <1>1 DEF MainDoes, Next
<1>2. ASSUME NEW w \in Workers, ThreadStep(w) PROVE [Next]_driverVars
  <2>1. CASE DriverStep(w) BY <2>1 DEF DriverStep, WorkerStep, Next
  <2>2. CASE Register(w) BY <2>2 DEF Register, WorkerStep, Next
  <2>3. CASE LeaveSection(w) BY <2>3 DEF LeaveSection, WorkerStep, Next
  <2>4. CASE Finish(w) BY <2>4 DEF Finish, WorkerStep, Next
  <2>5. CASE \/ TakeId(w) \/ EnterSection(w) \/ Publish(w) \/ LookAt(w)
             \/ WaitFor(w) \/ ReadFreed(w) \/ FinishSync(w)
    BY <2>5
    DEF TakeId, EnterSection, Publish, LookAt, WaitFor, ReadFreed, FinishSync
  <2> QED BY <1>2, <2>1, <2>2, <2>3, <2>4, <2>5 DEF ThreadStep
<1>3. CASE Over BY <1>3 DEF Over, vars
<1>4. CASE UNCHANGED vars BY <1>4 DEF vars
<1> QED BY <1>1, <1>2, <1>3, <1>4 DEF RegistryNext

(* So what has been proved of the driver holds here.                       *)
THEOREM RegistryImplementsDriver == RegistrySpec => Spec
<1>1. RegistryInit => Init BY DEF RegistryInit
<1> QED BY <1>1, StepIsDriverStep, PTL DEF RegistrySpec, Spec

-----------------------------------------------------------------------------
(* The state before any worker has registered.                             *)
LEMMA RegistryStart == RegistryInit => RegistryInv
<1> SUFFICES ASSUME RegistryInit PROVE RegistryInv OBVIOUS
<1> USE DEF RegistryInit
<1>1. DriverInv BY DriverInit
<1>2. RegistryTypeOK
  BY DriverAssumption, RegistryAssumption
  DEF RegistryTypeOK, Blocks, Ids, Places, Workers
<1>3. NumbersOK
  <2>1. Numbered = {} BY DEF Numbered
  <2> QED BY <2>1, FS_EmptySet DEF NumbersOK
<1>4. EntriesOK BY DEF EntriesOK, Registered, Init
<1>5. PlacesOK BY DEF PlacesOK
<1>6. WalksOK BY DEF WalksOK
<1> QED BY <1>1, <1>2, <1>3, <1>4, <1>5, <1>6 DEF RegistryInv

(* The workers are finitely many, and so are the numbers given.            *)
LEMMA FewNumbers ==
  ASSUME RegistryTypeOK
  PROVE  /\ IsFiniteSet(Numbered) /\ Cardinality(Numbered) \in Nat
         /\ Cardinality(Numbered) <= NWorkers
         /\ \A w \in Workers :
              uniq_id[w] = None => Cardinality(Numbered) < NWorkers
<1>1. IsFiniteSet(Workers) /\ Cardinality(Workers) = NWorkers
  BY DriverAssumption, FS_Interval DEF Workers
<1>2. Numbered \subseteq Workers BY DEF Numbered
<1>3. /\ IsFiniteSet(Numbered) /\ Cardinality(Numbered) \in Nat
      /\ Cardinality(Numbered) <= NWorkers
      /\ Numbered # Workers => Cardinality(Numbered) < NWorkers
  BY <1>1, <1>2, FS_Subset, FS_CardinalityType
<1> QED BY <1>3 DEF Numbered

(* A step that leaves the entries alone, and does not undo a registration. *)
LEMMA EntriesStay ==
  ASSUME RegistryInv, UNCHANGED <<cur, table, self, uniq_id>>,
         \A w \in Workers : /\ Registered(w)' => Registered(w)
                            /\ pc[w] = "done" => pc'[w] = "done"
  PROVE  NumbersOK' /\ EntriesOK'
<1>1. Numbered' = Numbered BY DEF Numbered
<1>2. NumbersOK' BY <1>1 DEF RegistryInv, NumbersOK
<1>3. EntriesOK' BY DEF RegistryInv, EntriesOK
<1> QED BY <1>2, <1>3

(* Steps of the driver that are not calls of RLU.                          *)
LEMMA DriverKeeps ==
  ASSUME RegistryInv, DriverInv', UNCHANGED rluVars,
         \/ MainStep
         \/ \E w \in Workers : Fill(w) \/ SetReady(w) \/ Spin(w)
                                \/ (at[w] = "out" /\ Loop(w))
         \/ UNCHANGED driverVars
  PROVE  RegistryInv'
<1> USE DEF RegistryInv, rluVars, syncVars
<1>1. RegistryTypeOK' BY DEF RegistryTypeOK, Ids, Blocks
<1>2. ASSUME NEW w \in Workers
      PROVE  \/ pc'[w] = pc[w]
             \/ /\ pc[w] \in {"none", "fill", "ready", "spin", "loop"}
                /\ pc[w] \in {"none", "fill"} => pc'[w] \in {"fill", "init"}
                /\ at[w] = "out"
  <2>1. pc \in [Workers -> PcLabels] BY DEF DriverInv, DriverTypeOK, PcLabels
  <2>2. at[w] \in Places /\ (at[w] # "out" => pc[w] \in {"call", "loop", "finish"})
    BY DEF RegistryTypeOK, PlacesOK, Places
  <2>3. CASE MainStep
    <3>1. CASE Create
      <4>1. pc[i] = "none"
        BY <3>1, DriverAssumption
        DEF Create, DriverInv, MainKnows, DriverTypeOK, Workers
      <4> QED BY <4>1, <3>1, <2>1, <2>2 DEF Create
    <3>2. CASE ~Create
      BY <2>3, <3>2 DEF MainStep, WaitReady, ResetFlags, Start, Stop, Join, Destroy
    <3> QED BY <3>1, <3>2
  <2>4. ASSUME NEW u \in Workers,
               Fill(u) \/ SetReady(u) \/ Spin(u) \/ (at[u] = "out" /\ Loop(u))
        PROVE  \/ pc'[w] = pc[w]
               \/ /\ pc[w] \in {"none", "fill", "ready", "spin", "loop"}
                  /\ pc[w] \in {"none", "fill"} => pc'[w] \in {"fill", "init"}
                  /\ at[w] = "out"
    BY <2>1, <2>2, <2>4 DEF Fill, SetReady, Spin, Loop, Moves
  <2>5. CASE UNCHANGED driverVars BY <2>5 DEF driverVars
  <2> QED BY <2>3, <2>4, <2>5
<1>3. NumbersOK' /\ EntriesOK'
  BY <1>2, EntriesStay DEF Registered
<1>4. PlacesOK' BY <1>2 DEF PlacesOK
<1>5. WalksOK' BY DEF WalksOK
<1> QED BY <1>1, <1>3, <1>4, <1>5

(* rlu_thread_init gives a number nobody has and a block nobody has.       *)
LEMMA TakeIdKeeps ==
  ASSUME RegistryInv, DriverInv', NEW w \in Workers, TakeId(w)
  PROVE  RegistryInv'
<1> USE DEF RegistryInv, TakeId, syncVars, driverVars
<1>1. /\ cur \in Nat /\ cur >= 1 /\ cur' = cur + 1 /\ cur # None
      /\ uniq_id' = [uniq_id EXCEPT ![w] = cur] /\ uniq_id[w] = None
  BY FewNumbers, RegistryAssumption DEF RegistryTypeOK, NumbersOK
<1>2. PICK b \in {0, w + 1} \ {self[v] : v \in Workers} :
        self' = [self EXCEPT ![w] = b]
  OBVIOUS
<1>3. b \in Blocks /\ b # None
  BY DriverAssumption, RegistryAssumption DEF Blocks, Workers
<1>4. RegistryTypeOK'
  BY <1>1, <1>2, <1>3 DEF RegistryTypeOK, Ids, Blocks
<1>5. NumbersOK'
  <2>1. Numbered' = Numbered \cup {w} /\ w \notin Numbered
    BY <1>1 DEF Numbered, RegistryTypeOK
  <2>2. Cardinality(Numbered') = Cardinality(Numbered) + 1
    BY <2>1, FewNumbers, FS_AddElement
  <2>3. \A v \in Workers : uniq_id[v] # None => uniq_id[v] \in 1..(cur - 1)
    BY DEF NumbersOK
  <2>4. cur' = 1 + Cardinality(Numbered')
    BY <1>1, <2>2, FewNumbers DEF NumbersOK
  <2>5. ASSUME NEW v \in Workers, uniq_id'[v] # None
        PROVE  uniq_id'[v] \in 1..(cur' - 1)
    BY <1>1, <2>3, <2>5 DEF RegistryTypeOK
  <2>6. ASSUME NEW u \in Workers, NEW v \in Workers, u # v, uniq_id'[u] # None
        PROVE  uniq_id'[u] # uniq_id'[v]
    BY <1>1, <2>3, <2>6 DEF RegistryTypeOK, NumbersOK
  <2> QED BY <2>4, <2>5, <2>6 DEF NumbersOK
<1>6. EntriesOK'
  BY <1>1, <1>2, <1>3 DEF EntriesOK, Registered, RegistryTypeOK
<1>7. PlacesOK' BY DEF PlacesOK
<1>8. WalksOK'
  <2> SUFFICES ASSUME NEW u \in Workers, NEW v \in older[u]
               PROVE  uniq_id'[v] = uniq_id[v]
    BY DEF WalksOK
  <2>1. v \in Workers /\ pc[v] = "call" BY DEF WalksOK, PlacesOK, RegistryTypeOK
  <2> QED BY <1>1, <2>1 DEF RegistryTypeOK
<1> QED BY <1>4, <1>5, <1>6, <1>7, <1>8

(* The entry of a new number is nobody else's.                             *)
LEMMA RegisterKeeps ==
  ASSUME RegistryInv, DriverInv', NEW w \in Workers, Register(w)
  PROVE  RegistryInv'
<1> USE DEF RegistryInv, Register, ThreadInit, Moves, syncVars
<1>0. pc \in [Workers -> PcLabels] BY DEF DriverInv, DriverTypeOK, PcLabels
<1>1. /\ pc[w] = "init" /\ pc' = [pc EXCEPT ![w] = "ready"]
      /\ table' = [table EXCEPT ![uniq_id[w]] = self[w]] /\ self[w] # None
  BY DEF EntriesOK
<1>2. uniq_id[w] \in Ids
  BY FewNumbers, DriverAssumption, RegistryAssumption
  DEF NumbersOK, RegistryTypeOK, Ids
<1>3. RegistryTypeOK' BY <1>1, <1>2 DEF RegistryTypeOK, Ids, Blocks
<1>4. NumbersOK'
  <2>1. Numbered' = Numbered BY DEF Numbered
  <2> QED BY <2>1 DEF NumbersOK
<1>5. EntriesOK'
  BY <1>0, <1>1, <1>2 DEF EntriesOK, Registered, RegistryTypeOK, NumbersOK
<1>6. PlacesOK' BY <1>0, <1>1 DEF PlacesOK
<1>7. WalksOK' BY DEF WalksOK
<1> QED BY <1>3, <1>4, <1>5, <1>6, <1>7

(* A section begins: no sync waits for it yet.                             *)
LEMMA EnterSectionKeeps ==
  ASSUME RegistryInv, DriverInv', NEW w \in Workers, EnterSection(w)
  PROVE  RegistryInv'
<1> USE DEF RegistryInv, EnterSection, Go, syncVars, driverVars
<1>1. RegistryTypeOK' BY DEF RegistryTypeOK, Ids, Blocks, Places
<1>2. NumbersOK' /\ EntriesOK' BY EntriesStay DEF Registered
<1>3. PlacesOK' BY DEF PlacesOK, RegistryTypeOK
<1>4. WalksOK' BY DEF WalksOK, RegistryTypeOK
<1> QED BY <1>1, <1>2, <1>3, <1>4

(* A section ends: every sync drops it.                                    *)
LEMMA LeaveSectionKeeps ==
  ASSUME RegistryInv, DriverInv', NEW w \in Workers, LeaveSection(w)
  PROVE  RegistryInv'
<1> USE DEF RegistryInv, LeaveSection, Go, syncVars
<1>0. pc \in [Workers -> PcLabels] BY DEF DriverInv, DriverTypeOK, PcLabels
<1>1. pc' = [pc EXCEPT ![w] = "loop"] BY DEF Insert, Delete, Query, Moves
<1>2. PICK then \in {"out", "sync"} : at' = [at EXCEPT ![w] = then]
  BY DEF MaySync
<1>3. at[w] = "section" /\ pc[w] = "call" BY DEF PlacesOK
<1>4. RegistryTypeOK'
  <2>1. older' \in [Workers -> SUBSET Workers] BY DEF RegistryTypeOK
  <2>2. at' \in [Workers -> Places] BY <1>2 DEF RegistryTypeOK, Places
  <2> QED BY <2>1, <2>2 DEF RegistryTypeOK, Ids, Blocks
<1>5. NumbersOK' /\ EntriesOK'
  BY <1>0, <1>1, <1>3, EntriesStay DEF Registered
<1>6. PlacesOK' BY <1>0, <1>1, <1>2 DEF PlacesOK, RegistryTypeOK
<1>7. WalksOK'
  <2> SUFFICES ASSUME NEW u \in Workers, NEW v \in older'[u]
               PROVE  /\ at'[v] = "section"
                      /\ at'[u] = "init" /\ uniq_id'[v] < th_id'[u]
                           => uniq_id'[v] \in is_wait'[u]
                      /\ at'[u] = "wait" => /\ th_id'[u] <= uniq_id'[v]
                                            /\ uniq_id'[v] \in is_wait'[u]
    BY DEF WalksOK
  <2>1. v \in older[u] /\ v # w /\ v \in Workers
    BY DEF RegistryTypeOK
  <2>2. at[v] = "section" /\ pc[v] = "call" BY <2>1 DEF WalksOK, PlacesOK
  <2>3. at'[u] \in {"init", "wait"} => at'[u] = at[u]
    BY <1>2 DEF RegistryTypeOK
  <2>4. at'[v] = "section" BY <1>2, <2>1, <2>2 DEF RegistryTypeOK
  <2> QED BY <2>1, <2>3, <2>4 DEF WalksOK
<1> QED BY <1>4, <1>5, <1>6, <1>7

(* A sync begins: nothing of its walk has been done.                       *)
LEMMA PublishKeeps ==
  ASSUME RegistryInv, DriverInv', NEW w \in Workers, Publish(w)
  PROVE  RegistryInv'
<1> USE DEF RegistryInv, Publish, Go, syncVars, driverVars
<1>1. RegistryTypeOK' BY DEF RegistryTypeOK, Ids, Blocks, Places
<1>2. NumbersOK' /\ EntriesOK' BY EntriesStay DEF Registered
<1>3. PlacesOK' BY DEF PlacesOK, RegistryTypeOK
<1>4. WalksOK'
  <2> SUFFICES ASSUME NEW u \in Workers, NEW v \in older'[u]
               PROVE  /\ at'[v] = "section"
                      /\ at'[u] = "init" /\ uniq_id'[v] < th_id'[u]
                           => uniq_id'[v] \in is_wait'[u]
                      /\ at'[u] = "wait" => /\ th_id'[u] <= uniq_id'[v]
                                            /\ uniq_id'[v] \in is_wait'[u]
    BY DEF WalksOK
  <2>1. CASE u # w BY <2>1 DEF WalksOK, RegistryTypeOK
  <2>2. CASE u = w
    <3>1. v \in Workers /\ at[v] = "section" /\ v # w
      BY <2>2 DEF RegistryTypeOK
    <3>2. uniq_id[v] \in Nat
      BY <3>1 DEF PlacesOK, EntriesOK, Registered, RegistryTypeOK
    <3>3. at'[v] = "section" /\ th_id'[u] = 0 /\ at'[u] = "init"
      BY <3>1, <2>2 DEF RegistryTypeOK
    <3> QED BY <3>2, <3>3
  <2> QED BY <2>1, <2>2
<1> QED BY <1>1, <1>2, <1>3, <1>4

(* What a turn of either loop does to the index.                           *)
LEMMA TurnGoes ==
  ASSUME RegistryTypeOK, NEW w \in Workers, NEW next, Turn(w, next)
  PROVE  \/ /\ th_id[w] + 1 < cur /\ th_id' = [th_id EXCEPT ![w] = @ + 1]
            /\ at' = at
         \/ /\ th_id[w] + 1 >= cur /\ th_id' = [th_id EXCEPT ![w] = 0]
            /\ at' = [at EXCEPT ![w] = next]
  BY DEF Turn, RegistryTypeOK

(* The first loop marks a section that has to be waited for.               *)
LEMMA LookAtKeeps ==
  ASSUME RegistryInv, DriverInv', NEW w \in Workers, LookAt(w)
  PROVE  RegistryInv'
<1> USE DEF RegistryInv, LookAt, syncVars, driverVars
<1>1. \/ /\ th_id[w] + 1 < cur /\ th_id' = [th_id EXCEPT ![w] = @ + 1]
         /\ at' = at
      \/ /\ th_id[w] + 1 >= cur /\ th_id' = [th_id EXCEPT ![w] = 0]
         /\ at' = [at EXCEPT ![w] = "wait"]
  BY TurnGoes
<1>0. PICK odd \in Odd(w) :
        is_wait' = [is_wait EXCEPT ![w] = IF odd THEN @ \cup {th_id[w]}
                                                 ELSE @ \ {th_id[w]}]
  OBVIOUS
<1>2. RegistryTypeOK'
  <2>1. is_wait' \in [Workers -> SUBSET Nat] BY <1>0 DEF RegistryTypeOK
  <2>2. th_id' \in [Workers -> Nat] /\ at' \in [Workers -> Places]
    BY <1>1 DEF RegistryTypeOK, Places
  <2> QED BY <2>1, <2>2 DEF RegistryTypeOK, Ids, Blocks
<1>3. NumbersOK' /\ EntriesOK' BY EntriesStay DEF Registered
<1>4. PlacesOK' BY <1>1 DEF PlacesOK, RegistryTypeOK
<1>5. WalksOK'
  <2> SUFFICES ASSUME NEW u \in Workers, NEW v \in older[u]
               PROVE  /\ at'[v] = "section"
                      /\ at'[u] = "init" /\ uniq_id[v] < th_id'[u]
                           => uniq_id[v] \in is_wait'[u]
                      /\ at'[u] = "wait" => /\ th_id'[u] <= uniq_id[v]
                                            /\ uniq_id[v] \in is_wait'[u]
    BY DEF WalksOK
  <2>1. v \in Workers /\ at[v] = "section" BY DEF WalksOK, RegistryTypeOK
  <2>2. /\ table[uniq_id[v]] = self[v] /\ self[v] # None
        /\ uniq_id[v] \in 1..(cur - 1) /\ v # w /\ uniq_id[v] # uniq_id[w]
    BY <2>1 DEF PlacesOK, EntriesOK, Registered, NumbersOK
  <2>3. at'[v] = "section" BY <1>1, <2>1, <2>2 DEF RegistryTypeOK
  <2>4. CASE u # w BY <1>0, <1>1, <2>3, <2>4 DEF WalksOK, RegistryTypeOK
  <2>5. CASE u = w
    <3>1. at[u] = "init" /\ th_id[u] \in Nat /\ cur \in Nat
      BY <2>5 DEF RegistryTypeOK
    <3>2. ASSUME uniq_id[v] = th_id[w] PROVE odd
      <4>1. Reads(w) /\ ~ReadsFreed(w) /\ Running(table[th_id[w]])
        BY <2>1, <2>2, <3>2 DEF Reads, ReadsFreed, Owned, Running
      <4> QED BY <1>0, <4>1 DEF Odd
    <3>3. uniq_id[v] <= th_id[w] => uniq_id[v] \in is_wait'[w]
      <4>1. CASE uniq_id[v] = th_id[w] BY <1>0, <3>2, <4>1 DEF RegistryTypeOK
      <4>2. CASE uniq_id[v] < th_id[w]
        BY <1>0, <2>5, <3>1, <4>2 DEF WalksOK, RegistryTypeOK
      <4> QED BY <2>2, <3>1, <2>5, <4>1, <4>2
    <3> QED BY <1>1, <2>2, <2>3, <2>5, <3>1, <3>3 DEF RegistryTypeOK
  <2> QED BY <2>4, <2>5
<1> QED BY <1>2, <1>3, <1>4, <1>5

(* The second loop passes an entry when the sections it waits for there    *)
(* are over; at its end there are none left under any number.              *)
LEMMA WaitForPasses ==
  ASSUME RegistryInv, NEW w \in Workers, WaitFor(w), NEW v \in older[w]
  PROVE  th_id[w] + 1 <= uniq_id[v] /\ th_id[w] + 1 < cur
<1>1. v \in Workers /\ at[v] = "section" /\ at[w] = "wait"
  BY DEF RegistryInv, WalksOK, RegistryTypeOK, WaitFor
<1>2. /\ table[uniq_id[v]] = self[v] /\ uniq_id[v] \in 1..(cur - 1)
      /\ cur \in Nat /\ th_id[w] \in Nat
  BY <1>1 DEF RegistryInv, PlacesOK, EntriesOK, Registered, NumbersOK,
              RegistryTypeOK
<1>3. th_id[w] <= uniq_id[v] /\ uniq_id[v] \in is_wait[w]
  BY <1>1 DEF RegistryInv, WalksOK
<1>4. uniq_id[v] # th_id[w] BY <1>2, <1>3 DEF WaitFor
<1> QED BY <1>2, <1>3, <1>4

LEMMA WaitForKeeps ==
  ASSUME RegistryInv, DriverInv', NEW w \in Workers, WaitFor(w)
  PROVE  RegistryInv'
<1> USE DEF RegistryInv, WaitFor, syncVars, driverVars
<1>1. \/ /\ th_id[w] + 1 < cur /\ th_id' = [th_id EXCEPT ![w] = @ + 1]
         /\ at' = at
      \/ /\ th_id[w] + 1 >= cur /\ th_id' = [th_id EXCEPT ![w] = 0]
         /\ at' = [at EXCEPT ![w] = "out"]
  BY TurnGoes
<1>2. RegistryTypeOK'
  <2>1. is_wait' \in [Workers -> SUBSET Nat] BY DEF RegistryTypeOK
  <2>2. th_id' \in [Workers -> Nat] /\ at' \in [Workers -> Places]
    BY <1>1 DEF RegistryTypeOK, Places
  <2> QED BY <2>1, <2>2 DEF RegistryTypeOK, Ids, Blocks
<1>3. NumbersOK' /\ EntriesOK' BY EntriesStay DEF Registered
<1>4. PlacesOK' BY <1>1 DEF PlacesOK, RegistryTypeOK
<1>5. WalksOK'
  <2> SUFFICES ASSUME NEW u \in Workers, NEW v \in older[u]
               PROVE  /\ at'[v] = "section"
                      /\ at'[u] = "init" /\ uniq_id[v] < th_id'[u]
                           => uniq_id[v] \in is_wait'[u]
                      /\ at'[u] = "wait" => /\ th_id'[u] <= uniq_id[v]
                                            /\ uniq_id[v] \in is_wait'[u]
    BY DEF WalksOK
  <2>1. v \in Workers /\ at[v] = "section" /\ v # w
    BY DEF WalksOK, RegistryTypeOK
  <2>2. at'[v] = "section" BY <1>1, <2>1 DEF RegistryTypeOK
  <2>3. CASE u # w BY <1>1, <2>2, <2>3 DEF WalksOK, RegistryTypeOK
  <2>4. CASE u = w
    <3>1. th_id[w] + 1 <= uniq_id[v] /\ th_id[w] + 1 < cur
      BY <2>4, WaitForPasses
    <3>2. uniq_id[v] \in is_wait[w] /\ uniq_id[v] \in Nat
      BY <2>1, <2>4 DEF WalksOK, PlacesOK, EntriesOK, Registered, RegistryTypeOK
    <3>3. uniq_id[v] \in is_wait'[w]
      BY <3>1, <3>2 DEF RegistryTypeOK
    <3>4. th_id'[w] = th_id[w] + 1 /\ at'[w] = "wait"
      BY <1>1, <3>1 DEF RegistryTypeOK
    <3> QED BY <2>2, <2>4, <3>1, <3>3, <3>4
  <2> QED BY <2>3, <2>4
<1> QED BY <1>2, <1>3, <1>4, <1>5

(* A sync that has read freed data waits for nothing any more, or for ever. *)
LEMMA ReadFreedKeeps ==
  ASSUME RegistryInv, DriverInv', NEW w \in Workers, ReadFreed(w)
  PROVE  RegistryInv'
<1> USE DEF RegistryInv, ReadFreed, syncVars, driverVars
<1>1. PICK end \in {"crashed", "hung"} : at' = [at EXCEPT ![w] = end]
  OBVIOUS
<1>2. at[w] \in {"init", "wait"} OBVIOUS
<1>3. RegistryTypeOK' BY <1>1 DEF RegistryTypeOK, Ids, Blocks, Places
<1>4. NumbersOK' /\ EntriesOK' BY EntriesStay DEF Registered
<1>5. PlacesOK' BY <1>1, <1>2 DEF PlacesOK, RegistryTypeOK
<1>6. WalksOK'
  <2> SUFFICES ASSUME NEW u \in Workers, NEW v \in older[u]
               PROVE  /\ at'[v] = "section"
                      /\ at'[u] = "init" /\ uniq_id[v] < th_id[u]
                           => uniq_id[v] \in is_wait[u]
                      /\ at'[u] = "wait" => /\ th_id[u] <= uniq_id[v]
                                            /\ uniq_id[v] \in is_wait[u]
    BY DEF WalksOK
  <2>1. v \in Workers /\ at[v] = "section" /\ v # w
    BY <1>2 DEF WalksOK, RegistryTypeOK
  <2>2. at'[v] = "section" BY <1>1, <2>1 DEF RegistryTypeOK
  <2>3. at'[u] \in {"init", "wait"} => at'[u] = at[u]
    BY <1>1 DEF RegistryTypeOK
  <2> QED BY <2>2, <2>3 DEF WalksOK
<1> QED BY <1>3, <1>4, <1>5, <1>6

(* rlu_thread_finish.                                                      *)
LEMMA FinishSyncKeeps ==
  ASSUME RegistryInv, DriverInv', NEW w \in Workers, FinishSync(w)
  PROVE  RegistryInv'
<1> USE DEF RegistryInv, FinishSync, Go, syncVars, driverVars
<1>1. RegistryTypeOK' BY DEF RegistryTypeOK, Ids, Blocks, Places, MaySync
<1>2. NumbersOK' /\ EntriesOK' BY EntriesStay DEF Registered
<1>3. PlacesOK' BY DEF PlacesOK, RegistryTypeOK, MaySync
<1>4. WalksOK' BY DEF WalksOK, RegistryTypeOK, MaySync
<1> QED BY <1>1, <1>2, <1>3, <1>4

(* The data of a worker is freed; its number stays.                        *)
LEMMA FinishKeeps ==
  ASSUME RegistryInv, DriverInv', NEW w \in Workers, Finish(w)
  PROVE  RegistryInv'
<1> USE DEF RegistryInv, Finish, ThreadFinish, Moves, syncVars
<1>0. pc \in [Workers -> PcLabels] BY DEF DriverInv, DriverTypeOK, PcLabels
<1>1. pc' = [pc EXCEPT ![w] = "done"] /\ self' = [self EXCEPT ![w] = None]
  OBVIOUS
<1>2. RegistryTypeOK' BY DEF RegistryTypeOK, Ids, Blocks
<1>3. NumbersOK'
  <2>1. Numbered' = Numbered BY DEF Numbered
  <2> QED BY <2>1 DEF NumbersOK
<1>4. EntriesOK' BY <1>0, <1>1 DEF EntriesOK, Registered, RegistryTypeOK
<1>5. PlacesOK' BY <1>0, <1>1 DEF PlacesOK
<1>6. WalksOK' BY DEF WalksOK
<1> QED BY <1>2, <1>3, <1>4, <1>5, <1>6

-----------------------------------------------------------------------------
(* The invariant is kept by every step.                                    *)
LEMMA RegistryStep == RegistryInv /\ [RegistryNext]_vars => RegistryInv'
<1> SUFFICES ASSUME RegistryInv, [RegistryNext]_vars PROVE RegistryInv'
  OBVIOUS
<1>0. DriverInv'
  BY StepIsDriverStep, MainKeeps, WorkerKeeps, StutterKeeps
  DEF RegistryInv, Next, Ended
<1>1. CASE MainDoes BY <1>0, <1>1, DriverKeeps DEF MainDoes
<1>2. ASSUME NEW w \in Workers, ThreadStep(w) PROVE RegistryInv'
  <2>1. CASE DriverStep(w) BY <1>0, <2>1, DriverKeeps DEF DriverStep
  <2>2. CASE TakeId(w) BY <1>0, <2>2, TakeIdKeeps
  <2>3. CASE Register(w) BY <1>0, <2>3, RegisterKeeps
  <2>4. CASE EnterSection(w) BY <1>0, <2>4, EnterSectionKeeps
  <2>5. CASE LeaveSection(w) BY <1>0, <2>5, LeaveSectionKeeps
  <2>6. CASE Publish(w) BY <1>0, <2>6, PublishKeeps
  <2>7. CASE LookAt(w) BY <1>0, <2>7, LookAtKeeps
  <2>8. CASE WaitFor(w) BY <1>0, <2>8, WaitForKeeps
  <2>9. CASE FinishSync(w) BY <1>0, <2>9, FinishSyncKeeps
  <2>10. CASE Finish(w) BY <1>0, <2>10, FinishKeeps
  <2>11. CASE ReadFreed(w) BY <1>0, <2>11, ReadFreedKeeps
  <2> QED BY <1>2, <2>1, <2>2, <2>3, <2>4, <2>5, <2>6, <2>7, <2>8, <2>9, <2>10,
             <2>11 DEF ThreadStep
<1>3. CASE Over BY <1>0, <1>3, DriverKeeps DEF Over, vars
<1>4. CASE UNCHANGED vars BY <1>0, <1>4, DriverKeeps DEF vars
<1> QED BY <1>1, <1>2, <1>3, <1>4 DEF RegistryNext

THEOREM RegistryInvariant == RegistrySpec => []RegistryInv
BY RegistryStart, RegistryStep, PTL DEF RegistrySpec

(* A sync ends its walk over g_rlu_threads only when every section that    *)
(* was running when it published is over (rlu.c:467-532), although the     *)
(* table is never cleaned and points to freed data (benchmark.c:135), and  *)
(* although threads are counted before they are entered (rlu.c:673-682).   *)
THEOREM SectionsAreWaitedFor == RegistrySpec => SectionsWaitedFor
<1>1. RegistryInv /\ [RegistryNext]_vars =>
        [\A w \in Workers : at[w] = "wait" /\ at'[w] = "out" => older[w] = {}]_vars
  <2> SUFFICES ASSUME RegistryInv, RegistryNext,
                      NEW w \in Workers, at[w] = "wait", at'[w] = "out"
               PROVE  older[w] = {}
    OBVIOUS
  <2>1. at \in [Workers -> Places] BY DEF RegistryInv, RegistryTypeOK
  <2>2. WaitFor(w)
    <3>1. ASSUME NEW u \in Workers, ThreadStep(u) PROVE WaitFor(w)
      <4>1. CASE WaitFor(u) BY <2>1, <4>1 DEF WaitFor, Turn
      <4>2. CASE LookAt(u) BY <2>1, <4>2 DEF LookAt, Turn
      <4>3. CASE EnterSection(u) BY <2>1, <4>3 DEF EnterSection, Go
      <4>4. CASE LeaveSection(u) BY <2>1, <4>4 DEF LeaveSection, Go
      <4>5. CASE Publish(u) BY <2>1, <4>5 DEF Publish, Go
      <4>6. CASE FinishSync(u) BY <2>1, <4>6 DEF FinishSync, Go, MaySync
      <4>7. CASE DriverStep(u) \/ TakeId(u) \/ Register(u) \/ Finish(u)
        BY <4>7 DEF DriverStep, TakeId, Register, Finish, rluVars
      <4>8. CASE ReadFreed(u) BY <2>1, <4>8 DEF ReadFreed
      <4> QED BY <3>1, <4>1, <4>2, <4>3, <4>4, <4>5, <4>6, <4>7, <4>8
              DEF ThreadStep
    <3> QED BY <3>1 DEF RegistryNext, MainDoes, Over, vars, rluVars
  <2>3. ASSUME NEW v \in older[w] PROVE FALSE
    <3>1. th_id[w] + 1 < cur BY <2>2, WaitForPasses
    <3>2. Turn(w, "out") BY <2>2 DEF WaitFor
    <3>3. at' = at \/ th_id[w] + 1 >= cur
      BY <3>2, TurnGoes DEF RegistryInv
    <3> QED BY <3>1, <3>3 DEF RegistryInv, RegistryTypeOK
  <2> QED BY <2>3
<1> QED BY <1>1, RegistryInvariant, PTL DEF RegistrySpec, SectionsWaitedFor
=============================================================================
