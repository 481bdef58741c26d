---------------------------- MODULE RluThreads ----------------------------
(***************************************************************************)
(* The registry of threads of RLU (lib/rlu.c) under the benchmark driver:  *)
(* rlu_thread_init enters a thread into g_rlu_threads, and every sync      *)
(* walks that table to find the sections it has to wait for.  An entry is  *)
(* never removed: the table keeps pointing to the data of threads that     *)
(* have freed it, first of all to that of the main thread, which has       *)
(* registered as 0, filled the tree and finished before it creates the     *)
(* workers.  When malloc has given the block out again, the entry stands   *)
(* for its new owner; until then what a read of it finds is undefined: any *)
(* run_counter, for one moment or for ever, or an unmapped page.           *)
(***************************************************************************)
EXTENDS Benchmark

CONSTANTS
  MaxThreads,  \* RLU_MAX_THREADS
  None         \* NULL

ASSUME RegistryAssumption ==
  MaxThreads \in Nat /\ NWorkers < MaxThreads /\ None \notin Nat

Ids == 0..(MaxThreads - 1)
Blocks == 0..NWorkers  \* memory for thread data; 0 was the main thread's

VARIABLES
  cur,     \* g_rlu_cur_threads
  table,   \* g_rlu_threads
  self,    \* rlu_self of each worker
  uniq_id,
  at,      \* where each worker is in RLU
  th_id,   \* the index of its loop over the table
  is_wait, \* the q_threads[] it is to wait for
  older,   \* the workers in a section of a version before its writer_version
  committed,  \* has it committed a write set?
  syncs    \* the syncs it has done in rlu_thread_finish

syncVars == <<th_id, is_wait, older>>
rluVars == <<cur, table, self, uniq_id, at, syncVars, committed, syncs>>
vars == <<driverVars, rluVars>>

RegistryInit ==
  /\ Init
  /\ cur = 1 /\ table = [k \in Ids |-> IF k = 0 THEN 0 ELSE None]
  /\ self = [w \in Workers |-> None] /\ uniq_id = [w \in Workers |-> None]
  /\ at = [w \in Workers |-> "out"] /\ th_id = [w \in Workers |-> 0]
  /\ is_wait = [w \in Workers |-> {}] /\ older = [w \in Workers |-> {}]
  /\ committed = [w \in Workers |-> FALSE] /\ syncs = [w \in Workers |-> 0]

Go(w, from, to) == at[w] = from /\ at' = [at EXCEPT ![w] = to]

-----------------------------------------------------------------------------
(* rlu_thread_init: malloc and FETCH_AND_ADD, then the store.              *)
TakeId(w) ==
  /\ pc[w] = "init" /\ uniq_id[w] = None
  /\ uniq_id' = [uniq_id EXCEPT ![w] = cur] /\ cur' = cur + 1
  /\ \E b \in {0, w + 1} \ {self[v] : v \in Workers} :
       self' = [self EXCEPT ![w] = b]
  /\ UNCHANGED <<driverVars, table, at, syncVars, committed, syncs>>
Register(w) ==
  /\ uniq_id[w] # None /\ ThreadInit(w)
  /\ table' = [table EXCEPT ![uniq_id[w]] = self[w]]
  /\ UNCHANGED <<cur, self, uniq_id, at, syncVars, committed, syncs>>

(* rlu_register_thread and rlu_unregister_thread.  Whether a call commits, *)
(* and whether a sync comes after it, is left to chance: that depends on   *)
(* the tree, on max_write_sets and on is_sync.  A query commits nothing.   *)
MaySync(c) == IF c THEN {"out", "sync"} ELSE {"out"}
EnterSection(w) ==
  /\ pc[w] = "call" /\ Go(w, "out", "section")
  /\ UNCHANGED <<driverVars, cur, table, self, uniq_id, syncVars, committed,
                 syncs>>
LeaveSection(w) ==
  /\ \E c \in {committed[w], TRUE} :
       /\ Insert(w) \/ Delete(w) \/ (Query(w) /\ c = committed[w])
       /\ committed' = [committed EXCEPT ![w] = c]
       /\ \E then \in MaySync(c) : Go(w, "section", then)
  /\ older' = [v \in Workers |-> older[v] \ {w}]
  /\ UNCHANGED <<cur, table, self, uniq_id, th_id, is_wait, syncs>>

-----------------------------------------------------------------------------
(* rlu_sync_and_writeback: writer_version, rlu_init_quiescence, which      *)
(* looks at the table, and rlu_wait_for_quiescence.                        *)
Owned(b) == \E v \in Workers : self[v] = b
Running(b) == \E v \in Workers : self[v] = b /\ at[v] = "section"
Publish(w) ==
  /\ Go(w, "sync", "init") /\ th_id' = [th_id EXCEPT ![w] = 0]
  /\ older' = [older EXCEPT ![w] = {v \in Workers : at[v] = "section"}]
  /\ UNCHANGED <<driverVars, cur, table, self, uniq_id, is_wait, committed, syncs>>
TurnShort(w, next) ==  \* mutant: the last entry is left out
  IF th_id[w] + 2 < cur
  THEN th_id' = [th_id EXCEPT ![w] = @ + 1] /\ UNCHANGED at
  ELSE th_id' = [th_id EXCEPT ![w] = 0] /\ at' = [at EXCEPT ![w] = next]
Turn(w, next) ==
  IF th_id[w] + 1 < cur
  THEN th_id' = [th_id EXCEPT ![w] = @ + 1] /\ UNCHANGED at
  ELSE th_id' = [th_id EXCEPT ![w] = 0] /\ at' = [at EXCEPT ![w] = next]
Reads(w) == th_id[w] # uniq_id[w] /\ table[th_id[w]] # None
ReadsFreed(w) == Reads(w) /\ ~Owned(table[th_id[w]])
Odd(w) ==  \* is the run_counter read odd?
  CASE ~Reads(w)     -> {FALSE}
    [] ReadsFreed(w) -> BOOLEAN
    [] OTHER         -> {Running(table[th_id[w]])}
LookAt(w) ==
  /\ at[w] = "init" /\ Turn(w, "wait")
  /\ \E odd \in Odd(w) :
       is_wait' = [is_wait EXCEPT ![w] = IF odd THEN @ \cup {th_id[w]}
                                                ELSE @ \ {th_id[w]}]
  /\ UNCHANGED <<driverVars, cur, table, self, uniq_id, older, committed, syncs>>
WaitFor(w) ==
  /\ at[w] = "wait" /\ Turn(w, "out")
  /\ th_id[w] \in is_wait[w] =>
       \A v \in older[w] : self[v] # table[th_id[w]]
  /\ is_wait' = [is_wait EXCEPT ![w] = @ \ {th_id[w]}]
  /\ UNCHANGED <<driverVars, cur, table, self, uniq_id, older, committed, syncs>>

(* What else a read of freed data may come to: the page is gone, or it     *)
(* holds the run_counter that the wait wants to see change, and keeps it.  *)
ReadFreed(w) ==
  /\ ReadsFreed(w)
  /\ \/ at[w] = "init" /\ at' = [at EXCEPT ![w] = "crashed"]
     \/ /\ at[w] = "wait" /\ th_id[w] \in is_wait[w]
        /\ \E end \in {"crashed", "hung"} : at' = [at EXCEPT ![w] = end]
  /\ UNCHANGED <<driverVars, cur, table, self, uniq_id, syncVars, committed,
                 syncs>>
Crashed == \E w \in Workers : at[w] = "crashed"
Hung == \E w \in Workers : at[w] = "hung"

(* rlu_thread_finish syncs twice, if there is anything to sync; then the   *)
(* data is freed.                                                          *)
FinishSync(w) ==
  /\ pc[w] = "finish" /\ syncs[w] < 2
  /\ \E then \in MaySync(committed[w]) : Go(w, "out", then)
  /\ syncs' = [syncs EXCEPT ![w] = @ + 1]
  /\ UNCHANGED <<driverVars, cur, table, self, uniq_id, syncVars, committed>>
Finish(w) ==
  /\ at[w] = "out" /\ syncs[w] = 2 /\ ThreadFinish(w)
  /\ self' = [self EXCEPT ![w] = None]
  /\ UNCHANGED <<cur, table, uniq_id, at, syncVars, committed, syncs>>

DriverStep(w) ==
  /\ Fill(w) \/ SetReady(w) \/ Spin(w) \/ (at[w] = "out" /\ Loop(w))
  /\ UNCHANGED rluVars
ThreadStep(w) ==
  /\ ~Crashed
  /\ \/ DriverStep(w) \/ TakeId(w) \/ Register(w)
     \/ EnterSection(w) \/ LeaveSection(w)
     \/ Publish(w) \/ LookAt(w) \/ WaitFor(w) \/ ReadFreed(w)
     \/ FinishSync(w) \/ Finish(w)
MainDoes == ~Crashed /\ MainStep /\ UNCHANGED rluVars
Over == (main = "end" \/ Crashed \/ Hung) /\ UNCHANGED vars

RegistryNext == MainDoes \/ (\E w \in Workers : ThreadStep(w)) \/ Over
RegistrySpec ==
  /\ RegistryInit /\ [][RegistryNext]_vars
  /\ WF_vars(MainDoes) /\ \A w \in Workers : WF_vars(ThreadStep(w))

-----------------------------------------------------------------------------
(* A sync that has gone through the table has waited for every section     *)
(* that had started before it, under whichever entry.                      *)
SectionsWaitedFor ==
  [][\A w \in Workers : at[w] = "wait" /\ at'[w] = "out" => older[w] = {}]_vars

(* The run ends: the flags reach the workers, every sync gets through its  *)
(* walk, and every worker is joined, unless a sync is lost in freed data.  *)
RunEnds == <>(main = "end" \/ Crashed \/ Hung)
=============================================================================
