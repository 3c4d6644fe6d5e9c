----------------------------- MODULE Lifecycle ------------------------------
(***************************************************************************)
(* The life of a store, from hs_open to hs_close in main: the threads that *)
(* scan and close its bitcasks, the flush thread, the workers that take    *)
(* flush_all commands, and the detached threads that compact a range of    *)
(* bitcasks.  op_start, op_end and op_laststat of the store and            *)
(* optimize_flag of a bitcask are read and written without a lock.         *)
(***************************************************************************)
EXTENDS Integers, FiniteSets

CONSTANTS count,                 \* bitcasks: 0 .. count - 1
          scan_threads,
          Worker,
          Optimizer,             \* bound: the do_optimize threads there can be
          Trees                  \* the ranges <<start, end>> of tree2range

ASSUME LifecycleAssumption ==
  /\ count \in Nat \ {0} /\ scan_threads \in Nat \ {0}
  /\ Trees \subseteq {r \in (0 .. count) \X (0 .. count) : r[1] < r[2]}

VARIABLES
  op_start, op_end, op_laststat,
  optimize_flag, bc,             \* of each bitcask: the flag, and how far it is
  main, daemon_quit,
  next,                          \* the next bitcask of each thread of parallelize
  worker, tree,                  \* each worker, and its range
  flusher, flush_at,             \* the flush thread, and the bitcask it is at
  pc, at, ret,                   \* of each do_optimize: the bitcask, the result or the sum
  accepted, done,                \* history: the last range accepted; compacted since then
  twice,                         \* history: another do_optimize was still there
  left,                          \* history: the bitcasks whose flag is left set, by a
                                 \* compaction that lost a file or a bc_close that was late
  late                           \* history: bc_optimize entered when bc_close had looked,
                                 \* or while another was in it

range == <<op_start, op_end, op_laststat>>
bitcasks == <<optimize_flag, bc>>
threads == <<main, daemon_quit, next, worker, tree, flusher, flush_at>>
optimizer == <<pc, at, ret>>
history == <<accepted, done, twice, left, late>>
vars == <<range, bitcasks, threads, optimizer, history>>

Bitcask == 0 .. count - 1

\* parallelize is used with several threads and bitcasks; else main does the work.
stride == IF scan_threads > 1 /\ count > 1 THEN scan_threads ELSE 1
Helper == 0 .. stride - 1

Init ==
  /\ op_start = 0 /\ op_end = 0 /\ op_laststat = 0
  /\ optimize_flag = [b \in Bitcask |-> 0] /\ bc = [b \in Bitcask |-> "new"]
  /\ main = "open" /\ daemon_quit = FALSE /\ next = [h \in Helper |-> h]
  /\ worker = [w \in Worker |-> "none"] /\ tree = [w \in Worker |-> <<0, 0>>]
  /\ flusher = "none" /\ flush_at = 0
  /\ pc = [o \in Optimizer |-> "none"] /\ at = [o \in Optimizer |-> 0]
  /\ ret = [o \in Optimizer |-> 0]
  /\ accepted = <<0, 0>> /\ done = {} /\ twice = FALSE /\ left = {} /\ late = {}

-----------------------------------------------------------------------------
\* hs_open: scan_thread, or the loop of hs_open.
Scan(h) ==
  /\ main = "open" /\ next[h] < count
  /\ bc' = [bc EXCEPT ![next[h]] = "open"]
  /\ next' = [next EXCEPT ![h] = @ + stride]
  /\ UNCHANGED <<range, optimize_flag, main, daemon_quit, worker, tree, flusher, flush_at, optimizer, history>>

completed == \A h \in Helper : next[h] >= count

\* All threads have completed; main starts the flush thread and the workers.
Serve ==
  /\ main = "open" /\ completed
  /\ main' = "serve" /\ next' = [h \in Helper |-> h]
  /\ worker' = [w \in Worker |-> "loop"] /\ flusher' = "top"
  /\ UNCHANGED <<range, bitcasks, daemon_quit, tree, flush_at, optimizer, history>>

\* sig_handler.
Signal ==
  /\ main = "serve" /\ ~daemon_quit /\ daemon_quit' = TRUE
  /\ UNCHANGED <<range, bitcasks, main, next, worker, tree, flusher, flush_at, optimizer, history>>

\* do_flush, which calls bc_flush for one bitcask after the other.
Flush ==
  /\ \/ flusher = "top" /\ ~daemon_quit /\ flusher' = "flush" /\ flush_at' = 0
     \/ flusher = "top" /\ daemon_quit /\ flusher' = "stopped" /\ UNCHANGED flush_at
     \/ /\ flusher = "flush"
        /\ IF flush_at + 1 < count THEN flush_at' = flush_at + 1 /\ UNCHANGED flusher
           ELSE flusher' = "top" /\ flush_at' = 0
  /\ UNCHANGED <<range, bitcasks, main, daemon_quit, next, worker, tree, optimizer, history>>

-----------------------------------------------------------------------------
\* The bound: as many commands are accepted as there are threads for.
MoreOptimizers ==
  Cardinality({o \in Optimizer : pc[o] = "none"}) > Cardinality({w \in Worker : worker[w] = "publish"})

\* hs_optimize for a range, refused while a compaction runs, ...
Optimize(w) ==
  /\ worker[w] = "loop" /\ ~daemon_quit /\ MoreOptimizers
  /\ op_start >= op_end
  /\ tree' \in {[tree EXCEPT ![w] = r] : r \in Trees}
  /\ worker' = [worker EXCEPT ![w] = "publish"]
  /\ UNCHANGED <<range, bitcasks, main, daemon_quit, next, flusher, flush_at, optimizer, history>>

running == {o \in Optimizer : pc[o] \notin {"none", "gone"}}

\* ... and the start of its thread.
Publish(w) ==
  /\ worker[w] = "publish"
  /\ op_start' = tree[w][1] /\ op_end' = tree[w][2]
  /\ \E o \in Optimizer : pc[o] = "none" /\ pc' = [pc EXCEPT ![o] = "start"]
  /\ worker' = [worker EXCEPT ![w] = "loop"] /\ tree' = [tree EXCEPT ![w] = <<0, 0>>]
  /\ accepted' = tree[w] /\ done' = {} /\ twice' = (running # {})
  /\ UNCHANGED <<op_laststat, bitcasks, main, daemon_quit, next, flusher, flush_at, at, ret, left, late>>

Stop(w) ==
  /\ worker[w] = "loop" /\ daemon_quit
  /\ worker' = [worker EXCEPT ![w] = "stopped"]
  /\ UNCHANGED <<range, bitcasks, main, daemon_quit, next, tree, flusher, flush_at, optimizer, history>>

-----------------------------------------------------------------------------
\* do_optimize.
Start(o) ==
  /\ pc[o] = "start"
  /\ op_laststat' = 0 /\ pc' = [pc EXCEPT ![o] = "test"]
  /\ UNCHANGED <<op_start, op_end, bitcasks, threads, at, ret, history>>

\* Mutant: the loop goes on after an error.
TestNoError(o) ==
  /\ pc[o] = "test"
  /\ IF op_start < op_end
     THEN at' = [at EXCEPT ![o] = op_start] /\ pc' = [pc EXCEPT ![o] = "call"]
     ELSE pc' = [pc EXCEPT ![o] = "end"] /\ UNCHANGED at
  /\ UNCHANGED <<range, bitcasks, threads, ret, history>>

\* The test of the loop reads op_start once for itself and for the call.
Test(o) ==
  /\ pc[o] = "test"
  /\ IF op_start < op_end /\ op_laststat = 0
     THEN at' = [at EXCEPT ![o] = op_start] /\ pc' = [pc EXCEPT ![o] = "call"]
     ELSE pc' = [pc EXCEPT ![o] = "end"] /\ UNCHANGED at
  /\ UNCHANGED <<range, bitcasks, threads, ret, history>>

inside(b) == {o \in Optimizer : pc[o] = "compact" /\ at[o] = b}

\* bc_optimize begins.
Begin(o) ==
  /\ pc[o] = "call"
  /\ optimize_flag' = [optimize_flag EXCEPT ![at[o]] = 1]
  /\ late' = IF bc[at[o]] = "open" /\ inside(at[o]) = {} THEN late
             ELSE late \cup inside(at[o]) \cup {o}
  /\ pc' = [pc EXCEPT ![o] = "compact"]
  /\ UNCHANGED <<range, bc, threads, at, ret, accepted, done, twice, left>>

\* Mutant: a compaction that fails leaves the flag.
EndKeepsFlag(o) ==
  /\ pc[o] = "compact"
  /\ \/ /\ optimize_flag' = [optimize_flag EXCEPT ![at[o]] = 0] /\ ret' = [ret EXCEPT ![o] = 0]
        /\ done' = IF optimize_flag[at[o]] = 1 THEN done \cup {at[o]} ELSE done
     \/ /\ ret' = [ret EXCEPT ![o] = -1]
        /\ UNCHANGED <<optimize_flag, done>>
  /\ pc' = [pc EXCEPT ![o] = "store"]
  /\ late' = late \ {o}
  /\ UNCHANGED <<range, bc, threads, at, accepted, twice, left>>

\* It ends: with all files done, or early when bc_close has set the flag to 2; or
\* it fails; or it finds a data file lost, and leaves the flag as it is.
End(o) ==
  /\ pc[o] = "compact"
  /\ \/ /\ optimize_flag' = [optimize_flag EXCEPT ![at[o]] = 0] /\ ret' = [ret EXCEPT ![o] = 0]
        /\ left' = left \ {at[o]}
        /\ done' = IF optimize_flag[at[o]] = 1 THEN done \cup {at[o]} ELSE done
     \/ /\ optimize_flag' = [optimize_flag EXCEPT ![at[o]] = 0] /\ ret' = [ret EXCEPT ![o] = -1]
        /\ left' = left \ {at[o]} /\ UNCHANGED done
     \/ /\ ret' = [ret EXCEPT ![o] = -1] /\ left' = left \cup {at[o]}
        /\ UNCHANGED <<optimize_flag, done>>
  /\ pc' = [pc EXCEPT ![o] = "store"]
  /\ late' = late \ {o}
  /\ UNCHANGED <<range, bc, threads, at, accepted, twice>>

Store(o) ==
  /\ pc[o] = "store"
  /\ op_laststat' = ret[o] /\ pc' = [pc EXCEPT ![o] = "load"]
  /\ at' = [at EXCEPT ![o] = 0] /\ ret' = [ret EXCEPT ![o] = 0]
  /\ UNCHANGED <<op_start, op_end, bitcasks, threads, history>>

\* ++(store->op_start)
Load(o) ==
  /\ pc[o] = "load"
  /\ ret' = [ret EXCEPT ![o] = op_start + 1] /\ pc' = [pc EXCEPT ![o] = "increment"]
  /\ UNCHANGED <<range, bitcasks, threads, at, history>>

Increment(o) ==
  /\ pc[o] = "increment"
  /\ op_start' = ret[o] /\ pc' = [pc EXCEPT ![o] = "test"] /\ ret' = [ret EXCEPT ![o] = 0]
  /\ UNCHANGED <<op_end, op_laststat, bitcasks, threads, at, history>>

Clear(o) ==
  /\ pc[o] = "end"
  /\ op_start' = 0 /\ op_end' = 0 /\ pc' = [pc EXCEPT ![o] = "gone"]
  /\ UNCHANGED <<op_laststat, bitcasks, threads, at, ret, history>>

do_optimize(o) ==
  \/ Start(o) \/ Test(o) \/ Begin(o) \/ End(o) \/ Store(o) \/ Load(o) \/ Increment(o) \/ Clear(o)

-----------------------------------------------------------------------------
\* main has joined the workers and the flush thread and calls hs_close.
Join ==
  /\ main = "serve" /\ flusher = "stopped" /\ \A w \in Worker : worker[w] = "stopped"
  /\ main' = "close" /\ op_start' = 0 /\ op_end' = 0
  /\ UNCHANGED <<op_laststat, bitcasks, daemon_quit, next, worker, tree, flusher, flush_at, optimizer, history>>

closing(h, from, to) ==
  /\ main = "close" /\ next[h] < count
  /\ bc[next[h]] = from /\ bc' = [bc EXCEPT ![next[h]] = to]
  /\ UNCHANGED <<range, main, daemon_quit, worker, tree, flusher, flush_at, optimizer, accepted, done, twice, late>>

\* bc_close: a compaction is told to stop, ...
CloseIdle(h) ==
  /\ closing(h, "open", "closing") /\ optimize_flag[next[h]] = 0
  /\ UNCHANGED <<optimize_flag, next, left>>

CloseTest(h) ==
  /\ closing(h, "open", "tested") /\ optimize_flag[next[h]] > 0
  /\ UNCHANGED <<optimize_flag, next, left>>

\* Mutant: the compaction is told to stop, and not waited for.
CloseMarkOnly(h) ==
  /\ closing(h, "tested", "closing")
  /\ optimize_flag' = [optimize_flag EXCEPT ![next[h]] = 2]
  /\ UNCHANGED <<next, left>>

CloseMark(h) ==
  /\ closing(h, "tested", "marked")
  /\ optimize_flag' = [optimize_flag EXCEPT ![next[h]] = 2]
  /\ left' = IF inside(next[h]) = {} THEN left \cup {next[h]} ELSE left
  /\ UNCHANGED next

\* ... its end is waited for, ...
CloseWait(h) ==
  /\ closing(h, "marked", "closing") /\ optimize_flag[next[h]] = 0
  /\ UNCHANGED <<optimize_flag, next, left>>

\* ... and the bitcask is flushed, saved and freed.
Close(h) ==
  /\ closing(h, "closing", "closed")
  /\ next' = [next EXCEPT ![h] = @ + stride]
  /\ UNCHANGED <<optimize_flag, left>>

bc_close(h) == CloseIdle(h) \/ CloseTest(h) \/ CloseMark(h) \/ CloseWait(h) \/ Close(h)

\* The store is freed, and main returns.
Free ==
  /\ main = "close" /\ completed /\ main' = "exit"
  /\ UNCHANGED <<range, bitcasks, daemon_quit, next, worker, tree, flusher, flush_at, optimizer, history>>

Next ==
  \/ Serve \/ Signal \/ Flush \/ Join \/ Free
  \/ \E h \in Helper : Scan(h) \/ bc_close(h)
  \/ \E w \in Worker : Optimize(w) \/ Publish(w) \/ Stop(w)
  \/ \E o \in Optimizer : do_optimize(o)

Spec == Init /\ [][Next]_vars

\* Every thread goes on; the signal and the commands need not come.
Fairness ==
  /\ WF_vars(Serve) /\ WF_vars(Flush) /\ WF_vars(Join) /\ WF_vars(Free)
  /\ \A h \in Helper : WF_vars(Scan(h)) /\ WF_vars(bc_close(h))
  /\ \A w \in Worker : WF_vars(Publish(w)) /\ WF_vars(Stop(w))
  /\ \A o \in Optimizer : WF_vars(do_optimize(o))

FairSpec == Spec /\ Fairness

-----------------------------------------------------------------------------
RangeOK == op_start \in Nat /\ op_end \in 0 .. count /\ op_laststat \in {-1, 0}

BitcasksOK ==
  /\ optimize_flag \in [Bitcask -> 0 .. 2]
  /\ bc \in [Bitcask -> {"new", "open", "tested", "marked", "closing", "closed"}]

MainOK ==
  /\ main \in {"open", "serve", "close", "exit"} /\ daemon_quit \in BOOLEAN
  /\ next \in [Helper -> Nat]
  /\ flusher \in {"none", "top", "flush", "stopped"} /\ flush_at \in Bitcask

WorkersOK ==
  /\ worker \in [Worker -> {"none", "loop", "publish", "stopped"}]
  /\ tree \in [Worker -> Trees \cup {<<0, 0>>}]

Label == {"none", "start", "test", "call", "compact", "store", "load", "increment", "end", "gone"}

OptimizerOK ==
  /\ pc \in [Optimizer -> Label] /\ at \in [Optimizer -> Bitcask] /\ ret \in [Optimizer -> Int]
  /\ \A o \in Optimizer : /\ pc[o] = "store" => ret[o] \in {-1, 0}
                          /\ pc[o] = "increment" => ret[o] \in Nat

HistoryOK ==
  /\ accepted \in Trees \cup {<<0, 0>>} /\ done \subseteq Bitcask /\ twice \in BOOLEAN
  /\ left \subseteq Bitcask /\ late \subseteq Optimizer

TypeOK == RangeOK /\ BitcasksOK /\ MainOK /\ WorkersOK /\ OptimizerOK /\ HistoryOK

\* A bitcask is flushed and compacted only between its scan and its closing: the
\* flush thread always, and a compaction that was alone in it when bc_close looked.
InUse ==
  /\ flusher = "flush" => bc[flush_at] = "open"
  /\ \A o \in Optimizer \ late :
       pc[o] = "compact" => bc[at[o]] \in {"open", "tested", "marked"}

\* "bc_close() is not thread safe, should stop other threads before call it."
\* (bitcask.c): when a bitcask is closed no compaction is in it or about to be.
OthersStopped ==
  \A o \in Optimizer : pc[o] \in {"call", "compact"} => bc[at[o]] # "closed"

success == op_start >= op_end /\ op_laststat = 0

\* When optimize_stat says success, all of the range of the last flush_all that
\* was accepted is compacted; unless its thread met one of an earlier command.
AcceptedIsDone ==
  success /\ ~daemon_quit /\ ~twice => accepted[1] .. accepted[2] - 1 \subseteq done

\* "//>=0 running; == -1 ok; < -1 err" (hs_optimize_stat).
OkIsDone == success /\ ~daemon_quit => accepted[1] .. accepted[2] - 1 \subseteq done

-----------------------------------------------------------------------------
(***************************************************************************)
(* The inductive invariant behind InUse and AcceptedIsDone.                *)
(***************************************************************************)
\* The bitcasks are scanned, each by its own thread; then the others run, and main
\* waits for them before it closes.
Stages ==
  /\ main = "open" => \A h \in Helper :
       /\ next[h] % stride = h
       /\ \A b \in Bitcask : b % stride = h /\ b < next[h] => bc[b] = "open"
  /\ main = "serve" => \A b \in Bitcask : bc[b] = "open"
  /\ main \in {"close", "exit"} \/ flusher = "stopped" => daemon_quit
  /\ flusher \in {"top", "flush"} => main = "serve"
  /\ \A w \in Worker : worker[w] = "publish" => tree[w] \in Trees

\* A compaction that bc_close does not miss is the only one in its bitcask, and its
\* flag is set.
Alone ==
  \A o \in Optimizer \ late : pc[o] = "compact" =>
    /\ bc[at[o]] \in {"open", "tested", "marked"} /\ optimize_flag[at[o]] > 0
    /\ \A p \in inside(at[o]) : p = o

\* The bitcasks of the accepted range below n have been compacted.
compacted(n) == accepted[1] .. n - 1 \subseteq done

\* Where a thread that carries out the accepted command alone is.
Doing(o) ==
  /\ accepted \in Trees /\ op_end = accepted[2]
  /\ pc[o] = "start" => op_start = accepted[1]
  /\ pc[o] = "test" /\ op_laststat = 0 => compacted(op_start)
  /\ pc[o] \in {"call", "compact", "store", "load", "increment"} => op_start < op_end
  /\ pc[o] \in {"call", "compact"} => compacted(op_start)
  /\ pc[o] \in {"call", "compact", "store"} => at[o] = op_start
  /\ pc[o] = "compact" => optimize_flag[at[o]] = 1
  /\ pc[o] = "store" /\ ret[o] = 0 => compacted(op_start + 1)
  /\ pc[o] \in {"load", "increment"} /\ op_laststat = 0 => compacted(op_start + 1)
  /\ pc[o] = "increment" => ret[o] = op_start + 1
  /\ pc[o] = "end" /\ op_laststat = 0 => compacted(op_end)

Progress ==
  ~twice /\ ~daemon_quit =>
    /\ running = {} /\ success => compacted(accepted[2])
    /\ \A o \in running : running = {o} /\ Doing(o)

IInv == TypeOK /\ Stages /\ Alone /\ Progress

\* After a signal the store is closed and main returns; what it can wait for in vain
\* is a flag that a compaction which lost a file left, or that bc_close set after the
\* compaction had ended.
Stops == daemon_quit ~> main = "exit" \/ \E b \in left : bc[b] = "marked" /\ inside(b) = {}
=============================================================================
