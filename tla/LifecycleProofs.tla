-------------------------- MODULE LifecycleProofs ---------------------------
(***************************************************************************)
(* Proofs about the life of a store, for any number of bitcasks, scanning  *)
(* threads, workers and compactions.                                       *)
(***************************************************************************)
EXTENDS Lifecycle, TLAPS

-----------------------------------------------------------------------------
(***************************************************************************)
(* Thread h of parallelize takes the bitcasks h, h + stride, ...           *)
(***************************************************************************)
LEMMA Divides ==
  ASSUME NEW s \in Nat \ {0}, NEW a \in Nat
  PROVE  a \div s \in Int /\ a % s \in 0 .. s - 1 /\ a = s * (a \div s) + (a % s)
OBVIOUS

\* Quotient and remainder are unique.
LEMMA QuotientUnique ==
  ASSUME NEW s \in Nat \ {0}, NEW p \in Int, NEW q \in Int,
         NEW r \in 0 .. s - 1, NEW t \in 0 .. s - 1, s * p + r = s * q + t
  PROVE  p = q /\ r = t
<1>1. s * (p - q) = t - r
  OBVIOUS
<1>2. CASE p - q >= 1
  <2>1. s * (p - q) >= s
    BY <1>2
  <2> QED
    BY <2>1, <1>1
<1>3. CASE p - q <= -1
  <2>1. s * (p - q) <= -s
    BY <1>3
  <2> QED
    BY <2>1, <1>1
<1>4. CASE p = q
  BY <1>4
<1> QED
  BY <1>2, <1>3, <1>4

\* The next bitcask of a thread is one of its own, ...
LEMMA NextMod ==
  ASSUME NEW s \in Nat \ {0}, NEW a \in Nat
  PROVE  (a + s) % s = a % s
<1>1. PICK q \in Int, r \in 0 .. s - 1 : a = s * q + r /\ r = a % s
  BY Zenon, Divides
<1>2. PICK x \in Nat : x = a + s
  OBVIOUS
<1>3. PICK p \in Int, t \in 0 .. s - 1 : x = s * p + t /\ t = x % s
  BY Zenon, Divides
<1>4. s * (q + 1) + r = s * p + t
  BY <1>1, <1>2, <1>3
<1>5. q + 1 \in Int
  OBVIOUS
<1>6. r = t
  BY Zenon, <1>4, <1>5, QuotientUnique
<1> QED
  BY Zenon, <1>1, <1>2, <1>3, <1>6

\* ... and the thread skips none of them.
LEMMA NoneSkipped ==
  ASSUME NEW s \in Nat \ {0}, NEW a \in Nat, NEW b \in Nat,
         a <= b, b < a + s, a % s = b % s
  PROVE  a = b
<1>1. /\ a = s * (a \div s) + (a % s) /\ b = s * (b \div s) + (a % s)
      /\ a \div s \in Int /\ b \div s \in Int /\ a % s \in Int
  BY Divides
<1> DEFINE d == (b \div s) - (a \div s)
<1>2. b - a = s * d /\ d \in Int
  BY <1>1
<1>3. CASE d >= 1
  <2>1. s * d >= s
    BY <1>2, <1>3
  <2> QED
    BY <1>2, <2>1
<1>4. CASE d <= -1
  <2>1. s * d <= -s
    BY <1>2, <1>4
  <2> QED
    BY <1>2, <2>1
<1>5. CASE d = 0
  BY <1>2, <1>5
<1> HIDE DEF d
<1> QED
  BY <1>2, <1>3, <1>4, <1>5

LEMMA Strides ==
  /\ stride \in Nat \ {0} /\ Helper = 0 .. stride - 1
  /\ \A h \in Helper : h \in Nat /\ h % stride = h
  /\ \A b \in Bitcask : b \in Nat /\ b < count /\ b % stride \in Helper
<1>1. stride \in Nat \ {0} /\ Helper = 0 .. stride - 1
  BY LifecycleAssumption DEF stride, Helper
<1>2. ASSUME NEW s \in Nat \ {0}, NEW h \in 0 .. s - 1
      PROVE  h % s = h
  OBVIOUS
<1>3. \A b \in Bitcask : b \in Nat /\ b < count
  BY LifecycleAssumption DEF Bitcask
<1>4. ASSUME NEW h \in Helper
      PROVE  h \in Nat /\ h % stride = h
  BY <1>1, <1>2
<1>5. ASSUME NEW b \in Bitcask
      PROVE  b % stride \in Helper
  BY Zenon, <1>1, <1>3, Divides
<1> QED
  BY Zenon, <1>1, <1>3, <1>4, <1>5

-----------------------------------------------------------------------------
\* The ranges of the commands, and what the constants are.
LEMMA Ranges ==
  /\ count \in Nat \ {0}
  /\ \A r \in Trees \cup {<<0, 0>>} : r[1] \in 0 .. count /\ r[2] \in 0 .. count
  /\ \A r \in Trees : r[1] < r[2]
  /\ 0 \in Bitcask /\ \A b \in Bitcask : b \in Nat /\ b < count
BY LifecycleAssumption DEF Bitcask

LEMMA InitInv == Init => IInv
<1> SUFFICES ASSUME Init PROVE IInv
  OBVIOUS
<1>1. TypeOK
  <2>1. next \in [Helper -> Nat]
    BY Zenon, Strides DEF Init
  <2>2. /\ optimize_flag \in [Bitcask -> 0 .. 2] /\ flush_at \in Bitcask
        /\ at \in [Optimizer -> Bitcask]
    BY Ranges DEF Init
  <2>3. /\ pc = [o \in Optimizer |-> "none"] /\ ret \in [Optimizer -> Int]
        /\ tree \in [Worker -> Trees \cup {<<0, 0>>}] /\ worker = [w \in Worker |-> "none"]
        /\ bc = [b \in Bitcask |-> "new"] /\ accepted = <<0, 0>>
    BY DEF Init
  <2>4. op_start \in Nat /\ op_end \in 0 .. count /\ op_laststat \in {-1, 0}
    BY Ranges DEF Init
  <2>5. /\ main = "open" /\ daemon_quit = FALSE /\ flusher = "none" /\ twice = FALSE
        /\ done = {} /\ left = {} /\ late = {}
    BY Zenon DEF Init
  <2> QED
    BY Zenon, <2>1, <2>2, <2>3, <2>4, <2>5
       DEF TypeOK, RangeOK, BitcasksOK, MainOK, WorkersOK, OptimizerOK, HistoryOK, Label
<1>2. Stages
  <2>1. ASSUME NEW h \in Helper, NEW b \in Bitcask, b % stride = h, b < next[h]
        PROVE  FALSE
    <3>1. next[h] = h /\ h \in Nat /\ h < stride /\ stride \in Nat \ {0} /\ b \in Nat
      BY Strides DEF Init
    <3> QED
      BY <2>1, <3>1
  <2>2. \A h \in Helper : next[h] % stride = h
    BY Zenon, Strides DEF Init
  <2> QED
    BY Zenon, <2>1, <2>2 DEF Init, Stages
<1>3. Alone
  BY Zenon DEF Init, Alone
<1>4. Progress
  <2>1. running = {}
    BY Zenon DEF Init, running
  <2>2. compacted(accepted[2])
    BY DEF Init, compacted
  <2> QED
    BY Zenon, <2>1, <2>2 DEF Progress
<1> QED
  BY Zenon, <1>1, <1>2, <1>3, <1>4 DEF IInv

-----------------------------------------------------------------------------
(***************************************************************************)
(* Every step keeps the types.                                             *)
(***************************************************************************)
LEMMA TypeStep == TypeOK /\ Stages /\ [Next]_vars => TypeOK'
<1> SUFFICES ASSUME TypeOK, Stages, [Next]_vars PROVE TypeOK'
  OBVIOUS
<1>t. RangeOK /\ BitcasksOK /\ MainOK /\ WorkersOK /\ OptimizerOK /\ HistoryOK
  BY Zenon DEF TypeOK
<1>1. CASE Serve
  <2>1. RangeOK' /\ BitcasksOK' /\ OptimizerOK' /\ HistoryOK'
    BY Zenon, <1>1, <1>t DEF Serve, range, bitcasks, threads, optimizer, history, RangeOK, BitcasksOK,
       OptimizerOK, HistoryOK
  <2>2. MainOK'
    BY Zenon, <1>1, <1>t, Ranges, Strides DEF Serve, MainOK
  <2>3. WorkersOK'
    BY Zenon, <1>1, <1>t, Ranges, Strides DEF Serve, WorkersOK
  <2> QED
    BY Zenon, <2>1, <2>2, <2>3 DEF TypeOK
<1>2. CASE Signal
  <2>1. RangeOK' /\ BitcasksOK' /\ WorkersOK' /\ OptimizerOK' /\ HistoryOK'
    BY Zenon, <1>2, <1>t DEF Signal, range, bitcasks, threads, optimizer, history, RangeOK, BitcasksOK,
       WorkersOK, OptimizerOK, HistoryOK
  <2>2. MainOK'
    BY Zenon, <1>2, <1>t, Ranges, Strides DEF Signal, MainOK
  <2> QED
    BY Zenon, <2>1, <2>2 DEF TypeOK
<1>3. CASE Flush
  <2>1. RangeOK' /\ BitcasksOK' /\ WorkersOK' /\ OptimizerOK' /\ HistoryOK'
    BY Zenon, <1>3, <1>t DEF Flush, range, bitcasks, threads, optimizer, history, RangeOK, BitcasksOK,
       WorkersOK, OptimizerOK, HistoryOK
  <2>2. flusher' \in {"none", "top", "flush", "stopped"} /\ flush_at' \in Bitcask
    BY <1>3, <1>t, Ranges DEF Flush, MainOK, Bitcask
  <2>3. MainOK'
    BY Zenon, <1>3, <2>2, <1>t DEF Flush, MainOK
  <2> QED
    BY <2>1, <2>3 DEF TypeOK
<1>4. CASE Join
  <2>1. BitcasksOK' /\ WorkersOK' /\ OptimizerOK' /\ HistoryOK'
    BY Zenon, <1>4, <1>t DEF Join, range, bitcasks, threads, optimizer, history, BitcasksOK, WorkersOK,
       OptimizerOK, HistoryOK
  <2>2. RangeOK'
    BY <1>4, <1>t, Ranges, Strides DEF Join, RangeOK
  <2>3. MainOK'
    BY Zenon, <1>4, <1>t, Ranges, Strides DEF Join, MainOK
  <2> QED
    BY Zenon, <2>1, <2>2, <2>3 DEF TypeOK
<1>5. CASE Free
  <2>1. RangeOK' /\ BitcasksOK' /\ WorkersOK' /\ OptimizerOK' /\ HistoryOK'
    BY Zenon, <1>5, <1>t DEF Free, range, bitcasks, threads, optimizer, history, RangeOK, BitcasksOK,
       WorkersOK, OptimizerOK, HistoryOK
  <2>2. MainOK'
    BY Zenon, <1>5, <1>t, Ranges, Strides DEF Free, MainOK
  <2> QED
    BY <2>1, <2>2 DEF TypeOK
<1>6. ASSUME NEW h \in Helper, Scan(h) PROVE TypeOK'
  <2>1. RangeOK' /\ WorkersOK' /\ OptimizerOK' /\ HistoryOK'
    BY Zenon, <1>6, <1>t DEF Scan, range, bitcasks, threads, optimizer, history, RangeOK, WorkersOK,
       OptimizerOK, HistoryOK
  <2>2. BitcasksOK'
    BY Zenon, <1>6, <1>t, Ranges, Strides DEF Scan, BitcasksOK
  <2>3. MainOK'
    BY <1>6, <1>t, Ranges, Strides DEF Scan, MainOK
  <2> QED
    BY Zenon, <2>1, <2>2, <2>3 DEF TypeOK
<1>7. ASSUME NEW h \in Helper, CloseIdle(h) PROVE TypeOK'
  <2>1. RangeOK' /\ MainOK' /\ WorkersOK' /\ OptimizerOK' /\ HistoryOK'
    BY Zenon, <1>7, <1>t DEF CloseIdle, closing, range, bitcasks, threads, optimizer, history, RangeOK,
       MainOK, WorkersOK, OptimizerOK, HistoryOK
  <2>2. BitcasksOK'
    BY Zenon, <1>7, <1>t, Ranges, Strides DEF CloseIdle, closing, BitcasksOK
  <2> QED
    BY Zenon, <2>1, <2>2 DEF TypeOK
<1>8. ASSUME NEW h \in Helper, CloseTest(h) PROVE TypeOK'
  <2>1. RangeOK' /\ MainOK' /\ WorkersOK' /\ OptimizerOK' /\ HistoryOK'
    BY Zenon, <1>8, <1>t DEF CloseTest, closing, range, bitcasks, threads, optimizer, history, RangeOK,
       MainOK, WorkersOK, OptimizerOK, HistoryOK
  <2>2. BitcasksOK'
    BY Zenon, <1>8, <1>t, Ranges, Strides DEF CloseTest, closing, BitcasksOK
  <2> QED
    BY <2>1, <2>2 DEF TypeOK
<1>9. ASSUME NEW h \in Helper, CloseMark(h) PROVE TypeOK'
  <2>1. RangeOK' /\ MainOK' /\ WorkersOK' /\ OptimizerOK'
    BY Zenon, <1>9, <1>t DEF CloseMark, closing, range, bitcasks, threads, optimizer, history, RangeOK,
       MainOK, WorkersOK, OptimizerOK
  <2>2. next[h] \in Bitcask
    BY <1>9, <1>t, Ranges DEF CloseMark, closing, MainOK, Bitcask
  <2>3. BitcasksOK'
    BY <1>9, <2>2, <1>t DEF CloseMark, closing, BitcasksOK
  <2>4. HistoryOK'
    BY Zenon, <1>9, <2>2, <1>t DEF CloseMark, closing, HistoryOK
  <2> QED
    BY Zenon, <2>1, <2>3, <2>4 DEF TypeOK
<1>10. ASSUME NEW h \in Helper, CloseWait(h) PROVE TypeOK'
  <2>1. RangeOK' /\ MainOK' /\ WorkersOK' /\ OptimizerOK' /\ HistoryOK'
    BY Zenon, <1>10, <1>t DEF CloseWait, closing, range, bitcasks, threads, optimizer, history,
       RangeOK, MainOK, WorkersOK, OptimizerOK, HistoryOK
  <2>2. BitcasksOK'
    BY Zenon, <1>10, <1>t, Ranges, Strides DEF CloseWait, closing, BitcasksOK
  <2> QED
    BY <2>1, <2>2 DEF TypeOK
<1>11. ASSUME NEW h \in Helper, Close(h) PROVE TypeOK'
  <2>1. RangeOK' /\ WorkersOK' /\ OptimizerOK' /\ HistoryOK'
    BY Zenon, <1>11, <1>t DEF Close, closing, range, bitcasks, threads, optimizer, history, RangeOK,
       WorkersOK, OptimizerOK, HistoryOK
  <2>2. BitcasksOK'
    BY Zenon, <1>11, <1>t, Ranges, Strides DEF Close, closing, BitcasksOK
  <2>3. MainOK'
    BY SMTT(30), <1>11, <1>t, Ranges, Strides DEF Close, closing, MainOK
  <2> QED
    BY <2>1, <2>2, <2>3 DEF TypeOK
<1>12. ASSUME NEW w \in Worker, Optimize(w) PROVE TypeOK'
  <2>1. RangeOK' /\ BitcasksOK' /\ MainOK' /\ OptimizerOK' /\ HistoryOK'
    BY Zenon, <1>12, <1>t DEF Optimize, range, bitcasks, threads, optimizer, history, RangeOK,
       BitcasksOK, MainOK, OptimizerOK, HistoryOK
  <2>2. WorkersOK'
    BY Zenon, <1>12, <1>t, Ranges, Strides DEF Optimize, WorkersOK
  <2> QED
    BY Zenon, <2>1, <2>2 DEF TypeOK
<1>13. ASSUME NEW w \in Worker, Publish(w) PROVE TypeOK'
  <2>1. BitcasksOK' /\ MainOK'
    BY Zenon, <1>13, <1>t DEF Publish, range, bitcasks, threads, optimizer, history, BitcasksOK, MainOK
  <2>2. RangeOK'
    BY <1>13, <1>t, Ranges DEF Publish, RangeOK, WorkersOK
  <2>3. WorkersOK'
    BY Zenon, <1>13, <1>t, Ranges, Strides DEF Publish, WorkersOK
  <2>4. OptimizerOK'
    BY Zenon, <1>13, <1>t DEF Publish, Label, OptimizerOK
  <2>5. HistoryOK'
    BY Zenon, <1>13, <1>t DEF Publish, HistoryOK, WorkersOK
  <2> QED
    BY Zenon, <2>1, <2>2, <2>3, <2>4, <2>5
       DEF TypeOK, RangeOK, BitcasksOK, MainOK, WorkersOK, OptimizerOK, HistoryOK, Label
<1>14. ASSUME NEW w \in Worker, Stop(w) PROVE TypeOK'
  <2>1. RangeOK' /\ BitcasksOK' /\ MainOK' /\ OptimizerOK' /\ HistoryOK'
    BY Zenon, <1>14, <1>t DEF Stop, range, bitcasks, threads, optimizer, history, RangeOK, BitcasksOK,
       MainOK, OptimizerOK, HistoryOK
  <2>2. WorkersOK'
    BY Zenon, <1>14, <1>t, Ranges, Strides DEF Stop, WorkersOK
  <2> QED
    BY <2>1, <2>2 DEF TypeOK
<1>15. ASSUME NEW o \in Optimizer, Start(o) PROVE TypeOK'
  <2>1. BitcasksOK' /\ MainOK' /\ WorkersOK' /\ HistoryOK'
    BY Zenon, <1>15, <1>t DEF Start, range, bitcasks, threads, optimizer, history, BitcasksOK, MainOK,
       WorkersOK, HistoryOK
  <2>2. RangeOK'
    BY Zenon, <1>15, <1>t, Ranges, Strides DEF Start, RangeOK
  <2>3. OptimizerOK'
    BY Zenon, <1>15, <1>t DEF Start, Label, OptimizerOK
  <2> QED
    BY Zenon, <2>1, <2>2, <2>3 DEF TypeOK
<1>16. ASSUME NEW o \in Optimizer, Test(o) PROVE TypeOK'
  <2>1. RangeOK' /\ BitcasksOK' /\ MainOK' /\ WorkersOK' /\ HistoryOK'
    BY Zenon, <1>16, <1>t DEF Test, range, bitcasks, threads, optimizer, history, RangeOK, BitcasksOK,
       MainOK, WorkersOK, HistoryOK
  <2>2. OptimizerOK'
    BY <1>16, <1>t, Ranges DEF Test, Label, OptimizerOK, RangeOK, Bitcask
  <2> QED
    BY Zenon, <2>1, <2>2 DEF TypeOK
<1>17. ASSUME NEW o \in Optimizer, Begin(o) PROVE TypeOK'
  <2>1. RangeOK' /\ MainOK' /\ WorkersOK'
    BY Zenon, <1>17, <1>t DEF Begin, range, bitcasks, threads, optimizer, history, RangeOK, MainOK,
       WorkersOK
  <2>2. BitcasksOK'
    BY <1>17, <1>t DEF Begin, BitcasksOK, OptimizerOK
  <2>3. OptimizerOK'
    BY Zenon, <1>17, <1>t DEF Begin, Label, OptimizerOK
  <2>4. HistoryOK'
    BY Zenon, <1>17, <1>t DEF Begin, inside, HistoryOK, OptimizerOK
  <2> QED
    BY Zenon, <2>1, <2>2, <2>3, <2>4 DEF TypeOK
<1>18. ASSUME NEW o \in Optimizer, End(o) PROVE TypeOK'
  <2>1. RangeOK' /\ MainOK' /\ WorkersOK'
    BY Zenon, <1>18, <1>t DEF End, range, bitcasks, threads, optimizer, history, RangeOK, MainOK,
       WorkersOK
  <2>2. BitcasksOK'
    BY <1>18, <1>t, Ranges, Strides DEF End, BitcasksOK
  <2>3. OptimizerOK'
    BY <1>18, <1>t DEF End, Label, OptimizerOK
  <2>4. HistoryOK'
    BY <1>18, <1>t DEF End, HistoryOK, OptimizerOK
  <2> QED
    BY <2>1, <2>2, <2>3, <2>4 DEF TypeOK
<1>19. ASSUME NEW o \in Optimizer, Store(o) PROVE TypeOK'
  <2>1. BitcasksOK' /\ MainOK' /\ WorkersOK' /\ HistoryOK'
    BY Zenon, <1>19, <1>t DEF Store, range, bitcasks, threads, optimizer, history, BitcasksOK, MainOK,
       WorkersOK, HistoryOK
  <2>2. RangeOK'
    BY Zenon, <1>19, <1>t DEF Store, RangeOK, OptimizerOK
  <2>3. OptimizerOK'
    BY <1>19, <1>t, Ranges DEF Store, Label, OptimizerOK
  <2> QED
    BY <2>1, <2>2, <2>3 DEF TypeOK
<1>20. ASSUME NEW o \in Optimizer, Load(o) PROVE TypeOK'
  <2>1. RangeOK' /\ BitcasksOK' /\ MainOK' /\ WorkersOK' /\ HistoryOK'
    BY Zenon, <1>20, <1>t DEF Load, range, bitcasks, threads, optimizer, history, RangeOK, BitcasksOK,
       MainOK, WorkersOK, HistoryOK
  <2>2. OptimizerOK'
    BY <1>20, <1>t DEF Load, Label, OptimizerOK, RangeOK
  <2> QED
    BY <2>1, <2>2 DEF TypeOK
<1>21. ASSUME NEW o \in Optimizer, Increment(o) PROVE TypeOK'
  <2>1. BitcasksOK' /\ MainOK' /\ WorkersOK' /\ HistoryOK'
    BY Zenon, <1>21, <1>t DEF Increment, range, bitcasks, threads, optimizer, history, BitcasksOK,
       MainOK, WorkersOK, HistoryOK
  <2>2. RangeOK'
    BY Zenon, <1>21, <1>t DEF Increment, RangeOK, OptimizerOK
  <2>3. OptimizerOK'
    BY <1>21, <1>t DEF Increment, Label, OptimizerOK
  <2> QED
    BY <2>1, <2>2, <2>3 DEF TypeOK
<1>22. ASSUME NEW o \in Optimizer, Clear(o) PROVE TypeOK'
  <2>1. BitcasksOK' /\ MainOK' /\ WorkersOK' /\ HistoryOK'
    BY Zenon, <1>22, <1>t DEF Clear, range, bitcasks, threads, optimizer, history, BitcasksOK, MainOK,
       WorkersOK, HistoryOK
  <2>2. RangeOK'
    BY <1>22, <1>t, Ranges, Strides DEF Clear, RangeOK
  <2>3. OptimizerOK'
    BY Zenon, <1>22, <1>t DEF Clear, Label, OptimizerOK
  <2> QED
    BY <2>1, <2>2, <2>3 DEF TypeOK
<1>23. CASE UNCHANGED vars
  BY Zenon, <1>23 DEF vars, range, bitcasks, threads, optimizer, history,
       TypeOK, RangeOK, BitcasksOK, MainOK, WorkersOK, OptimizerOK, HistoryOK
<1> QED
  BY Zenon, <1>1, <1>2, <1>3, <1>4, <1>5, <1>6, <1>7, <1>8, <1>9, <1>10, <1>11, <1>12, <1>13, <1>14,
     <1>15, <1>16, <1>17, <1>18, <1>19, <1>20, <1>21, <1>22, <1>23 DEF Next, bc_close, do_optimize

-----------------------------------------------------------------------------
(***************************************************************************)
(* Every step keeps the order of the stages.                               *)
(***************************************************************************)
\* When all threads of parallelize have completed, every bitcask is scanned.
LEMMA AllScanned ==
  ASSUME TypeOK, Stages, main = "open", completed
  PROVE  \A b \in Bitcask : bc[b] = "open"
<1> SUFFICES ASSUME NEW b \in Bitcask PROVE bc[b] = "open"
  OBVIOUS
<1>1. b % stride \in Helper /\ b \in Nat /\ b < count /\ count \in Nat
  BY Zenon, Strides, Ranges
<1>2. next[b % stride] \in Nat /\ next[b % stride] >= count
  BY Zenon, <1>1 DEF completed, TypeOK, MainOK
<1>3. b < next[b % stride]
  BY <1>1, <1>2
<1> QED
  BY Zenon, <1>1, <1>3 DEF Stages

\* A thread of parallelize scans its next bitcask.
LEMMA ScanStages ==
  ASSUME TypeOK, Stages, NEW h \in Helper, Scan(h)
  PROVE  Stages'
<1> USE DEF TypeOK, MainOK, BitcasksOK
<1>1. /\ main = "open" /\ main' = main /\ next[h] < count
      /\ bc' = [bc EXCEPT ![next[h]] = "open"] /\ next' = [next EXCEPT ![h] = next[h] + stride]
      /\ UNCHANGED <<daemon_quit, flusher, worker, tree>>
  BY Zenon DEF Scan
<1>2. \A g \in Helper : /\ next[g] \in Nat /\ next[g] % stride = g
                        /\ next'[g] = IF g = h THEN next[h] + stride ELSE next[g]
  BY Zenon, <1>1 DEF Stages
<1>3. \A b \in Bitcask : bc'[b] = IF b = next[h] THEN "open" ELSE bc[b]
  BY Zenon, <1>1
<1>4. stride \in Nat \ {0}
  BY Zenon, Strides
<1>5. ASSUME NEW g \in Helper
      PROVE  next'[g] % stride = g
  <2>1. CASE g = h
    BY Zenon, <1>2, <1>4, <2>1, NextMod
  <2>2. CASE g # h
    BY Zenon, <1>2, <2>2
  <2> QED
    BY Zenon, <2>1, <2>2
<1>6. ASSUME NEW g \in Helper, NEW b \in Bitcask, b % stride = g, b < next'[g]
      PROVE  bc'[b] = "open"
  <2>1. b \in Nat
    BY Zenon, Strides
  <2>2. CASE b < next[g]
    BY Zenon, <1>1, <1>3, <1>6, <2>2 DEF Stages
  <2>3. CASE ~(b < next[g])
    <3>1. g = h /\ next[h] <= b /\ b < next[h] + stride
      BY <1>2, <1>6, <2>1, <2>3
    <3>2. next[h] = b
      BY Zenon, <1>2, <1>4, <1>6, <2>1, <3>1, NoneSkipped
    <3> QED
      BY Zenon, <1>3, <3>2
  <2> QED
    BY Zenon, <2>2, <2>3
<1> QED
  BY Zenon, <1>1, <1>5, <1>6 DEF Stages

LEMMA StagesStep == TypeOK /\ Stages /\ [Next]_vars => Stages'
<1> SUFFICES ASSUME TypeOK, Stages, [Next]_vars PROVE Stages'
  OBVIOUS
<1> USE DEF Stages
<1>1. CASE Serve
  <2>1. \A b \in Bitcask : bc'[b] = "open"
    BY Zenon, <1>1, AllScanned DEF Serve, bitcasks
  <2>2. \A w \in Worker : worker'[w] = "loop"
    BY Zenon, <1>1 DEF Serve
  <2> QED
    BY Zenon, <1>1, <2>1, <2>2 DEF Serve
<1>2. CASE Signal
  BY Zenon, <1>2 DEF Signal, bitcasks
<1>3. CASE Flush
  BY Zenon, <1>3 DEF Flush, bitcasks
<1>4. CASE Join
  BY Zenon, <1>4 DEF Join
<1>5. CASE Free
  BY Zenon, <1>5 DEF Free
<1>6. ASSUME NEW h \in Helper, Scan(h) PROVE Stages'
  BY Zenon, <1>6, ScanStages
<1>7. ASSUME NEW h \in Helper, bc_close(h) PROVE Stages'
  BY Zenon, <1>7 DEF bc_close, CloseIdle, CloseTest, CloseMark, CloseWait, Close, closing
<1>8. ASSUME NEW w \in Worker, Optimize(w) PROVE Stages'
  <2>1. PICK r \in Trees : tree' = [tree EXCEPT ![w] = r]
    BY Zenon, <1>8 DEF Optimize
  <2>2. \A v \in Worker : /\ tree'[v] = IF v = w THEN r ELSE tree[v]
                          /\ worker'[v] = IF v = w THEN "publish" ELSE worker[v]
    BY Zenon, <1>8, <2>1 DEF Optimize, TypeOK, WorkersOK
  <2> QED
    BY ZenonT(30), <1>8, <2>2 DEF Optimize, bitcasks
<1>9. ASSUME NEW w \in Worker, Publish(w) PROVE Stages'
  <2>1. \A v \in Worker : /\ tree'[v] = IF v = w THEN <<0, 0>> ELSE tree[v]
                          /\ worker'[v] = IF v = w THEN "loop" ELSE worker[v]
    BY Zenon, <1>9 DEF Publish, TypeOK, WorkersOK
  <2> QED
    BY <1>9, <2>1 DEF Publish, bitcasks
<1>10. ASSUME NEW w \in Worker, Stop(w) PROVE Stages'
  <2>1. \A v \in Worker : worker'[v] = IF v = w THEN "stopped" ELSE worker[v]
    BY Zenon, <1>10 DEF Stop, TypeOK, WorkersOK
  <2> QED
    BY <1>10, <2>1 DEF Stop, bitcasks
<1>11. ASSUME NEW o \in Optimizer, do_optimize(o) PROVE Stages'
  <2>1. UNCHANGED <<bc, threads>>
    BY Zenon, <1>11 DEF do_optimize, Start, Test, Begin, End, Store, Load, Increment, Clear, bitcasks
  <2> QED
    BY Zenon, <2>1 DEF threads
<1>12. CASE UNCHANGED vars
  BY Zenon, <1>12 DEF vars, bitcasks, threads
<1> QED
  BY Zenon, <1>1, <1>2, <1>3, <1>4, <1>5, <1>6, <1>7, <1>8, <1>9, <1>10, <1>11, <1>12 DEF Next

-----------------------------------------------------------------------------
(***************************************************************************)
(* Every step keeps a compaction alone that bc_close does not miss.        *)
(***************************************************************************)
LEMMA AloneStep == TypeOK /\ Alone /\ [Next]_vars => Alone'
<1> SUFFICES ASSUME TypeOK, Alone, [Next]_vars PROVE Alone'
  OBVIOUS
<1>t. /\ \A o \in Optimizer : at[o] \in Bitcask
      /\ pc \in [Optimizer -> Label] /\ at \in [Optimizer -> Bitcask]
      /\ bc \in [Bitcask -> {"new", "open", "tested", "marked", "closing", "closed"}]
      /\ optimize_flag \in [Bitcask -> 0 .. 2]
  BY Zenon DEF TypeOK, OptimizerOK, BitcasksOK
<1>u. ASSUME UNCHANGED <<bitcasks, pc, at, late>> PROVE Alone'
  BY Zenon, <1>u DEF Alone, bitcasks, inside
<1>1. CASE Serve \/ Signal \/ Flush \/ Join \/ Free
  BY Zenon, <1>1, <1>u DEF Serve, Signal, Flush, Join, Free, optimizer, history
<1>2. ASSUME NEW h \in Helper, Scan(h) PROVE Alone'
  <2>1. \A b \in Bitcask : bc'[b] = IF b = next[h] THEN "open" ELSE bc[b]
    BY Zenon, <1>2, <1>t DEF Scan
  <2> QED
    BY <1>2, <1>t, <2>1 DEF Scan, optimizer, history, Alone, inside
\* bc_close leaves a bitcask whose flag is set as it is, or goes on to wait.
<1>3. ASSUME NEW h \in Helper, bc_close(h) PROVE Alone'
  <2>1. UNCHANGED <<pc, at, late>>
    BY Zenon, <1>3 DEF bc_close, CloseIdle, CloseTest, CloseMark, CloseWait, Close, closing, optimizer
  <2>2. ASSUME NEW b \in Bitcask, bc[b] \in {"open", "tested", "marked"}, optimize_flag[b] > 0
        PROVE  bc'[b] \in {"open", "tested", "marked"} /\ optimize_flag'[b] > 0
    BY <1>3, <1>t, <2>2 DEF bc_close, CloseIdle, CloseTest, CloseMark, CloseWait, Close, closing
  <2> QED
    BY ZenonT(30), <1>t, <2>1, <2>2 DEF Alone, inside
<1>4. ASSUME NEW w \in Worker, Optimize(w) \/ Stop(w) PROVE Alone'
  BY Zenon, <1>4, <1>u DEF Optimize, Stop, optimizer, history
\* A thread that neither enters nor leaves a compaction.
<1>m. ASSUME NEW o \in Optimizer, NEW l \in Label, pc[o] # "compact", l # "compact",
             pc' = [pc EXCEPT ![o] = l], \A p \in Optimizer : p # o => at'[p] = at[p],
             UNCHANGED <<bitcasks, late>>
      PROVE  Alone'
  <2>1. \A p \in Optimizer : pc'[p] = "compact" <=> pc[p] = "compact"
    BY Zenon, <1>m, <1>t
  <2>2. \A p \in Optimizer : pc[p] = "compact" => at'[p] = at[p]
    BY Zenon, <1>m
  <2>3. \A p \in Optimizer : pc[p] = "compact" => inside(at[p])' = inside(at[p])
    BY Zenon, <2>1, <2>2 DEF inside
  <2> QED
    BY Zenon, <1>m, <2>1, <2>2, <2>3 DEF Alone, bitcasks, inside
<1>5. ASSUME NEW w \in Worker, Publish(w) PROVE Alone'
  <2>1. PICK o \in Optimizer : pc[o] = "none" /\ pc' = [pc EXCEPT ![o] = "start"]
    BY Zenon, <1>5 DEF Publish
  <2> QED
    BY Zenon, <1>5, <1>m, <2>1 DEF Publish, Label
<1>6. ASSUME NEW o \in Optimizer, Start(o) PROVE Alone'
  BY Zenon, <1>6, <1>m DEF Start, history, Label
<1>7. ASSUME NEW o \in Optimizer, Test(o) PROVE Alone'
  <2>1. \A p \in Optimizer : p # o => at'[p] = at[p]
    BY Zenon, <1>7, <1>t DEF Test
  <2> QED
    BY Zenon, <1>7, <1>m, <2>1 DEF Test, history, Label
<1>8. ASSUME NEW o \in Optimizer, Begin(o) PROVE Alone'
  <2>1. /\ \A p \in Optimizer : pc'[p] = IF p = o THEN "compact" ELSE pc[p]
        /\ \A b \in Bitcask : optimize_flag'[b] = IF b = at[o] THEN 1 ELSE optimize_flag[b]
        /\ UNCHANGED <<at, bc>> /\ pc[o] = "call"
    BY Zenon, <1>8, <1>t DEF Begin
  <2>2. ASSUME NEW p \in Optimizer \ late', pc'[p] = "compact", p # o
        PROVE  p \notin late /\ pc[p] = "compact" /\ at[p] # at[o]
    BY Zenon, <1>8, <2>1, <2>2 DEF Begin, inside
  <2>3. ASSUME NEW p \in Optimizer \ late', pc'[p] = "compact", p # o
        PROVE  /\ bc'[at[p]] \in {"open", "tested", "marked"} /\ optimize_flag'[at[p]] > 0
               /\ \A q \in inside(at[p])' : q = p
    BY <1>t, <2>1, <2>2, <2>3 DEF Alone, inside
  <2>4. ASSUME o \notin late'
        PROVE  /\ bc'[at[o]] \in {"open", "tested", "marked"} /\ optimize_flag'[at[o]] > 0
               /\ \A q \in inside(at[o])' : q = o
    BY <1>8, <1>t, <2>1, <2>4 DEF Begin, inside
  <2> QED
    BY <2>1, <2>3, <2>4 DEF Alone, inside
<1>9. ASSUME NEW o \in Optimizer, End(o) PROVE Alone'
  <2>1. /\ \A p \in Optimizer : pc'[p] = IF p = o THEN "store" ELSE pc[p]
        /\ \A b \in Bitcask : b # at[o] => optimize_flag'[b] = optimize_flag[b]
        /\ UNCHANGED <<at, bc>> /\ pc[o] = "compact" /\ late' = late \ {o}
    BY Zenon, <1>9, <1>t DEF End
  <2>2. ASSUME NEW p \in Optimizer \ late', pc'[p] = "compact"
        PROVE  p \notin late /\ pc[p] = "compact" /\ p # o
    BY Zenon, <2>1, <2>2
  <2>3. ASSUME NEW p \in Optimizer \ late', pc'[p] = "compact"
        PROVE  at[p] # at[o]
    BY <2>1, <2>2, <2>3 DEF Alone, inside
  <2>4. ASSUME NEW p \in Optimizer \ late', pc'[p] = "compact"
        PROVE  /\ bc'[at[p]] \in {"open", "tested", "marked"} /\ optimize_flag'[at[p]] > 0
               /\ \A q \in inside(at[p])' : q = p
    BY <1>t, <2>1, <2>2, <2>3, <2>4 DEF Alone, inside
  <2> QED
    BY Zenon, <2>1, <2>4 DEF Alone, inside
<1>10. ASSUME NEW o \in Optimizer, Store(o) PROVE Alone'
  <2>1. \A p \in Optimizer : p # o => at'[p] = at[p]
    BY Zenon, <1>10, <1>t DEF Store
  <2> QED
    BY Zenon, <1>10, <1>m, <2>1 DEF Store, history, Label
<1>11. ASSUME NEW o \in Optimizer, Load(o) \/ Increment(o) \/ Clear(o) PROVE Alone'
  BY Zenon, <1>11, <1>m DEF Load, Increment, Clear, history, Label
<1>12. CASE UNCHANGED vars
  BY Zenon, <1>12, <1>u DEF vars, optimizer, history
<1> QED
  BY Zenon, <1>1, <1>2, <1>3, <1>4, <1>5, <1>6, <1>7, <1>8, <1>9, <1>10, <1>11, <1>12
     DEF Next, do_optimize

-----------------------------------------------------------------------------
(***************************************************************************)
(* Every step keeps the progress of the accepted command.                  *)
(***************************************************************************)
\* Nothing of what Progress is about changes.
LEMMA ProgressSame ==
  ASSUME Progress, UNCHANGED <<range, optimize_flag, optimizer, accepted, done, twice,
     daemon_quit>>
  PROVE  Progress'
BY Zenon DEF Progress, Doing, compacted, running, success, range, optimizer

\* A command is published: it is the only one, or twice is set.
LEMMA PublishProgress ==
  ASSUME TypeOK, Stages, NEW w \in Worker, Publish(w)
  PROVE  Progress'
<1>1. PICK o \in Optimizer : pc[o] = "none" /\ pc' = [pc EXCEPT ![o] = "start"]
  BY Zenon DEF Publish
<1>2. \A p \in Optimizer : pc'[p] = IF p = o THEN "start" ELSE pc[p]
  BY Zenon, <1>1 DEF TypeOK, OptimizerOK
<1>3. /\ accepted' = tree[w] /\ op_start' = tree[w][1] /\ op_end' = tree[w][2]
      /\ twice' = (running # {})
  BY Zenon DEF Publish
<1>4. tree[w] \in Trees
  BY Zenon DEF Publish, Stages
<1>5. CASE running # {}
  BY Zenon, <1>3, <1>5 DEF Progress
<1>6. CASE running = {}
  <2>1. running' = {o}
    BY Zenon, <1>2, <1>6 DEF running
  <2>2. Doing(o)'
    BY Zenon, <1>2, <1>3, <1>4 DEF Doing
  <2> QED
    BY Zenon, <2>1, <2>2 DEF Progress
<1> QED
  BY Zenon, <1>5, <1>6

\* The step of the one thread that carries out the accepted command.
LEMMA DoingStep ==
  ASSUME TypeOK, NEW o \in Optimizer, do_optimize(o), Doing(o)
  PROVE  /\ pc'[o] # "gone" => Doing(o)'
         /\ pc'[o] = "gone" /\ success' => compacted(accepted[2])'
<1>t. /\ op_start \in Nat /\ op_end \in Int /\ op_laststat \in {-1, 0}
      /\ pc \in [Optimizer -> Label] /\ at \in [Optimizer -> Bitcask] /\ ret \in [Optimizer -> Int]
      /\ optimize_flag \in [Bitcask -> 0 .. 2] /\ at[o] \in Bitcask
  BY Ranges DEF TypeOK, RangeOK, OptimizerOK, BitcasksOK
<1>r. accepted \in Trees /\ accepted[1] \in Nat /\ accepted[2] \in Nat /\ op_end = accepted[2]
  BY Ranges DEF Doing
<1>1. CASE Start(o)
  <2>1. /\ pc'[o] = "test" /\ op_start = accepted[1]
        /\ UNCHANGED <<op_start, op_end, accepted, done>>
    BY Zenon, <1>1, <1>t DEF Start, Doing, history
  <2>2. compacted(op_start)'
    BY <1>r, <2>1 DEF compacted
  <2> QED
    BY Zenon, <1>r, <2>1, <2>2 DEF Doing
<1>2. CASE Test(o)
  <2>1. pc[o] = "test" /\ UNCHANGED <<op_start, op_end, op_laststat, accepted, done,
     optimize_flag>>
    BY Zenon, <1>2 DEF Test, history, range, bitcasks
  <2>2. CASE op_start < op_end /\ op_laststat = 0
    <3>1. pc'[o] = "call" /\ at'[o] = op_start /\ compacted(op_start)
      BY Zenon, <1>2, <1>t, <2>1, <2>2 DEF Test, Doing
    <3>2. compacted(op_start)'
      BY Zenon, <2>1, <3>1 DEF compacted
    <3> QED
      BY Zenon, <1>r, <2>1, <2>2, <3>1, <3>2 DEF Doing
  <2>3. CASE ~(op_start < op_end /\ op_laststat = 0)
    <3>1. pc'[o] = "end"
      BY Zenon, <1>2, <1>t, <2>3 DEF Test
    <3>2. op_laststat = 0 => compacted(op_end)'
      BY <1>t, <1>r, <2>1, <2>3 DEF Doing, compacted
    <3> QED
      BY Zenon, <1>r, <2>1, <3>1, <3>2 DEF Doing
  <2> QED
    BY Zenon, <2>2, <2>3
<1>3. CASE Begin(o)
  <2>1. /\ pc[o] = "call" /\ pc'[o] = "compact" /\ optimize_flag'[at[o]] = 1
        /\ UNCHANGED <<op_start, op_end, op_laststat, accepted, done, at>>
    BY Zenon, <1>3, <1>t DEF Begin, range
  <2>2. compacted(op_start)' /\ op_start < op_end /\ at[o] = op_start
    BY Zenon, <2>1 DEF Doing, compacted
  <2> QED
    BY Zenon, <1>r, <2>1, <2>2 DEF Doing
<1>4. CASE End(o)
  <2>1. /\ pc[o] = "compact" /\ pc'[o] = "store"
        /\ UNCHANGED <<op_start, op_end, op_laststat, accepted, at>>
    BY Zenon, <1>4, <1>t DEF End, range
  <2>2. at[o] = op_start /\ optimize_flag[at[o]] = 1 /\ compacted(op_start) /\ op_start < op_end
    BY Zenon, <2>1 DEF Doing
  <2>3. ret'[o] = 0 => done' = done \cup {op_start}
    BY <1>4, <1>t, <2>2 DEF End
  <2>4. ret'[o] = 0 => compacted(op_start + 1)'
    BY <1>t, <1>r, <2>1, <2>2, <2>3 DEF compacted
  <2> QED
    BY Zenon, <1>r, <2>1, <2>2, <2>4 DEF Doing
<1>5. CASE Store(o)
  <2>1. /\ pc[o] = "store" /\ pc'[o] = "load" /\ op_laststat' = ret[o]
        /\ UNCHANGED <<op_start, op_end, accepted, done>>
    BY Zenon, <1>5, <1>t DEF Store, history
  <2>2. op_start < op_end /\ (ret[o] = 0 => compacted(op_start + 1)')
    BY Zenon, <2>1 DEF Doing, compacted
  <2> QED
    BY Zenon, <1>r, <2>1, <2>2 DEF Doing
<1>6. CASE Load(o)
  <2>1. /\ pc[o] = "load" /\ pc'[o] = "increment" /\ ret'[o] = op_start + 1
        /\ UNCHANGED <<op_start, op_end, op_laststat, accepted, done>>
    BY Zenon, <1>6, <1>t DEF Load, history, range
  <2>2. op_start < op_end /\ (op_laststat = 0 => compacted(op_start + 1)')
    BY Zenon, <2>1 DEF Doing, compacted
  <2> QED
    BY Zenon, <1>r, <2>1, <2>2 DEF Doing
<1>7. CASE Increment(o)
  <2>1. /\ pc[o] = "increment" /\ pc'[o] = "test" /\ op_start' = ret[o]
        /\ UNCHANGED <<op_end, op_laststat, accepted, done>>
    BY Zenon, <1>7, <1>t DEF Increment, history
  <2>2. ret[o] = op_start + 1 /\ (op_laststat = 0 => compacted(op_start + 1))
    BY Zenon, <2>1 DEF Doing
  <2>3. op_laststat' = 0 => compacted(op_start)'
    BY Zenon, <2>1, <2>2 DEF compacted
  <2> QED
    BY Zenon, <1>r, <2>1, <2>3 DEF Doing
<1>8. CASE Clear(o)
  <2>1. /\ pc[o] = "end" /\ pc'[o] = "gone" /\ UNCHANGED <<op_laststat, accepted, done>>
    BY Zenon, <1>8, <1>t DEF Clear, history
  <2>2. op_laststat = 0 => compacted(accepted[2])
    BY Zenon, <1>r, <2>1 DEF Doing
  <2> QED
    BY Zenon, <2>1, <2>2 DEF success, compacted
<1> QED
  BY Zenon, <1>1, <1>2, <1>3, <1>4, <1>5, <1>6, <1>7, <1>8 DEF do_optimize

LEMMA ProgressStep == TypeOK /\ Stages /\ Progress /\ [Next]_vars => Progress'
<1> SUFFICES ASSUME TypeOK, Stages, Progress, [Next]_vars PROVE Progress'
  OBVIOUS
<1>1. CASE Serve \/ Flush
  BY Zenon, <1>1, ProgressSame DEF Serve, Flush, bitcasks, history
<1>2. CASE Signal
  BY Zenon, <1>2 DEF Signal, Progress
\* The store is closed only after the signal.
<1>3. CASE Join \/ Free
  <2>1. daemon_quit'
    BY Zenon, <1>3 DEF Join, Free, Stages
  <2> QED
    BY Zenon, <2>1 DEF Progress
<1>4. ASSUME NEW h \in Helper, bc_close(h) PROVE Progress'
  <2>1. daemon_quit'
    BY Zenon, <1>4 DEF bc_close, CloseIdle, CloseTest, CloseMark, CloseWait, Close, closing, Stages
  <2> QED
    BY Zenon, <2>1 DEF Progress
<1>5. ASSUME NEW h \in Helper, Scan(h) PROVE Progress'
  BY Zenon, <1>5, ProgressSame DEF Scan, history
<1>6. ASSUME NEW w \in Worker, Optimize(w) \/ Stop(w) PROVE Progress'
  BY Zenon, <1>6, ProgressSame DEF Optimize, Stop, bitcasks, history
<1>7. ASSUME NEW w \in Worker, Publish(w) PROVE Progress'
  BY Zenon, <1>7, PublishProgress
<1>8. ASSUME NEW o \in Optimizer, do_optimize(o) PROVE Progress'
  <2>1. /\ UNCHANGED <<twice, daemon_quit>> /\ pc[o] \notin {"none", "gone"}
        /\ \E l \in Label \ {"none"} : pc' = [pc EXCEPT ![o] = l]
    BY Zenon, <1>8 DEF do_optimize, Start, Test, Begin, End, Store, Load, Increment, Clear, history,
       threads, Label
  <2>2. PICK l \in Label \ {"none"} : pc' = [pc EXCEPT ![o] = l]
    BY Zenon, <2>1
  <2>3. \A p \in Optimizer : pc'[p] = IF p = o THEN l ELSE pc[p]
    BY Zenon, <2>2 DEF TypeOK, OptimizerOK
  <2> SUFFICES ASSUME ~twice, ~daemon_quit
               PROVE  /\ running' = {} /\ success' => compacted(accepted[2])'
                      /\ \A p \in running' : running' = {p} /\ Doing(p)'
    BY Zenon, <2>1 DEF Progress
  <2>4. running = {o} /\ Doing(o)
    BY Zenon, <2>1 DEF Progress, running
  <2>5. (l = "gone" => running' = {}) /\ (l # "gone" => running' = {o})
    BY Zenon, <2>3, <2>4 DEF running
  <2> QED
    BY Zenon, <1>8, <2>3, <2>4, <2>5, DoingStep
<1>9. CASE UNCHANGED vars
  BY Zenon, <1>9, ProgressSame DEF vars, bitcasks, threads, history
<1> QED
  BY Zenon, <1>1, <1>2, <1>3, <1>4, <1>5, <1>6, <1>7, <1>8, <1>9 DEF Next

-----------------------------------------------------------------------------
\* The inductive invariant holds of the life of a store, for any number of bitcasks,
\* scanning threads, workers and do_optimize threads, and any ranges of tree2range.
THEOREM Invariant == Spec => []IInv
<1>1. IInv /\ [Next]_vars => IInv'
  BY Zenon, TypeStep, StagesStep, AloneStep, ProgressStep DEF IInv
<1> QED
  BY <1>1, InitInv, PTL DEF Spec

\* Neither the flush thread nor a compaction that bc_close does not miss is in a
\* bitcask that is not yet scanned, or whose closing has passed the wait.
THEOREM UsedWhenOpen == Spec => []InUse
<1>1. IInv => InUse
  <2> SUFFICES ASSUME IInv PROVE InUse
    OBVIOUS
  <2>1. flusher = "flush" => bc[flush_at] = "open"
    BY Zenon DEF IInv, TypeOK, MainOK, Stages
  <2> QED
    BY Zenon, <2>1 DEF IInv, Alone, InUse
<1> QED
  BY <1>1, Invariant, PTL

\* hs_optimize_stat reports success of the last flush_all only when every bitcask of
\* its range has been compacted since it was accepted, if no other do_optimize was
\* running when it was published.
THEOREM SuccessIsDone == Spec => []AcceptedIsDone
<1>1. IInv => AcceptedIsDone
  <2> SUFFICES ASSUME IInv, success, ~daemon_quit, ~twice PROVE compacted(accepted[2])
    BY Zenon DEF AcceptedIsDone, compacted
  <2>t. /\ op_start \in Nat /\ op_end \in Int /\ op_start >= op_end /\ op_laststat = 0
    BY Ranges DEF IInv, TypeOK, RangeOK, success
  <2>1. CASE running = {}
    BY Zenon, <2>1 DEF IInv, Progress
  <2>2. CASE running # {}
    <3>1. PICK o \in running : Doing(o) /\ o \in Optimizer
      BY Zenon, <2>2 DEF IInv, Progress, running
    <3>2. accepted \in Trees /\ op_end = accepted[2] /\ accepted[1] < accepted[2]
      BY Zenon, <3>1, Ranges DEF Doing
    <3>3. pc[o] \in {"test", "end"}
      BY <2>t, <3>1, <3>2 DEF Doing, IInv, TypeOK, OptimizerOK, Label, running
    <3>4. compacted(op_start) \/ compacted(op_end)
      BY Zenon, <2>t, <3>1, <3>3 DEF Doing
    <3> QED
      BY <2>t, <3>2, <3>4, Ranges DEF compacted
  <2> QED
    BY Zenon, <2>1, <2>2
<1> QED
  BY <1>1, Invariant, PTL
=============================================================================
