------------------------- MODULE FileOperationsProofs -------------------------
(***************************************************************************)
(* Proofs about FileOperations, for every set of callers and every bound.  *)
(*                                                                         *)
(*   TypeOK     the types                                                  *)
(*   OrderInv   the queue is increasing, holds every waiting operation,    *)
(*              and nothing waiting is older than what has started         *)
(*   JobInv     what the worker carries out, and where it is in the queue  *)
(*   SkipInv    skipped operations against cancels: a cancel that is in    *)
(*              progress, or has cleared the running operation away, has   *)
(*              not been used up yet                                       *)
(*   LateInv    m_Paused against the worker's position                     *)
(*   CleanInv   batches nobody cancels and nobody overlaps                 *)
(***************************************************************************)
EXTENDS FileOperations, FiniteSetTheorems, TLAPS

Active     == worker \in {"run", "erase?", "erase"}
Dropped    == Active /\ job \notin Queued
Cancelling == caller[Scene].at \in {"cancel?", "cancel", "clear"}
Started    == {o \in Op : fate[o] \in {"running", "processed"}}

OrderInv ==
    /\ \A i \in 1 .. Len(m_Queue) : m_Queue[i] <= pushed
    /\ \A i, j \in 1 .. Len(m_Queue) : i < j => m_Queue[i] < m_Queue[j]
    /\ \A o \in Op : fate[o] = "none" <=> pushed < o
    /\ \A o \in Op : fate[o] = "queued" => o \in Queued
    /\ \A o, p \in Op : o < p /\ fate[p] \in {"running", "processed"} => fate[o] # "queued"

JobInv ==
    /\ \A o \in Op : fate[o] = "running" => worker = "run" /\ o = job
    /\ worker = "run" => job \in Op /\ fate[job] = "running"
    /\ worker \in {"erase?", "erase"} => job \in Op /\ fate[job] = "processed"
    /\ \A i \in 1 .. Len(m_Queue) :
          \/ fate[m_Queue[i]] = "queued"
          \/ Active /\ i = 1 /\ m_Queue[i] = job

SkipInv ==
    /\ Cardinality(Skipped) + (IF Dropped THEN 1 ELSE 0) + (IF Cancelling THEN 1 ELSE 0)
          <= cancels
    /\ \A o \in Op : fate[o] \in {"cleared", "skipped"} => cancels > 0

LateInv ==
    /\ late <= 1
    /\ ~m_Paused => late = 0
    /\ worker = "take" => late = 0

Clean == cancels = 0 /\ ~overlap

CleanInv ==
    /\ \A c \in Caller : Summing(c) /\ ~m_Paused => overlap
    /\ Clean =>
          /\ crashed => StaleGetter
          /\ worker \in {"take", "run", "erase?", "erase"} => ~m_Paused
          /\ worker \in {"nonempty", "take", "run", "erase?", "erase"} => m_Queue # << >>
          /\ worker = "run" => m_currentItem = "front"
          /\ m_Paused \/ worker = "pause" => m_currentItem = "null"
          /\ worker \in {"empty", "finish"} /\ m_Queue # << >> => m_currentItem = "null"
          /\ \A c \in Caller : caller[c].at = "use" => m_Queue # << >> /\ m_currentItem = "front"
          /\ \A c \in Caller : caller[c].at = "read" => caller[c].x < Len(m_Queue)

-----------------------------------------------------------------------------
(* Types.                                                                  *)

LEMMA GrowGrows == ASSUME NEW c \in Nat PROVE Grow(c) \in Nat /\ Grow(c) > c
  BY DEF Grow

CallerAt    == [at : {"idle", "sum", "read", "use", "stale", "cancel?", "cancel",
                      "clear"}, x : Nat]
CallerState == [Caller -> CallerAt]

LEMMA GoneType == ASSUME TypeOK, FirstSlotGoes PROVE caller' \in CallerState
<1>1. \A c \in Caller : GoneFor(c) \in CallerAt
  <2> SUFFICES ASSUME NEW c \in Caller PROVE GoneFor(c) \in CallerAt
    OBVIOUS
  <2>1. caller[c] \in CallerAt
    BY DEF TypeOK, CallerAt
  <2> QED BY <2>1 DEF GoneFor, CallerAt
<1> QED BY <1>1 DEF FirstSlotGoes, CallerState

\* Only getters notice that the first operation goes.
LEMMA GoneSame ==
    ASSUME TypeOK, \/ FirstSlotGoes
                   \/ caller' = caller
    PROVE  /\ \A c \in Caller : /\ caller'[c].x = caller[c].x
                                /\ \/ caller'[c].at = caller[c].at
                                   \/ caller[c].at = "use" /\ caller'[c].at = "stale"
           /\ FirstSlotGoes => \A c \in Caller : caller'[c].at # "use"
<1>1. ASSUME NEW c \in Caller
      PROVE  /\ GoneFor(c).x = caller[c].x
             /\ GoneFor(c).at # "use"
             /\ \/ GoneFor(c).at = caller[c].at
                \/ caller[c].at = "use" /\ GoneFor(c).at = "stale"
  <2>1. caller[c] \in CallerAt
    BY DEF TypeOK, CallerAt
  <2>2. CASE caller[c].at = "use"
    <3>1. GoneFor(c) = [caller[c] EXCEPT !.at = "stale"]
      BY <2>2 DEF GoneFor
    <3> QED BY <2>1, <2>2, <3>1 DEF CallerAt
  <2>3. CASE caller[c].at # "use"
    BY <2>3 DEF GoneFor
  <2> QED BY <2>2, <2>3
<1>2. ASSUME FirstSlotGoes, NEW c \in Caller PROVE caller'[c] = GoneFor(c)
  BY <1>2 DEF FirstSlotGoes
<1> HIDE DEF GoneFor
<1>3. CASE FirstSlotGoes
  BY <1>1, <1>2, <1>3
<1>4. CASE ~FirstSlotGoes
  BY <1>4
<1> QED BY <1>3, <1>4

LEMMA TypeStep == ASSUME TypeOK, [Next]_vars PROVE TypeOK'
<1> USE FileOperationsAssumption DEF TypeOK, CallerState, CallerAt, Op, Fate, At, WorkerAt,
        WorkerGoes, Idle, historyVars, Overlapping, OverlappingDoWork, Crash
<1>1. ASSUME NEW c \in Caller, QueueFileOperation(c) PROVE TypeOK'
  <2>1. Append(m_Queue, pushed') \in Seq(Op) /\ Len(Append(m_Queue, pushed')) = Len(m_Queue) + 1
    BY <1>1 DEF QueueFileOperation
  <2>2. cap' \in Nat /\ Len(m_Queue) + 1 <= cap'
    <3>1. Len(m_Queue) \in Nat /\ cap \in Nat /\ Len(m_Queue) <= cap
      OBVIOUS
    <3>2. Grow(cap) \in Nat /\ Grow(cap) > cap
      BY <3>1, GrowGrows
    <3>3. cap' = IF Moves THEN Grow(cap) ELSE cap
      BY <1>1 DEF QueueFileOperation
    <3> HIDE DEF TypeOK
    <3> QED BY <3>1, <3>2, <3>3 DEF Moves
  <2>3. caller' \in CallerState
    BY <1>1, GoneType DEF QueueFileOperation
  <2> QED BY <1>1, <2>1, <2>2, <2>3 DEF QueueFileOperation
<1>2. ASSUME NEW c \in Caller, DoWork(c) PROVE TypeOK'
  BY <1>2 DEF DoWork
<1>3. ASSUME NEW c \in Caller, SumTest(c) PROVE TypeOK'
  <2>1. CASE caller[c].x < Len(m_Queue)
    BY <1>3, <2>1 DEF SumTest
  <2>2. CASE ~(caller[c].x < Len(m_Queue))
    <3>1. overlap' \in BOOLEAN
      <4>1. \/ overlap' = TRUE
            \/ overlap' = FALSE
        BY <1>3, <2>2, Zenon DEF SumTest
      <4> QED BY <4>1
    <3>2. caller' \in CallerState
      <4>1. caller' = [caller EXCEPT ![c] = Idle]
        BY <1>3, <2>2, Zenon DEF SumTest
      <4>2. Idle \in CallerAt /\ caller \in [Caller -> CallerAt]
        OBVIOUS
      <4> HIDE DEF CallerAt, Idle
      <4> QED BY <4>1, <4>2
    <3>3. /\ m_Paused' = FALSE /\ late' = 0
          /\ UNCHANGED <<m_Queue, cap, m_currentItem, worker, crashed, pushed, cancels,
                         job, fate>>
      BY <1>3, <2>2 DEF SumTest
    <3> QED BY <3>1, <3>2, <3>3
  <2> QED BY <2>1, <2>2
<1>4. ASSUME NEW c \in Caller, SumRead(c) PROVE TypeOK'
  <2>1. CASE caller[c].x < Len(m_Queue)
    <3>1. caller[c].x + 1 \in Nat
      OBVIOUS
    <3>2. caller' \in CallerState
      <4>1. caller' = [caller EXCEPT ![c] = [at |-> "sum", x |-> caller[c].x + 1]]
        BY <1>4, <2>1 DEF SumRead
      <4>2. [at |-> "sum", x |-> caller[c].x + 1] \in CallerAt
        BY <3>1
      <4>3. caller \in [Caller -> CallerAt]
        OBVIOUS
      <4> HIDE DEF CallerAt
      <4> QED BY <4>1, <4>2, <4>3
    <3> QED BY <1>4, <2>1, <3>2 DEF SumRead
  <2>2. CASE ~(caller[c].x < Len(m_Queue))
    BY <1>4, <2>2 DEF SumRead
  <2> QED BY <2>1, <2>2
<1>5. CASE EmptyQueue
  <2>1. cancels' \in 0 .. MaxCancels
    BY <1>5 DEF EmptyQueue
  <2>2. caller' \in CallerState
    BY <1>5 DEF EmptyQueue
  <2> QED BY <1>5, <2>1, <2>2 DEF EmptyQueue
<1>6. CASE EmptyQueueTestsSize
  BY <1>6 DEF EmptyQueueTestsSize
<1>7. CASE CancelCurrent
  BY <1>7 DEF CancelCurrent
<1>8. CASE ClearQueue
  <2>1. caller' \in CallerState
    <3>1. \A c \in Caller : caller[c] \in CallerAt
      OBVIOUS
    <3>2. \A c \in Caller : GoneFor(c) \in CallerAt
      BY <3>1 DEF GoneFor
    <3>3. Idle \in CallerAt
      OBVIOUS
    <3> QED BY <1>8, <3>2, <3>3 DEF ClearQueue
  <2>2. fate' \in [Op -> Fate]
    BY <1>8 DEF ClearQueue
  <2> QED BY <1>8, <2>1, <2>2 DEF ClearQueue
<1>9. CASE TestSize
  BY <1>9 DEF TestSize
<1>10. CASE TestPaused
  BY <1>10 DEF TestPaused
<1>11. CASE TakeFront
  <2>1. m_Queue # << >> => Head(m_Queue) \in Op
    OBVIOUS
  <2>2. CASE m_Queue # << >>
    <3>1. job' \in Op /\ fate' = [fate EXCEPT ![job'] = "running"]
      BY <1>11, <2>1, <2>2 DEF TakeFront
    <3>2. fate' \in [Op -> Fate]
      BY <3>1
    <3>3. job' \in 0 .. MaxOps /\ late' \in Nat
      BY <1>11, <2>2, <3>1 DEF TakeFront
    <3>4. /\ worker' = "run" /\ m_currentItem' = "front"
          /\ UNCHANGED <<m_Queue, cap, m_Paused, caller, crashed, pushed, cancels,
                         overlap>>
      BY <1>11, <2>2 DEF TakeFront
    <3> QED BY <3>2, <3>3, <3>4
  <2>3. CASE m_Queue = << >>
    BY <1>11, <2>3 DEF TakeFront
  <2> QED BY <2>2, <2>3
<1>12. CASE ProcessItem \/ ProcessFreedItem \/ TestSizeAgain
  BY <1>12 DEF ProcessItem, ProcessFreedItem, TestSizeAgain
<1>13. CASE EraseFront
  <2>1. m_Queue # << >> => /\ Tail(m_Queue) \in Seq(Op)
                           /\ Len(Tail(m_Queue)) = Len(m_Queue) - 1
    OBVIOUS
  <2>2. CASE m_Queue # << >>
    <3>1. fate' \in [Op -> Fate]
      BY <1>13, <2>2 DEF EraseFront
    <3>2. /\ worker' = "size" /\ m_Queue' = Tail(m_Queue)
          /\ UNCHANGED <<cap, m_Paused, m_currentItem, crashed, pushed, cancels, job,
                         late, overlap>>
      BY <1>13, <2>2 DEF EraseFront
    <3>3. m_Queue' \in Seq(Op) /\ Len(m_Queue') <= cap
      BY <2>1, <2>2, <3>2
    <3>4. caller' \in CallerState
      BY <1>13, <2>2, GoneType DEF EraseFront
    <3> QED BY <3>1, <3>2, <3>3, <3>4
  <2>3. CASE m_Queue = << >>
    BY <1>13, <2>3 DEF EraseFront
  <2> QED BY <2>2, <2>3
<1>14. CASE TestFinished \/ ForgetCurrent \/ PauseWorker
  BY <1>14 DEF TestFinished, ForgetCurrent, PauseWorker
<1>15. ASSUME NEW c \in Caller, GetterTests(c) \/ GetterReads(c) PROVE TypeOK'
  <2>1. CASE GetterTests(c)
    BY <2>1 DEF GetterTests
  <2>2. CASE GetterReads(c)
    <3>1. CASE caller' = [caller EXCEPT ![c] = Idle]
               /\ UNCHANGED <<m_Queue, cap, m_Paused, m_currentItem, worker, crashed,
                              historyVars>>
      BY <3>1
    <3>2. CASE Crash
      BY <3>2
    <3> QED BY <2>2, <3>1, <3>2 DEF GetterReads
  <2> QED BY <1>15, <2>1, <2>2
<1>16. CASE UNCHANGED vars
  BY <1>16 DEF vars
<1> QED
  BY <1>1, <1>2, <1>3, <1>4, <1>5, <1>6, <1>7, <1>8, <1>9, <1>10, <1>11, <1>12, <1>13,
     <1>14, <1>15, <1>16 DEF Next, Call, Cancel, Process

\* Every variable of the file operation queue keeps its type, and the vector never
\* holds more than its capacity.
THEOREM TypeCorrect == Spec => []TypeOK
<1>1. Init => TypeOK
  <2> SUFFICES ASSUME Init PROVE TypeOK
    OBVIOUS
  <2>1. m_Queue \in Seq(Op) /\ Len(m_Queue) = 0
    BY DEF Init
  <2>2. caller \in CallerState
    BY DEF Init, Idle, CallerState, CallerAt
  <2>3. fate \in [Op -> Fate]
    BY DEF Init, Fate
  <2>4. /\ cap \in Nat /\ Len(m_Queue) <= cap /\ pushed \in 0 .. MaxOps
        /\ cancels \in 0 .. MaxCancels /\ job \in 0 .. MaxOps /\ late \in Nat
    BY <2>1, FileOperationsAssumption DEF Init
  <2> QED BY <2>1, <2>2, <2>3, <2>4 DEF Init, TypeOK, CallerState, CallerAt
<1>2. TypeOK /\ [Next]_vars => TypeOK'
  BY TypeStep
<1> QED BY <1>1, <1>2, PTL DEF Spec

-----------------------------------------------------------------------------
(* A cancel.  Before it takes an operation the worker sees m_Paused clear, and *)
(* nothing has been started late by then; the store that clears m_Paused again *)
(* starts a new count.                                                         *)

LEMMA LateStep == ASSUME TypeOK, LateInv, [Next]_vars PROVE LateInv'
<1> USE DEF TypeOK, LateInv, At, WorkerAt, WorkerGoes, historyVars, Crash
<1>1. ASSUME NEW c \in Caller, Call(c) PROVE LateInv'
  <2>1. CASE QueueFileOperation(c) \/ DoWork(c)
    BY <2>1 DEF QueueFileOperation, DoWork
  <2>2. CASE SumTest(c)
    BY <2>2 DEF SumTest
  <2>3. CASE SumRead(c)
    BY <2>3 DEF SumRead
  <2>4. CASE GetterTests(c) \/ GetterReads(c)
    BY <2>4 DEF GetterTests, GetterReads
  <2> QED BY <1>1, <2>1, <2>2, <2>3, <2>4 DEF Call
<1>2. CASE Cancel
  BY <1>2 DEF Cancel, EmptyQueue, EmptyQueueTestsSize, CancelCurrent, ClearQueue
<1>3. CASE Process
  <2>1. CASE TestPaused
    BY <2>1 DEF TestPaused
  <2>2. CASE TakeFront
    BY <2>2 DEF TakeFront
  <2>3. CASE EraseFront
    BY <2>3 DEF EraseFront
  <2>4. CASE TestSize \/ ProcessItem \/ ProcessFreedItem \/ TestSizeAgain
    BY <2>4 DEF TestSize, ProcessItem, ProcessFreedItem, TestSizeAgain
  <2>5. CASE TestFinished \/ ForgetCurrent \/ PauseWorker
    BY <2>5 DEF TestFinished, ForgetCurrent, PauseWorker
  <2> QED BY <1>3, <2>1, <2>2, <2>3, <2>4, <2>5 DEF Process
<1>4. CASE UNCHANGED vars
  BY <1>4 DEF vars
<1> QED BY <1>1, <1>2, <1>3, <1>4 DEF Next

\* After EmptyQueue the worker starts at most one more operation before somebody
\* calls DoWork again.
THEOREM CancelBound == Spec => []CancelAdmitsOne
<1>1. Init => LateInv
  BY DEF Init, LateInv
<1>2. TypeOK /\ LateInv /\ [Next]_vars => LateInv'
  BY LateStep
<1>3. LateInv => CancelAdmitsOne
  BY DEF LateInv, CancelAdmitsOne
<1> QED BY <1>1, <1>2, <1>3, TypeCorrect, PTL DEF Spec

-----------------------------------------------------------------------------
(* Order.                                                                  *)

LEMMA InQueue ==
    ASSUME m_Queue \in Seq(Op), NEW o
    PROVE  o \in Queued <=> \E i \in 1 .. Len(m_Queue) : m_Queue[i] = o
  BY DEF Queued

\* What leaves the front of an increasing queue leaves the others where they are.
LEMMA TailOfQueue ==
    ASSUME m_Queue \in Seq(Op), m_Queue # << >>, m_Queue' = Tail(m_Queue)
    PROVE  /\ m_Queue' \in Seq(Op)
           /\ Len(m_Queue') = Len(m_Queue) - 1
           /\ Len(m_Queue) >= 1
           /\ Head(m_Queue) = m_Queue[1]
           /\ \A i \in 1 .. Len(m_Queue') : i + 1 \in 1 .. Len(m_Queue)
                                            /\ m_Queue'[i] = m_Queue[i + 1]
           /\ \A o : o \in Queued => o \in Queued' \/ o = Head(m_Queue)
<1>1. /\ m_Queue' \in Seq(Op) /\ Len(m_Queue') = Len(m_Queue) - 1 /\ Len(m_Queue) >= 1
      /\ Head(m_Queue) = m_Queue[1]
  OBVIOUS
<1>2. \A i \in 1 .. Len(m_Queue') : i + 1 \in 1 .. Len(m_Queue)
                                    /\ m_Queue'[i] = m_Queue[i + 1]
  BY <1>1
<1>3. ASSUME NEW o, o \in Queued PROVE o \in Queued' \/ o = Head(m_Queue)
  <2>1. PICK i \in 1 .. Len(m_Queue) : m_Queue[i] = o
    BY <1>3 DEF Queued
  <2>2. CASE i = 1
    BY <2>1, <2>2, <1>1
  <2>3. CASE i # 1
    <3>1. i - 1 \in 1 .. Len(m_Queue') /\ m_Queue'[i - 1] = o
      BY <2>1, <2>3, <1>1, <1>2
    <3>2. i - 1 \in DOMAIN m_Queue'
      BY <3>1, <1>1
    <3> QED BY <3>1, <3>2 DEF Queued
  <2> QED BY <2>2, <2>3
<1> QED BY <1>1, <1>2, <1>3

LEMMA AppendToQueue ==
    ASSUME m_Queue \in Seq(Op), NEW n \in Op, m_Queue' = Append(m_Queue, n)
    PROVE  /\ m_Queue' \in Seq(Op)
           /\ Len(m_Queue') = Len(m_Queue) + 1
           /\ \A i \in 1 .. Len(m_Queue) : m_Queue'[i] = m_Queue[i]
           /\ m_Queue'[Len(m_Queue) + 1] = n
           /\ Queued' = Queued \cup {n}
<1>1. /\ m_Queue' \in Seq(Op) /\ Len(m_Queue') = Len(m_Queue) + 1
      /\ \A i \in 1 .. Len(m_Queue) : m_Queue'[i] = m_Queue[i]
      /\ m_Queue'[Len(m_Queue) + 1] = n
  OBVIOUS
<1>2. DOMAIN m_Queue = 1 .. Len(m_Queue) /\ DOMAIN m_Queue' = 1 .. Len(m_Queue) + 1
  BY <1>1
<1>3. ASSUME NEW o PROVE o \in Queued' <=> o \in Queued \/ o = n
  <2>1. ASSUME o \in Queued' PROVE o \in Queued \/ o = n
    <3>1. PICK i \in 1 .. Len(m_Queue) + 1 : m_Queue'[i] = o
      BY <2>1, <1>2 DEF Queued
    <3> QED BY <3>1, <1>1, <1>2 DEF Queued
  <2>2. ASSUME o \in Queued \/ o = n PROVE o \in Queued'
    <3>1. n \in Queued'
      <4>1. Len(m_Queue) + 1 \in DOMAIN m_Queue'
        BY <1>2
      <4> QED BY <4>1, <1>1 DEF Queued
    <3>2. o \in Queued => o \in Queued'
      <4>1. 1 .. Len(m_Queue) \subseteq 1 .. Len(m_Queue) + 1
        OBVIOUS
      <4> QED BY <4>1, <1>1, <1>2 DEF Queued
    <3> QED BY <2>2, <3>1, <3>2
  <2> QED BY <2>1, <2>2
<1> QED BY <1>1, <1>3

LEMMA OrderStep ==
    ASSUME TypeOK, OrderInv, JobInv, [Next]_vars
    PROVE  OrderInv' /\ JobInv'
<1> USE DEF Op
<1>0. /\ m_Queue \in Seq(Op) /\ pushed \in 0 .. MaxOps /\ MaxOps \in Nat
      /\ fate \in [Op -> Fate] /\ job \in 0 .. MaxOps
      /\ \A i \in 1 .. Len(m_Queue) : m_Queue[i] \in Op
  BY FileOperationsAssumption DEF TypeOK
<1>1. CASE UNCHANGED <<m_Queue, pushed, fate, job, worker>>
  BY <1>1 DEF OrderInv, JobInv, Active, Queued
<1>2. CASE /\ UNCHANGED <<m_Queue, pushed, fate, job>>
           /\ ~Active /\ ~Active'
  BY <1>2 DEF OrderInv, JobInv, Active, Queued
<1>3. CASE TestSizeAgain
  <2>1. UNCHANGED <<m_Queue, pushed, fate, job>>
    BY <1>3 DEF TestSizeAgain, historyVars
  <2>2. worker = "erase?" /\ worker' = IF m_Queue = << >> THEN "size" ELSE "erase"
    BY <1>3 DEF TestSizeAgain, WorkerGoes, WorkerAt
  <2>3. OrderInv'
    BY <2>1 DEF OrderInv, Queued
  <2>4. CASE m_Queue = << >>
    BY <2>1, <2>2, <2>3, <2>4 DEF JobInv, Active
  <2>5. CASE m_Queue # << >>
    BY <2>1, <2>2, <2>3, <2>5 DEF JobInv, Active
  <2> QED BY <2>4, <2>5
<1>4. ASSUME NEW c \in Caller, QueueFileOperation(c) PROVE OrderInv' /\ JobInv'
  <2>1. /\ pushed < MaxOps /\ pushed' = pushed + 1 /\ m_Queue' = Append(m_Queue, pushed')
        /\ fate' = [fate EXCEPT ![pushed'] = "queued"]
        /\ UNCHANGED <<job, worker>>
    BY <1>4 DEF QueueFileOperation
  <2>2. pushed' \in Op /\ pushed' \in Int
    BY <2>1, <1>0
  <2>3. /\ Len(m_Queue') = Len(m_Queue) + 1
        /\ \A i \in 1 .. Len(m_Queue) : m_Queue'[i] = m_Queue[i]
        /\ m_Queue'[Len(m_Queue) + 1] = pushed'
        /\ Queued' = Queued \cup {pushed'}
    BY <2>1, <2>2, <1>0, AppendToQueue
  <2>4. fate[pushed'] = "none" /\ \A o \in Op : o # pushed' => fate'[o] = fate[o]
    BY <2>1, <2>2, <1>0 DEF OrderInv
  <2>5. fate'[pushed'] = "queued"
    BY <2>1, <2>2, <1>0
  <2>6. \A i \in 1 .. Len(m_Queue) : m_Queue[i] < pushed' /\ fate'[m_Queue[i]] = fate[m_Queue[i]]
    BY <2>1, <2>4, <1>0 DEF OrderInv
  <2>7. \A i \in 1 .. Len(m_Queue') : i \in 1 .. Len(m_Queue) \/ i = Len(m_Queue) + 1
    BY <2>3, <1>0
  <2>8. Len(m_Queue) \in Nat
    BY <1>0
  <2>9. OrderInv'
    <3>1. \A i \in 1 .. Len(m_Queue') : m_Queue'[i] <= pushed'
      BY <2>1, <2>2, <2>3, <2>6, <2>7, <1>0 DEF OrderInv
    <3>2. \A i, j \in 1 .. Len(m_Queue') : i < j => m_Queue'[i] < m_Queue'[j]
      <4> SUFFICES ASSUME NEW i \in 1 .. Len(m_Queue'), NEW j \in 1 .. Len(m_Queue'), i < j
                   PROVE  m_Queue'[i] < m_Queue'[j]
        OBVIOUS
      <4>1. i \in 1 .. Len(m_Queue)
        BY <2>3, <2>8
      <4>2. CASE j \in 1 .. Len(m_Queue)
        BY <4>1, <4>2, <2>3 DEF OrderInv
      <4>3. CASE j = Len(m_Queue) + 1
        BY <4>1, <4>3, <2>3, <2>6
      <4> QED BY <2>7, <4>2, <4>3
    <3>3. \A o \in Op : fate'[o] = "none" <=> pushed' < o
      BY <2>1, <2>2, <2>4, <2>5, <1>0 DEF OrderInv
    <3>4. \A o \in Op : fate'[o] = "queued" => o \in Queued'
      BY <2>3, <2>4 DEF OrderInv
    <3>5. \A o, p \in Op : o < p /\ fate'[p] \in {"running", "processed"} => fate'[o] # "queued"
      <4> SUFFICES ASSUME NEW o \in Op, NEW p \in Op, o < p,
                          fate'[p] \in {"running", "processed"}
                   PROVE  fate'[o] # "queued"
        OBVIOUS
      <4>1. p # pushed' /\ fate[p] \in {"running", "processed"}
        BY <2>4, <2>5
      <4>2. ~(pushed < p)
        BY <4>1 DEF OrderInv
      <4>3. o # pushed'
        BY <4>2, <2>1, <1>0
      <4> QED BY <4>1, <4>3, <2>4 DEF OrderInv
    <3> QED BY <3>1, <3>2, <3>3, <3>4, <3>5 DEF OrderInv
  <2>10. JobInv'
    <3>1. job # pushed' \/ worker \notin {"run", "erase?", "erase"}
      BY <2>4 DEF JobInv
    <3>2. \A o \in Op : fate'[o] = "running" => worker' = "run" /\ o = job'
      BY <2>1, <2>4, <2>5 DEF JobInv
    <3>3. /\ worker' = "run" => job' \in Op /\ fate'[job'] = "running"
          /\ worker' \in {"erase?", "erase"} => job' \in Op /\ fate'[job'] = "processed"
      BY <2>1, <2>4, <3>1 DEF JobInv
    <3>4. \A i \in 1 .. Len(m_Queue') : \/ fate'[m_Queue'[i]] = "queued"
                                        \/ Active' /\ i = 1 /\ m_Queue'[i] = job'
      BY <2>1, <2>3, <2>5, <2>6, <2>7 DEF JobInv, Active
    <3> QED BY <3>2, <3>3, <3>4 DEF JobInv
  <2> QED BY <2>9, <2>10
<1>5. CASE ClearQueue
  <2>1. /\ m_Queue' = << >> /\ UNCHANGED <<pushed, job, worker>>
        /\ fate' = [o \in Op |-> IF o \in Queued /\ fate[o] = "queued"
                                 THEN "cleared" ELSE fate[o]]
    BY <1>5 DEF ClearQueue
  <2>2. \A o \in Op : /\ fate[o] = "queued" => fate'[o] = "cleared"
                      /\ fate[o] # "queued" => fate'[o] = fate[o]
    BY <2>1 DEF OrderInv
  <2>3. Len(m_Queue') = 0 /\ 1 .. Len(m_Queue') = {}
    BY <2>1
  <2>4. OrderInv'
    BY <2>1, <2>2, <2>3 DEF OrderInv
  <2>5. JobInv'
    BY <2>1, <2>2, <2>3 DEF JobInv
  <2> QED BY <2>4, <2>5
<1>6. CASE TakeFront /\ m_Queue # << >>
  <2>1. /\ worker = "take" /\ worker' = "run" /\ job' = Head(m_Queue)
        /\ fate' = [fate EXCEPT ![job'] = "running"]
        /\ UNCHANGED <<m_Queue, pushed>>
    BY <1>6 DEF TakeFront, WorkerAt
  <2>2. Len(m_Queue) \in Nat /\ Len(m_Queue) >= 1 /\ job' = m_Queue[1] /\ job' \in Op
    BY <1>0, <1>6, <2>1
  <2>3. fate[job'] = "queued" /\ fate'[job'] = "running"
        /\ \A o \in Op : o # job' => fate'[o] = fate[o]
    BY <2>1, <2>2, <1>0 DEF JobInv, Active
  <2>4. \A o \in Op : fate[o] = "queued" => o = job' \/ job' < o
    <3> SUFFICES ASSUME NEW o \in Op, fate[o] = "queued", o # job' PROVE job' < o
      OBVIOUS
    <3>1. PICK i \in 1 .. Len(m_Queue) : m_Queue[i] = o
      BY <1>0, InQueue DEF OrderInv
    <3> QED BY <3>1, <2>2 DEF OrderInv
  <2>5. OrderInv'
    <3>1. \A o \in Op : fate'[o] = "queued" => o \in Queued'
      BY <2>1, <2>3 DEF OrderInv, Queued
    <3>2. \A o, p \in Op : o < p /\ fate'[p] \in {"running", "processed"} => fate'[o] # "queued"
      <4> SUFFICES ASSUME NEW o \in Op, NEW p \in Op, o < p,
                          fate'[p] \in {"running", "processed"}, fate'[o] = "queued"
                   PROVE  FALSE
        OBVIOUS
      <4>1. o # job' /\ fate[o] = "queued"
        BY <2>3
      <4>2. CASE p = job'
        BY <4>1, <4>2, <2>2, <2>4
      <4>3. CASE p # job'
        BY <4>1, <4>3, <2>3 DEF OrderInv
      <4> QED BY <4>2, <4>3
    <3> QED BY <2>1, <2>3, <3>1, <3>2 DEF OrderInv
  <2>6. JobInv'
    <3>1. \A i \in 1 .. Len(m_Queue') : \/ fate'[m_Queue'[i]] = "queued"
                                        \/ Active' /\ i = 1 /\ m_Queue'[i] = job'
      <4> SUFFICES ASSUME NEW i \in 1 .. Len(m_Queue), m_Queue[i] # job'
                   PROVE  fate'[m_Queue[i]] = "queued"
        <5>1. ASSUME NEW i \in 1 .. Len(m_Queue), m_Queue[i] = job' PROVE i = 1
          BY <5>1, <2>2, <1>0 DEF OrderInv
        <5> QED BY <5>1, <2>1 DEF Active
      <4> QED BY <2>1, <2>3, <1>0 DEF JobInv, Active
    <3> QED BY <2>1, <2>2, <2>3, <3>1 DEF JobInv
  <2> QED BY <2>5, <2>6
<1>7. CASE ProcessItem
  <2>1. /\ worker = "run" /\ worker' = "erase?" /\ job' = job
        /\ fate' = [fate EXCEPT ![job] = "processed"]
        /\ UNCHANGED <<m_Queue, pushed>>
    BY <1>7 DEF ProcessItem, WorkerGoes, WorkerAt
  <2>2. job \in Op /\ fate[job] = "running" /\ fate'[job] = "processed"
        /\ \A o \in Op : o # job => fate'[o] = fate[o]
    BY <2>1, <1>0 DEF JobInv
  <2>3. OrderInv'
    BY <2>1, <2>2 DEF OrderInv, Queued
  <2>4. JobInv'
    BY <2>1, <2>2, <1>0 DEF JobInv, Active
  <2> QED BY <2>3, <2>4
<1>8. CASE EraseFront /\ m_Queue # << >>
  <2>1. /\ worker = "erase" /\ worker' = "size" /\ job' = job
        /\ m_Queue' = Tail(m_Queue)
        /\ fate' = [fate EXCEPT ![Head(m_Queue)] = IF fate[Head(m_Queue)] = "queued"
                                  THEN "skipped" ELSE fate[Head(m_Queue)]]
        /\ UNCHANGED pushed
    BY <1>8 DEF EraseFront, WorkerAt
  <2>2. /\ Len(m_Queue') = Len(m_Queue) - 1 /\ Len(m_Queue) >= 1 /\ Len(m_Queue) \in Nat
        /\ Head(m_Queue) = m_Queue[1]
        /\ \A i \in 1 .. Len(m_Queue') : i + 1 \in 1 .. Len(m_Queue)
                                         /\ m_Queue'[i] = m_Queue[i + 1]
        /\ \A o : o \in Queued => o \in Queued' \/ o = Head(m_Queue)
    BY <1>0, <1>8, <2>1, TailOfQueue
  <2>3. Head(m_Queue) \in Op /\ fate'[Head(m_Queue)] # "queued"
        /\ (fate'[Head(m_Queue)] = "skipped" \/ fate'[Head(m_Queue)] = fate[Head(m_Queue)])
        /\ \A o \in Op : o # Head(m_Queue) => fate'[o] = fate[o]
    BY <2>1, <2>2, <1>0
  <2>4. fate[Head(m_Queue)] # "none" /\ fate'[Head(m_Queue)] # "none"
    BY <2>2, <2>3, <1>0 DEF OrderInv
  <2>5. \A i \in 1 .. Len(m_Queue') : m_Queue[1] < m_Queue'[i] /\ fate[m_Queue'[i]] = "queued"
    <3> SUFFICES ASSUME NEW i \in 1 .. Len(m_Queue')
                 PROVE  m_Queue[1] < m_Queue'[i] /\ fate[m_Queue'[i]] = "queued"
      OBVIOUS
    <3>1. i + 1 \in 1 .. Len(m_Queue) /\ 1 \in 1 .. Len(m_Queue) /\ 1 < i + 1
          /\ m_Queue'[i] = m_Queue[i + 1]
      BY <2>2
    <3>2. m_Queue[1] < m_Queue[i + 1]
      BY <3>1 DEF OrderInv
    <3>3. fate[m_Queue[i + 1]] = "queued"
      BY <3>1 DEF JobInv
    <3> QED BY <3>1, <3>2, <3>3
  <2>6. OrderInv'
    <3>1. \A i \in 1 .. Len(m_Queue') : m_Queue'[i] <= pushed'
      BY <2>1, <2>2 DEF OrderInv
    <3>2. \A i, j \in 1 .. Len(m_Queue') : i < j => m_Queue'[i] < m_Queue'[j]
      BY <2>2 DEF OrderInv
    <3>3. \A o \in Op : fate'[o] = "none" <=> pushed' < o
      BY <2>1, <2>3, <2>4 DEF OrderInv
    <3>4. \A o \in Op : fate'[o] = "queued" => o \in Queued'
      BY <2>2, <2>3 DEF OrderInv
    <3>5. \A o, p \in Op : o < p /\ fate'[p] \in {"running", "processed"} => fate'[o] # "queued"
      BY <2>3 DEF OrderInv
    <3> QED BY <3>1, <3>2, <3>3, <3>4, <3>5 DEF OrderInv
  <2>7. JobInv'
    <3>1. \A o \in Op : fate'[o] # "running"
      BY <2>1, <2>3 DEF JobInv
    <3>2. \A i \in 1 .. Len(m_Queue') : fate'[m_Queue'[i]] = "queued"
      BY <2>2, <2>3, <2>5, <1>0
    <3> QED BY <2>1, <3>1, <3>2 DEF JobInv
  <2> QED BY <2>6, <2>7
<1> HIDE DEF Op
<1>9. ASSUME NEW c \in Caller, Call(c) PROVE OrderInv' /\ JobInv'
  <2>1. CASE DoWork(c) \/ SumTest(c)
    BY <1>1, <2>1 DEF DoWork, SumTest
  <2>2. CASE SumRead(c) \/ GetterReads(c)
    BY <1>1, <2>2 DEF SumRead, GetterReads, Crash, historyVars
  <2>3. CASE GetterTests(c)
    BY <1>1, <2>3 DEF GetterTests, historyVars
  <2> QED BY <1>4, <1>9, <2>1, <2>2, <2>3 DEF Call
<1>10. CASE Cancel
  <2>1. CASE EmptyQueue \/ EmptyQueueTestsSize \/ CancelCurrent
    BY <1>1, <2>1 DEF EmptyQueue, EmptyQueueTestsSize, CancelCurrent, Crash, historyVars
  <2> QED BY <1>5, <1>10, <2>1 DEF Cancel
<1>11. CASE Process
  <2>1. CASE TestSize \/ TestPaused \/ TestFinished \/ ForgetCurrent \/ PauseWorker
    <3>1. UNCHANGED <<m_Queue, pushed, fate, job>>
      BY <2>1 DEF TestSize, TestPaused, TestFinished, ForgetCurrent, PauseWorker, historyVars
    <3>2. ~Active /\ ~Active'
      BY <2>1 DEF TestSize, TestPaused, TestFinished, ForgetCurrent, PauseWorker, Active,
                  WorkerGoes, WorkerAt
    <3> QED BY <1>2, <3>1, <3>2
  <2>2. CASE TakeFront /\ m_Queue = << >>
    BY <1>1, <2>2 DEF TakeFront, Crash
  <2>3. CASE ProcessFreedItem
    BY <1>1, <2>3 DEF ProcessFreedItem, Crash
  <2>4. CASE EraseFront /\ m_Queue = << >>
    BY <1>1, <2>4 DEF EraseFront, Crash
  <2> QED BY <1>3, <1>6, <1>7, <1>8, <1>11, <2>1, <2>2, <2>3, <2>4 DEF Process
<1>12. CASE UNCHANGED vars
  BY <1>1, <1>12 DEF vars
<1> QED BY <1>9, <1>10, <1>11, <1>12 DEF Next

LEMMA OrderInit == Init => OrderInv /\ JobInv
  BY FileOperationsAssumption DEF Init, OrderInv, JobInv, Op

\* Operations start in the order they were queued, whoever cancels meanwhile.
THEOREM InOrder == Spec => []FirstComeFirstServed
<1>1. TypeOK /\ OrderInv /\ JobInv /\ [Next]_vars => OrderInv' /\ JobInv'
  BY OrderStep
<1>2. OrderInv => FirstComeFirstServed
  BY DEF OrderInv, FirstComeFirstServed
<1> QED BY <1>1, <1>2, OrderInit, TypeCorrect, PTL DEF Spec

-----------------------------------------------------------------------------
(* Skips.  Only the erase after an operation that was cleared away while it    *)
(* ran skips another one, and that uses up the cancel that cleared it.         *)

LEMMA SkippedFinite ==
    ASSUME NEW n \in Nat, NEW f, NEW S, S = {o \in 1 .. n : f[o] = "skipped"}
    PROVE  IsFiniteSet(S) /\ Cardinality(S) \in Nat
<1>1. IsFiniteSet(1 .. n)
  BY FS_Interval
<1>2. IsFiniteSet(S)
  BY <1>1, FS_Subset
<1> QED BY <1>2, FS_CardinalityType

LEMMA SkipStep ==
    ASSUME TypeOK, OrderInv, JobInv, SkipInv, [Next]_vars
    PROVE  SkipInv'
<1> DEFINE Skips == Cardinality(Skipped)
<1>0. /\ Skips \in Nat /\ IsFiniteSet(Skipped) /\ cancels \in Nat
      /\ m_Queue \in Seq(Op) /\ fate \in [Op -> Fate]
  <2>1. cancels \in Nat /\ MaxOps \in Nat
    BY FileOperationsAssumption DEF TypeOK
  <2> QED BY <2>1, SkippedFinite DEF Skipped, Op, TypeOK
<1>1. ASSUME Skipped' = Skipped, cancels' = cancels,
             \A o \in Op : fate'[o] = "cleared" => fate[o] = "cleared" \/ cancels > 0,
             Dropped' => Dropped, Cancelling' => Cancelling
      PROVE  SkipInv'
  <2>1. Skips + (IF Dropped' THEN 1 ELSE 0) + (IF Cancelling' THEN 1 ELSE 0) <= cancels
    BY <1>0, <1>1 DEF SkipInv
  <2>2. \A o \in Op : fate'[o] = "skipped" => fate[o] = "skipped"
    BY <1>1 DEF Skipped
  <2>3. \A o \in Op : fate'[o] \in {"cleared", "skipped"} => cancels' > 0
    BY <1>1, <2>2 DEF SkipInv
  <2> QED BY <1>1, <2>1, <2>3 DEF SkipInv
<1>2. ASSUME UNCHANGED <<m_Queue, fate, job, worker, cancels>>, Cancelling' => Cancelling
      PROVE  SkipInv'
  BY <1>1, <1>2 DEF Skipped, Dropped, Active, Queued
<1>3. ASSUME UNCHANGED <<fate, cancels, caller>>, ~Active' PROVE SkipInv'
  BY <1>1, <1>3 DEF Skipped, Dropped, Cancelling
<1>4. ASSUME NEW c \in Caller, QueueFileOperation(c) PROVE SkipInv'
  <2>1. /\ pushed < MaxOps /\ pushed' = pushed + 1 /\ m_Queue' = Append(m_Queue, pushed')
        /\ fate' = [fate EXCEPT ![pushed'] = "queued"]
        /\ UNCHANGED <<job, worker, cancels>>
    BY <1>4 DEF QueueFileOperation
  <2>2. pushed \in Nat /\ MaxOps \in Nat /\ pushed' \in Op
    BY <2>1, FileOperationsAssumption DEF TypeOK, Op
  <2>3. Queued' = Queued \cup {pushed'}
    BY <2>1, <2>2, <1>0, AppendToQueue
  <2>4. fate[pushed'] = "none"
    BY <2>1, <2>2 DEF OrderInv
  <2>5. Skipped' = Skipped
    BY <2>1, <2>2, <2>4, <1>0 DEF Skipped
  <2>6. \A o \in Op : fate'[o] = "cleared" => fate[o] = "cleared"
    BY <2>1, <2>2, <1>0
  <2>7. Cancelling' => Cancelling
    BY <1>4, GoneSame, FileOperationsAssumption DEF QueueFileOperation, Cancelling
  <2> QED BY <1>1, <2>1, <2>3, <2>5, <2>6, <2>7 DEF Dropped, Active
<1>5. CASE EmptyQueue
  <2>1. ~Cancelling /\ cancels' = cancels + 1 /\ UNCHANGED <<m_Queue, fate, job, worker>>
    BY <1>5 DEF EmptyQueue, Cancelling, At
  <2>2. Skipped' = Skipped /\ (Dropped' <=> Dropped)
    BY <2>1 DEF Skipped, Dropped, Active, Queued
  <2>3. Skips + (IF Dropped THEN 1 ELSE 0) <= cancels
    BY <2>1, <1>0 DEF SkipInv
  <2>4. Skips + (IF Dropped THEN 1 ELSE 0) + (IF Cancelling' THEN 1 ELSE 0) <= cancels'
    BY <2>1, <2>3, <1>0
  <2>5. cancels' > 0
    BY <2>1, <1>0
  <2> QED BY <2>2, <2>4, <2>5 DEF SkipInv
<1>6. CASE ClearQueue
  <2>1. /\ Cancelling /\ ~Cancelling' /\ cancels' = cancels
        /\ fate' = [o \in Op |-> IF o \in Queued /\ fate[o] = "queued"
                                 THEN "cleared" ELSE fate[o]]
    BY <1>6, FileOperationsAssumption DEF ClearQueue, Cancelling, At, Idle, TypeOK
  <2>2. Skipped' = Skipped
    BY <2>1 DEF Skipped
  <2>3. Skips + (IF Dropped' THEN 1 ELSE 0) + 0 <= cancels
    BY <2>1, <1>0 DEF SkipInv
  <2>4. cancels > 0
    BY <2>1, <1>0 DEF SkipInv
  <2> QED BY <2>1, <2>2, <2>3, <2>4 DEF SkipInv
<1>7. CASE TakeFront /\ m_Queue # << >>
  <2>1. /\ job' = Head(m_Queue) /\ fate' = [fate EXCEPT ![job'] = "running"]
        /\ UNCHANGED <<m_Queue, caller, cancels>>
        /\ worker = "take"
    BY <1>7 DEF TakeFront, WorkerAt
  <2>2. Len(m_Queue) \in Nat /\ Len(m_Queue) >= 1 /\ job' = m_Queue[1] /\ job' \in Op
    BY <1>0, <1>7, <2>1
  <2>3. job' \in Queued'
    BY <2>1, <2>2, <1>0, InQueue DEF Queued
  <2>4. fate[job'] = "queued"
    BY <2>1, <2>2 DEF JobInv, Active
  <2>5. Skipped' = Skipped
    BY <2>1, <2>2, <2>4, <1>0 DEF Skipped
  <2>6. \A o \in Op : fate'[o] = "cleared" => fate[o] = "cleared"
    BY <2>1, <2>2, <1>0
  <2> QED BY <1>1, <2>1, <2>3, <2>5, <2>6 DEF Dropped, Cancelling
<1>8. CASE ProcessItem
  <2>1. /\ worker = "run" /\ worker' = "erase?"
        /\ fate' = [fate EXCEPT ![job] = "processed"]
        /\ UNCHANGED <<m_Queue, caller, cancels, job>>
    BY <1>8 DEF ProcessItem, WorkerGoes, WorkerAt
  <2>2. job \in Op /\ fate[job] = "running"
    BY <2>1 DEF JobInv
  <2>3. Skipped' = Skipped
    BY <2>1, <2>2, <1>0 DEF Skipped
  <2>4. \A o \in Op : fate'[o] = "cleared" => fate[o] = "cleared"
    BY <2>1, <2>2, <1>0
  <2> QED BY <1>1, <2>1, <2>3, <2>4 DEF Dropped, Active, Queued, Cancelling
<1>9. CASE TestSizeAgain
  <2>1. /\ worker = "erase?" /\ UNCHANGED <<m_Queue, fate, caller, cancels, job>>
    BY <1>9 DEF TestSizeAgain, WorkerGoes, WorkerAt, historyVars
  <2> QED BY <1>1, <2>1 DEF Skipped, Dropped, Active, Queued, Cancelling
<1>10. CASE EraseFront /\ m_Queue # << >>
  <2>1. /\ worker = "erase" /\ worker' = "size" /\ cancels' = cancels
        /\ Cancelling' <=> Cancelling
        /\ fate' = [fate EXCEPT ![Head(m_Queue)] = IF fate[Head(m_Queue)] = "queued"
                                  THEN "skipped" ELSE fate[Head(m_Queue)]]
    <3>1. Cancelling' <=> Cancelling
      BY <1>10, GoneSame, FileOperationsAssumption DEF EraseFront, Cancelling
    <3> QED BY <1>10, <3>1 DEF EraseFront, WorkerAt
  <2>2. Len(m_Queue) \in Nat /\ Len(m_Queue) >= 1 /\ Head(m_Queue) = m_Queue[1]
        /\ Head(m_Queue) \in Op
    BY <1>0, <1>10
  <2>3. ~Dropped'
    BY <2>1 DEF Dropped, Active
  <2>4. \A o \in Op : fate'[o] = "cleared" => fate[o] = "cleared"
    BY <2>1, <2>2, <1>0
  <2>5. CASE fate[Head(m_Queue)] # "queued"
    <3>1. fate' = fate
      BY <2>1, <2>5, <1>0
    <3> QED BY <1>1, <2>1, <2>3, <3>1 DEF Skipped
  <2>6. CASE fate[Head(m_Queue)] = "queued"
    <3>1. fate[job] = "processed"
      BY <2>1 DEF JobInv
    <3>2. job \notin Queued
      <4> SUFFICES ASSUME NEW i \in 1 .. Len(m_Queue), m_Queue[i] = job PROVE FALSE
        BY <1>0, InQueue
      <4>1. i = 1
        BY <3>1 DEF JobInv
      <4> QED BY <4>1, <3>1, <2>2, <2>6
    <3>3. Dropped
      BY <2>1, <3>2 DEF Dropped, Active
    <3>4. Skipped' = Skipped \cup {Head(m_Queue)} /\ Head(m_Queue) \notin Skipped
      BY <2>1, <2>2, <2>6, <1>0 DEF Skipped
    <3>5. Cardinality(Skipped') = Skips + 1
      BY <3>4, <1>0, FS_AddElement
    <3>6. Skips + 1 + (IF Cancelling THEN 1 ELSE 0) <= cancels
      BY <3>3, <1>0 DEF SkipInv
    <3>7. Cardinality(Skipped') + (IF Dropped' THEN 1 ELSE 0)
              + (IF Cancelling' THEN 1 ELSE 0) <= cancels'
      BY <2>1, <2>3, <3>5, <3>6, <1>0
    <3>8. cancels' > 0
      BY <2>1, <3>6, <1>0
    <3> QED BY <3>7, <3>8 DEF SkipInv
  <2> QED BY <2>5, <2>6
<1>11. ASSUME NEW c \in Caller, Call(c) PROVE SkipInv'
  <2>1. CASE DoWork(c) \/ SumTest(c)
    <3>1. UNCHANGED <<m_Queue, fate, job, worker, cancels>>
      BY <2>1 DEF DoWork, SumTest
    <3>2. Cancelling' => Cancelling
      <4>1. caller[c].at \in {"idle", "sum"} /\ \A d \in Caller \ {c} : caller'[d] = caller[d]
        BY <2>1 DEF DoWork, SumTest, At, TypeOK
      <4>2. caller'[c].at \in {"idle", "sum", "read"}
        BY <2>1 DEF DoWork, SumTest, At, TypeOK, Idle
      <4> QED BY <4>1, <4>2, FileOperationsAssumption DEF Cancelling
    <3> QED BY <1>2, <3>1, <3>2
  <2>2. CASE SumRead(c)
    <3>1. UNCHANGED <<m_Queue, fate, job, worker, cancels>>
      BY <2>2 DEF SumRead, Crash
    <3>2. Cancelling' => Cancelling
      <4>1. CASE caller' = caller
        BY <4>1 DEF Cancelling
      <4>2. CASE caller' = [caller EXCEPT ![c] = [at |-> "sum", x |-> caller[c].x + 1]]
        BY <4>2, FileOperationsAssumption DEF Cancelling, TypeOK
      <4> QED BY <2>2, <4>1, <4>2 DEF SumRead, Crash
    <3> QED BY <1>2, <3>1, <3>2
  <2>3. CASE GetterTests(c) \/ GetterReads(c)
    <3>1. UNCHANGED <<m_Queue, fate, job, worker, cancels>>
      BY <2>3 DEF GetterTests, GetterReads, Crash, historyVars
    <3>2. Cancelling' => Cancelling
      <4>1. \A d \in Caller \ {c} : caller'[d] = caller[d]
        BY <2>3 DEF GetterTests, GetterReads, Crash, TypeOK
      <4>2. caller'[c].at \in {"idle", "use", "stale"}
        BY <2>3 DEF GetterTests, GetterReads, Crash, TypeOK, At, Idle
      <4> QED BY <4>1, <4>2, FileOperationsAssumption DEF Cancelling
    <3> QED BY <1>2, <3>1, <3>2
  <2> QED BY <1>4, <1>11, <2>1, <2>2, <2>3 DEF Call
<1>12. CASE Cancel
  <2>1. CASE EmptyQueueTestsSize \/ CancelCurrent
    BY <1>2, <2>1 DEF EmptyQueueTestsSize, CancelCurrent, Crash, historyVars, Cancelling, At
  <2> QED BY <1>5, <1>6, <1>12, <2>1 DEF Cancel
<1>13. CASE Process
  <2>1. CASE TestSize \/ TestPaused \/ TestFinished \/ ForgetCurrent \/ PauseWorker
    BY <1>3, <2>1 DEF TestSize, TestPaused, TestFinished, ForgetCurrent, PauseWorker,
                      historyVars, Active, WorkerGoes
  <2>2. CASE TakeFront /\ m_Queue = << >>
    BY <1>2, <2>2 DEF TakeFront, Crash, Cancelling
  <2>3. CASE ProcessFreedItem
    BY <1>2, <2>3 DEF ProcessFreedItem, Crash, Cancelling
  <2>4. CASE EraseFront /\ m_Queue = << >>
    BY <1>2, <2>4 DEF EraseFront, Crash, Cancelling
  <2> QED BY <1>7, <1>8, <1>9, <1>10, <1>13, <2>1, <2>2, <2>3, <2>4 DEF Process
<1>14. CASE UNCHANGED vars
  BY <1>2, <1>14 DEF vars, Cancelling
<1> QED BY <1>11, <1>12, <1>13, <1>14 DEF Next

LEMMA SkipInvariance == Spec => [](OrderInv /\ JobInv /\ SkipInv)
<1>1. Init => SkipInv
  <2> SUFFICES ASSUME Init PROVE SkipInv
    OBVIOUS
  <2>1. Skipped = {}
    BY DEF Init, Skipped
  <2>2. ~Dropped /\ ~Cancelling
    BY FileOperationsAssumption DEF Init, Dropped, Active, Cancelling, Idle
  <2> QED BY <2>1, <2>2, FS_EmptySet DEF Init, SkipInv
<1>2. TypeOK /\ OrderInv /\ JobInv /\ [Next]_vars => OrderInv' /\ JobInv'
  BY OrderStep
<1>3. TypeOK /\ OrderInv /\ JobInv /\ SkipInv /\ [Next]_vars => SkipInv'
  BY SkipStep
<1> QED BY <1>1, <1>2, <1>3, OrderInit, TypeCorrect, PTL DEF Spec

\* Without a cancel no operation is erased unprocessed, and each cancel costs the
\* operations queued after it at most one.
THEOREM SkipBound == Spec => []OneSkipPerCancel
<1>1. TypeOK /\ SkipInv => OneSkipPerCancel
  <2> SUFFICES ASSUME TypeOK, SkipInv PROVE OneSkipPerCancel
    OBVIOUS
  <2>1. Cardinality(Skipped) \in Nat /\ cancels \in Nat
    <3>1. cancels \in Nat /\ MaxOps \in Nat
      BY FileOperationsAssumption DEF TypeOK
    <3> QED BY <3>1, SkippedFinite DEF Skipped, Op
  <2> QED BY <2>1 DEF SkipInv, OneSkipPerCancel
<1> QED BY <1>1, SkipInvariance, TypeCorrect, PTL

\* When a batch that nobody cancelled leaves the queue empty, all of it has been
\* carried out.
THEOREM DoneIsProcessed == Spec => []DoneIsDone
<1>1. TypeOK /\ OrderInv /\ JobInv /\ SkipInv => DoneIsDone
  <2> SUFFICES ASSUME TypeOK, OrderInv, JobInv, SkipInv, m_Queue = << >>, cancels = 0,
                      NEW o \in 1 .. pushed
               PROVE  fate[o] = "processed"
    BY DEF DoneIsDone
  <2>1. pushed \in 0 .. MaxOps /\ MaxOps \in Nat
    BY FileOperationsAssumption DEF TypeOK
  <2>2. o \in Op /\ ~(pushed < o)
    BY <2>1 DEF Op
  <2>3. fate[o] \in Fate
    BY <2>2 DEF TypeOK
  <2>4. fate[o] # "none"
    BY <2>2 DEF OrderInv
  <2>5. fate[o] # "queued"
    BY <2>2 DEF OrderInv, Queued
  <2>6. fate[o] \notin {"cleared", "skipped"}
    BY <2>2 DEF SkipInv
  <2>7. fate[o] # "running"
    <3> SUFFICES ASSUME fate[o] = "running" PROVE FALSE
      OBVIOUS
    <3>1. Dropped
      BY <2>2 DEF JobInv, Dropped, Active, Queued
    <3>2. Cardinality(Skipped) \in Nat
      BY <2>1, SkippedFinite DEF Skipped, Op
    <3> QED BY <3>1, <3>2 DEF SkipInv
  <2> QED BY <2>3, <2>4, <2>5, <2>6, <2>7 DEF Fate
<1> QED BY <1>1, SkipInvariance, TypeCorrect, PTL

-----------------------------------------------------------------------------
(* Clean batches.  While nobody cancels, the worker is switched on from the    *)
(* moment it takes an operation until it has erased it; whoever adds up sizes  *)
(* meanwhile, or pushes and so moves the elements, overlaps.                   *)

LEMMA CleanStep ==
    ASSUME TypeOK, SkipInv, CleanInv, [Next]_vars
    PROVE  CleanInv'
<1> USE DEF Clean, Summing, StaleGetter
<1>0. /\ m_Queue \in Seq(Op) /\ Len(m_Queue) \in Nat /\ cancels \in Nat
      /\ Cancelling \/ Dropped => cancels > 0
  <2>1. m_Queue \in Seq(Op) /\ Len(m_Queue) \in Nat /\ cancels \in Nat /\ MaxOps \in Nat
    BY FileOperationsAssumption DEF TypeOK
  <2>2. Cardinality(Skipped) \in Nat
    BY <2>1, SkippedFinite DEF Skipped, Op
  <2> QED BY <2>1, <2>2 DEF SkipInv
<1>1. ASSUME NEW c \in Caller, QueueFileOperation(c) PROVE CleanInv'
  <2>1. /\ m_Queue' = Append(m_Queue, pushed') /\ overlap' = (overlap \/ ~m_Paused)
        /\ UNCHANGED <<m_Paused, worker, crashed, cancels>> /\ ~crashed
        /\ m_currentItem = "null" => m_currentItem' = "null"
        /\ pushed' \in Op
    BY <1>1, FileOperationsAssumption DEF QueueFileOperation, Overlapping, TypeOK, Op, At
  <2>2. m_Queue' # << >> /\ Len(m_Queue') = Len(m_Queue) + 1
    BY <2>1, <1>0
  <2>3. \A d \in Caller : caller[d].x \in Nat
    BY DEF TypeOK
  <2>4. \A d \in Caller : caller[d].x < Len(m_Queue) => caller[d].x < Len(m_Queue')
    BY <2>2, <2>3, <1>0
  <2>5. \A d \in Caller : /\ caller'[d].x = caller[d].x
                          /\ \/ caller'[d].at = caller[d].at
                             \/ caller[d].at = "use" /\ caller'[d].at = "stale"
    BY <1>1, GoneSame DEF QueueFileOperation
  <2>6. CASE m_Paused
    BY <2>1, <2>2, <2>4, <2>5, <2>6 DEF CleanInv
  <2>7. CASE ~m_Paused
    BY <2>1, <2>2, <2>4, <2>5, <2>7 DEF CleanInv
  <2> QED BY <2>6, <2>7
<1>2. ASSUME NEW c \in Caller, DoWork(c) PROVE CleanInv'
  <2>1. /\ overlap' = (overlap \/ ~m_Paused) /\ caller'[c].at = "sum"
        /\ \A d \in Caller \ {c} : caller'[d] = caller[d]
        /\ UNCHANGED <<m_Queue, m_Paused, m_currentItem, worker, crashed, cancels>>
        /\ ~crashed
    BY <1>2 DEF DoWork, Overlapping, TypeOK, At
  <2> QED BY <2>1 DEF CleanInv
<1>3. ASSUME NEW c \in Caller, SumTest(c) PROVE CleanInv'
  <2>0. caller[c].at = "sum" /\ ~crashed
        /\ UNCHANGED <<m_Queue, m_currentItem, worker, crashed, cancels>>
    BY <1>3 DEF SumTest, At
  <2>1. CASE caller[c].x < Len(m_Queue)
    <3>1. /\ overlap' = (overlap \/ ~m_Paused) /\ m_Paused' = m_Paused
          /\ caller'[c].at = "read" /\ caller'[c].x = caller[c].x
          /\ \A d \in Caller \ {c} : caller'[d] = caller[d]
      BY <1>3, <2>1 DEF SumTest, Overlapping, TypeOK
    <3> QED BY <2>0, <2>1, <3>1 DEF CleanInv
  <2>2. CASE ~(caller[c].x < Len(m_Queue))
    <3>1. /\ overlap' <=> overlap \/ ~m_Paused \/ \E d \in Caller \ {c} : Summing(d)
          /\ m_Paused' = FALSE
          /\ caller' = [caller EXCEPT ![c] = Idle]
      BY <1>3, <2>2, Zenon DEF SumTest, OverlappingDoWork
    <3>2. caller'[c].at = "idle" /\ \A d \in Caller \ {c} : caller'[d] = caller[d]
      BY <3>1 DEF TypeOK, Idle
    <3> QED BY <2>0, <3>1, <3>2 DEF CleanInv
  <2> QED BY <2>1, <2>2
<1>4. ASSUME NEW c \in Caller, SumRead(c) PROVE CleanInv'
  <2>0. caller[c].at = "read" /\ ~crashed
    BY <1>4 DEF SumRead, At
  <2>1. CASE caller[c].x < Len(m_Queue)
    <3>1. /\ overlap' = (overlap \/ ~m_Paused) /\ caller'[c].at = "sum"
          /\ \A d \in Caller \ {c} : caller'[d] = caller[d]
          /\ UNCHANGED <<m_Queue, m_Paused, m_currentItem, worker, crashed, cancels>>
      BY <1>4, <2>1 DEF SumRead, Overlapping, TypeOK
    <3> QED BY <2>0, <3>1 DEF CleanInv
  <2>2. CASE ~(caller[c].x < Len(m_Queue))
    <3>1. UNCHANGED <<caller, m_Paused, overlap, cancels>>
      BY <1>4, <2>2 DEF SumRead, Crash
    <3>2. ~Clean
      BY <2>0, <2>2 DEF CleanInv
    <3> QED BY <3>1, <3>2 DEF CleanInv
  <2> QED BY <2>1, <2>2
<1>5. CASE EmptyQueue
  <2>1. cancels' # 0 /\ m_Paused' = TRUE
    BY <1>5, <1>0 DEF EmptyQueue
  <2> QED BY <2>1 DEF CleanInv
<1>6. CASE EmptyQueueTestsSize \/ CancelCurrent \/ ClearQueue
  <2>1. Cancelling /\ UNCHANGED <<m_Paused, overlap, cancels>>
    BY <1>6 DEF EmptyQueueTestsSize, CancelCurrent, ClearQueue, Crash, Cancelling, At,
                historyVars
  <2>2. ~Clean'
    BY <2>1, <1>0
  <2>3. \A d \in Caller : Summing(d)' => Summing(d)
    <3> SUFFICES ASSUME NEW d \in Caller, Summing(d)' PROVE Summing(d)
      OBVIOUS
    <3>1. d # Scene => caller'[d].at \in {caller[d].at, "stale"}
      BY <1>6 DEF EmptyQueueTestsSize, CancelCurrent, ClearQueue, Crash, TypeOK, GoneFor
    <3>2. caller'[Scene].at \in {"idle", "cancel?", "cancel", "clear"}
      BY <1>6, FileOperationsAssumption
      DEF EmptyQueueTestsSize, CancelCurrent, ClearQueue, Crash, TypeOK, At, Idle
    <3> QED BY <3>1, <3>2
  <2> QED BY <2>1, <2>2, <2>3 DEF CleanInv
<1>7. CASE Process
  <2> USE DEF WorkerAt, WorkerGoes, historyVars, Crash
  <2>1. CASE TestSize
    BY <2>1 DEF TestSize, CleanInv
  <2>2. CASE TestPaused
    BY <2>2 DEF TestPaused, CleanInv
  <2>3. CASE TakeFront
    <3>1. CASE m_Queue = << >>
      BY <2>3, <3>1 DEF TakeFront, CleanInv
    <3>2. CASE m_Queue # << >>
      BY <2>3, <3>2 DEF TakeFront, CleanInv
    <3> QED BY <3>1, <3>2
  <2>4. CASE ProcessItem
    BY <2>4 DEF ProcessItem, CleanInv
  <2>5. CASE ProcessFreedItem
    <3>1. worker = "run" /\ (m_currentItem = "freed" \/ Dropped)
      BY <2>5 DEF ProcessFreedItem, Dropped, Active
    <3>2. ~Clean
      BY <3>1, <1>0 DEF CleanInv
    <3>3. UNCHANGED <<caller, m_Paused, overlap, cancels>>
      BY <2>5 DEF ProcessFreedItem
    <3> QED BY <3>2, <3>3 DEF CleanInv
  <2>6. CASE TestSizeAgain
    BY <2>6 DEF TestSizeAgain, CleanInv
  <2>7. CASE EraseFront
    <3>1. CASE m_Queue = << >>
      BY <2>7, <3>1 DEF EraseFront, CleanInv
    <3>2. CASE m_Queue # << >>
      <4>1. /\ worker = "erase" /\ worker' = "size"
            /\ UNCHANGED <<m_Paused, m_currentItem, crashed, cancels, overlap>>
            /\ ~crashed
        BY <2>7, <3>2 DEF EraseFront
      <4>2. Clean => \A d \in Caller : caller[d].at # "read"
        BY <4>1 DEF CleanInv
      <4>3. \A d \in Caller : /\ caller'[d].at # "use"
                              /\ caller'[d].at = caller[d].at \/ caller'[d].at = "stale"
        BY <2>7, <3>2, GoneSame DEF EraseFront
      <4> QED BY <4>1, <4>2, <4>3 DEF CleanInv
    <3> QED BY <3>1, <3>2
  <2>8. CASE TestFinished \/ ForgetCurrent \/ PauseWorker
    BY <2>8 DEF TestFinished, ForgetCurrent, PauseWorker, CleanInv
  <2> QED BY <1>7, <2>1, <2>2, <2>3, <2>4, <2>5, <2>6, <2>7, <2>8 DEF Process
<1>8. CASE UNCHANGED vars
  BY <1>8 DEF vars, CleanInv
<1>9. ASSUME NEW c \in Caller, GetterTests(c) PROVE CleanInv'
  <2>1. /\ ~crashed /\ m_currentItem # "null"
        /\ UNCHANGED <<m_Queue, m_Paused, m_currentItem, worker, crashed, cancels, overlap>>
        /\ \A d \in Caller \ {c} : caller'[d] = caller[d]
        /\ caller'[c].at = IF m_currentItem = "freed" \/ m_Queue = << >>
                          THEN "stale" ELSE "use"
    BY <1>9 DEF GetterTests, At, TypeOK, historyVars
  <2>2. m_currentItem \in {"null", "front", "freed"}
    BY DEF TypeOK
  <2> QED BY <2>1, <2>2 DEF CleanInv
<1>10. ASSUME NEW c \in Caller, GetterReads(c) PROVE CleanInv'
  <2>1. /\ ~crashed /\ caller[c].at \in {"use", "stale"}
        /\ UNCHANGED <<m_Queue, m_Paused, m_currentItem, worker, cancels, overlap>>
        /\ \A d \in Caller \ {c} : caller'[d] = caller[d]
        /\ \/ caller'[c].at = "idle" /\ crashed' = crashed
           \/ caller' = caller /\ (caller[c].at = "stale" \/ m_currentItem # "front")
    BY <1>10 DEF GetterReads, At, TypeOK, historyVars, Crash, Idle
  <2> QED BY <2>1 DEF CleanInv
<1> QED BY <1>1, <1>2, <1>3, <1>4, <1>5, <1>6, <1>7, <1>8, <1>9, <1>10
        DEF Next, Call, Cancel

\* Whatever the number of callers, an exception, a null or a freed pointer needs a
\* cancel, a caller that acts while the worker is switched on, or a getter that
\* tests and uses the current operation on two sides of its erase, or tests it
\* after the last erase (FileOperationManager.h:53-127, 196, 212).
THEOREM NoFaultInCleanBatches == Spec => []CleanBatchesNeverFault
<1>1. Init => CleanInv
  BY DEF Init, CleanInv, Clean, Idle, Summing
<1>2. TypeOK /\ SkipInv /\ CleanInv /\ [Next]_vars => CleanInv'
  BY CleanStep
<1>3. TypeOK /\ CleanInv => CleanBatchesNeverFault
  <2>1. TypeOK => cancels \in Nat
    BY FileOperationsAssumption DEF TypeOK
  <2> QED BY <2>1 DEF CleanInv, Clean, CleanBatchesNeverFault
<1> QED BY <1>1, <1>2, <1>3, SkipInvariance, TypeCorrect, PTL DEF Spec

-----------------------------------------------------------------------------
(* Why the worker gets to the end of its queue: what is left of its work.  *)

\* The steps to the next erase, or to the next sleep.
StepsLeft(pc) ==
    CASE pc = "empty" -> 8 [] pc = "finish" -> 7 [] pc = "pause" -> 6
      [] pc = "size" -> 5 [] pc = "nonempty" -> 4 [] pc = "take" -> 3
      [] pc = "run" -> 2 [] pc = "erase?" -> 1 [] pc = "erase" -> 0

Remaining == 6 * Len(m_Queue) + StepsLeft(worker)

\* A worker that is switched on and has something in its queue wastes no step,
\* whatever callers and cancels do between two of them: each brings it closer to
\* the erase of the front, so it carries out no operation for ever and its loop
\* does not spin (FileOperationManager.h, Process).  Only a caller adds work.
\* This is the measure on which QueueDrains rests.
THEOREM WorkerAdvances ==
    Spec => [][Process /\ ~m_Paused /\ m_Queue # << >>
               => crashed' \/ Remaining' < Remaining]_vars
<1>1. TypeOK /\ [Next]_vars =>
        [Process /\ ~m_Paused /\ m_Queue # << >> => crashed' \/ Remaining' < Remaining]_vars
  <2> SUFFICES ASSUME TypeOK, Process, ~m_Paused, m_Queue # << >>
               PROVE  crashed' \/ Remaining' < Remaining
    OBVIOUS
  <2> USE DEF WorkerAt, WorkerGoes, Crash
  <2>1. Len(m_Queue) \in Nat /\ Len(Tail(m_Queue)) = Len(m_Queue) - 1
    BY DEF TypeOK
  <2>2. ASSUME UNCHANGED m_Queue, StepsLeft(worker') < StepsLeft(worker),
               StepsLeft(worker') \in Nat, StepsLeft(worker) \in Nat
        PROVE  Remaining' < Remaining
    BY <2>1, <2>2 DEF Remaining
  <2>3. CASE TestSize
    BY <2>2, <2>3 DEF TestSize, StepsLeft
  <2>4. CASE TestPaused
    BY <2>2, <2>4 DEF TestPaused, StepsLeft
  <2>5. CASE TakeFront
    BY <2>2, <2>5 DEF TakeFront, StepsLeft
  <2>6. CASE ProcessItem
    BY <2>2, <2>6 DEF ProcessItem, StepsLeft
  <2>7. CASE ProcessFreedItem
    BY <2>7 DEF ProcessFreedItem
  <2>8. CASE TestSizeAgain
    BY <2>2, <2>8 DEF TestSizeAgain, StepsLeft
  <2>9. CASE EraseFront
    <3>1. worker = "erase" /\ worker' = "size" /\ m_Queue' = Tail(m_Queue)
      BY <2>9 DEF EraseFront
    <3> QED BY <2>1, <3>1 DEF Remaining, StepsLeft
  <2>10. CASE TestFinished
    BY <2>2, <2>10 DEF TestFinished, StepsLeft
  <2>11. CASE ForgetCurrent
    BY <2>2, <2>11 DEF ForgetCurrent, StepsLeft
  <2>12. CASE PauseWorker
    BY <2>2, <2>12 DEF PauseWorker, StepsLeft
  <2> QED BY <2>3, <2>4, <2>5, <2>6, <2>7, <2>8, <2>9, <2>10, <2>11, <2>12 DEF Process
<1> QED BY <1>1, TypeCorrect, PTL DEF Spec

=============================================================================
