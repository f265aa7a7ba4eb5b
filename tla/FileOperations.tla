---------------------------- MODULE FileOperations ----------------------------
(***************************************************************************)
(* FileOperationManager: a vector of file operations (copies, moves,       *)
(* deletes), a worker thread that carries out the first one and erases it, *)
(* and the callers: the scenes, on one thread, and the DVD, title update   *)
(* and DVD copy threads.  Nothing is locked.  Callers push operations,     *)
(* start the worker with DoWork, and only the scenes cancel, with          *)
(* EmptyQueue.  Meanwhile the scenes poll its progress with the getters.   *)
(*                                                                         *)
(* A single call of a vector's method is one step, and so is each access   *)
(* of m_Paused and m_currentItem.  The operations are numbered in the      *)
(* order they are pushed.                                                  *)
(***************************************************************************)
EXTENDS Integers, Sequences, FiniteSets

CONSTANTS Caller,     \* the calling threads
          Scene,      \* the one that runs the scenes
          MaxOps,     \* bound: how many operations are pushed
          MaxCancels  \* bound: how often EmptyQueue is called

ASSUME FileOperationsAssumption ==
    /\ Scene \in Caller
    /\ MaxOps \in Nat
    /\ MaxCancels \in Nat

Op == 1 .. MaxOps

VARIABLES
    m_Queue,        \* the vector
    cap,            \* its capacity
    m_Paused,
    m_currentItem,  \* "null", "front" (the vector's first slot) or "freed"
    worker,         \* what the worker does next
    caller,         \* what each caller does next; x is DoWork's index
    crashed,        \* an exception nobody catches, or a bad pointer
    \* history, read by no guard but the two bounds:
    pushed,         \* the number of operations pushed
    cancels,        \* the number of calls of EmptyQueue
    job,            \* the operation being carried out, or the last one
    fate,           \* what has become of each operation
    late,           \* operations started while m_Paused is set
    overlap         \* a caller has acted while the worker was switched on

vars == <<m_Queue, cap, m_Paused, m_currentItem, worker, caller, crashed, pushed,
          cancels, job, fate, late, overlap>>

historyVars == <<pushed, cancels, job, fate, late, overlap>>

Idle == [at |-> "idle", x |-> 0]
Queued == {m_Queue[i] : i \in DOMAIN m_Queue}

Init ==
    /\ m_Queue = << >>
    /\ cap = 0
    /\ m_Paused = TRUE
    /\ m_currentItem = "null"
    /\ worker = "size"
    /\ caller = [c \in Caller |-> Idle]
    /\ crashed = FALSE
    /\ pushed = 0
    /\ cancels = 0
    /\ job = 0
    /\ fate = [o \in Op |-> "none"]
    /\ late = 0
    /\ overlap = FALSE

Crash ==
    /\ crashed' = TRUE
    /\ UNCHANGED <<m_Queue, cap, m_Paused, m_currentItem, worker, caller,
                   pushed, cancels, job, fate, late, overlap>>

-----------------------------------------------------------------------------
(* Callers.                                                                *)

At(c, pc) == ~crashed /\ caller[c].at = pc
Summing(c) == caller[c].at \in {"sum", "read"}

\* A caller acts while the worker is switched on.
Overlapping == overlap' = (overlap \/ ~m_Paused)
\* It switches the worker on, and another caller is inside DoWork.
OverlappingDoWork(c) ==
    overlap' = (overlap \/ ~m_Paused \/ \E d \in Caller \ {c} : Summing(d))

\* The operation in the first slot goes, or moves: whoever was about to read it
\* reads what is left of it, or what is being moved there.
GoneFor(c) == IF caller[c].at = "use" THEN [caller[c] EXCEPT !.at = "stale"] ELSE caller[c]
FirstSlotGoes == caller' = [c \in Caller |-> GoneFor(c)]
Moves == Len(m_Queue) = cap

Grow(c) == IF c < 2 THEN c + 1 ELSE c + c \div 2

\* Mutant: a queue that is a stack.
PushFront(c) ==
    /\ At(c, "idle")
    /\ pushed < MaxOps
    /\ pushed' = pushed + 1
    /\ m_Queue' = <<pushed'>> \o m_Queue
    /\ fate' = [fate EXCEPT ![pushed'] = "queued"]
    /\ cap' = IF Moves THEN Grow(cap) ELSE cap
    /\ m_currentItem' = IF Moves /\ m_currentItem = "front"
                        THEN "freed" ELSE m_currentItem
    /\ IF Moves THEN FirstSlotGoes ELSE UNCHANGED caller
    /\ Overlapping
    /\ UNCHANGED <<m_Paused, worker, crashed, cancels, job, late>>

\* Mutant: the vector writes past its capacity.
PushWithoutGrowing(c) ==
    /\ At(c, "idle")
    /\ pushed < MaxOps
    /\ pushed' = pushed + 1
    /\ m_Queue' = Append(m_Queue, pushed')
    /\ fate' = [fate EXCEPT ![pushed'] = "queued"]
    /\ Overlapping
    /\ UNCHANGED <<cap, m_Paused, m_currentItem, worker, caller, crashed, cancels,
                   job, late>>

\* Every Add...Operation ends in QueueFileOperation, one push_back each.  When
\* the vector is full its elements move, and m_currentItem is left behind.
QueueFileOperation(c) ==
    /\ At(c, "idle")
    /\ pushed < MaxOps
    /\ pushed' = pushed + 1
    /\ m_Queue' = Append(m_Queue, pushed')
    /\ fate' = [fate EXCEPT ![pushed'] = "queued"]
    /\ cap' = IF Moves THEN Grow(cap) ELSE cap
    /\ m_currentItem' = IF Moves /\ m_currentItem = "front"
                        THEN "freed" ELSE m_currentItem
    /\ IF Moves THEN FirstSlotGoes ELSE UNCHANGED caller
    /\ Overlapping
    /\ UNCHANGED <<m_Paused, worker, crashed, cancels, job, late>>

\* DoWork adds up the sizes and clears m_Paused.
DoWork(c) ==
    /\ At(c, "idle")
    /\ caller' = [caller EXCEPT ![c] = [at |-> "sum", x |-> 0]]
    /\ Overlapping
    /\ UNCHANGED <<m_Queue, cap, m_Paused, m_currentItem, worker, crashed, pushed,
                   cancels, job, fate, late>>

\* Mutant: x <= size().
SumLoopsOnceMore(c) ==
    /\ At(c, "sum")
    /\ IF caller[c].x <= Len(m_Queue)
       THEN /\ caller' = [caller EXCEPT ![c].at = "read"]
            /\ Overlapping
            /\ UNCHANGED <<m_Paused, late>>
       ELSE /\ caller' = [caller EXCEPT ![c] = Idle]
            /\ OverlappingDoWork(c)
            /\ m_Paused' = FALSE
            /\ late' = 0
    /\ UNCHANGED <<m_Queue, cap, m_currentItem, worker, crashed, pushed, cancels,
                   job, fate>>

\* The loop's test x < size(), and the store after the loop.
SumTest(c) ==
    /\ At(c, "sum")
    /\ IF caller[c].x < Len(m_Queue)
       THEN /\ caller' = [caller EXCEPT ![c].at = "read"]
            /\ Overlapping
            /\ UNCHANGED <<m_Paused, late>>
       ELSE /\ caller' = [caller EXCEPT ![c] = Idle]
            /\ OverlappingDoWork(c)
            /\ m_Paused' = FALSE
            /\ late' = 0
    /\ UNCHANGED <<m_Queue, cap, m_currentItem, worker, crashed, pushed, cancels,
                   job, fate>>

\* at(x) throws when the element has gone since the test.
SumRead(c) ==
    /\ At(c, "read")
    /\ IF caller[c].x < Len(m_Queue)
       THEN /\ caller' = [caller EXCEPT ![c] = [at |-> "sum", x |-> @.x + 1]]
            /\ Overlapping
            /\ UNCHANGED <<m_Queue, cap, m_Paused, m_currentItem, worker, crashed,
                           pushed, cancels, job, fate, late>>
       ELSE Crash

\* EmptyQueue: if it was running, pause it and cancel what it runs; clear.
EmptyQueue ==
    /\ At(Scene, "idle")
    /\ cancels < MaxCancels
    /\ cancels' = cancels + 1
    /\ m_Paused' = TRUE
    /\ caller' = [caller EXCEPT ![Scene].at = IF m_Paused THEN "clear" ELSE "cancel?"]
    /\ UNCHANGED <<m_Queue, cap, m_currentItem, worker, crashed, pushed, job, fate,
                   late, overlap>>

EmptyQueueTestsSize ==
    /\ At(Scene, "cancel?")
    /\ caller' = [caller EXCEPT ![Scene].at =
                      IF m_Queue = << >> THEN "clear" ELSE "cancel"]
    /\ UNCHANGED <<m_Queue, cap, m_Paused, m_currentItem, worker, crashed,
                   historyVars>>

\* m_currentItem->Cancel(), wherever m_currentItem points: NULL before the
\* worker has taken its first operation since it last finished.
CancelCurrent ==
    /\ At(Scene, "cancel")
    /\ \/ /\ m_currentItem # "null"
          /\ caller' = [caller EXCEPT ![Scene].at = "clear"]
          /\ UNCHANGED <<m_Queue, cap, m_Paused, m_currentItem, worker, crashed,
                         historyVars>>
       \/ /\ m_currentItem # "front"
          /\ Crash

ClearQueue ==
    /\ At(Scene, "clear")
    /\ caller' = [c \in Caller |-> IF c = Scene THEN Idle ELSE GoneFor(c)]
    /\ m_Queue' = << >>
    /\ fate' = [o \in Op |-> IF o \in Queued /\ fate[o] = "queued"
                             THEN "cleared" ELSE fate[o]]
    /\ UNCHANGED <<cap, m_Paused, m_currentItem, worker, crashed, pushed, cancels,
                   job, late, overlap>>

\* Mutant: a getter without its test.
GetterTestsNothing(c) ==
    /\ At(c, "idle")
    /\ caller' = [caller EXCEPT ![c].at =
                      IF m_currentItem = "freed" \/ m_Queue = << >> THEN "stale" ELSE "use"]
    /\ UNCHANGED <<m_Queue, cap, m_Paused, m_currentItem, worker, crashed,
                   historyVars>>

\* The scenes poll GetSizeDone, GetCurrentItemStatus and the other getters of
\* m_currentItem.  Each tests it; after the last erase, and until the worker
\* forgets it, it points at an operation that is no longer there.
GetterTests(c) ==
    /\ At(c, "idle")
    /\ m_currentItem # "null"
    /\ caller' = [caller EXCEPT ![c].at =
                      IF m_currentItem = "freed" \/ m_Queue = << >> THEN "stale" ELSE "use"]
    /\ UNCHANGED <<m_Queue, cap, m_Paused, m_currentItem, worker, crashed,
                   historyVars>>

\* And uses it: the value that was tested, or whatever m_currentItem is by now.
GetterReads(c) ==
    /\ At(c, "use") \/ At(c, "stale")
    /\ \/ /\ caller' = [caller EXCEPT ![c] = Idle]
          /\ UNCHANGED <<m_Queue, cap, m_Paused, m_currentItem, worker, crashed,
                         historyVars>>
       \/ /\ caller[c].at = "stale" \/ m_currentItem # "front"
          /\ Crash

Call(c) ==
    \/ DoWork(c) \/ SumTest(c) \/ SumRead(c)
    \/ QueueFileOperation(c)
    \/ GetterTests(c) \/ GetterReads(c)

Cancel == EmptyQueue \/ EmptyQueueTestsSize \/ CancelCurrent \/ ClearQueue

-----------------------------------------------------------------------------
(* The worker, FileOperationManager::Process.                              *)

WorkerAt(pc) == ~crashed /\ worker = pc
WorkerGoes(from, to) == WorkerAt(from) /\ worker' = to

TestSize ==
    /\ WorkerGoes("size", IF m_Queue = << >> THEN "empty" ELSE "nonempty")
    /\ UNCHANGED <<m_Queue, cap, m_Paused, m_currentItem, caller, crashed, historyVars>>

\* m_Paused is read with the queue seen nonempty; else the worker sleeps.
TestPaused ==
    /\ WorkerGoes("nonempty", IF m_Paused THEN "size" ELSE "take")
    /\ UNCHANGED <<m_Queue, cap, m_Paused, m_currentItem, caller, crashed, historyVars>>

\* Mutant: the operation leaves the queue as it is taken.
TakeAndErase ==
    /\ WorkerAt("take")
    /\ IF m_Queue = << >>
       THEN Crash
       ELSE /\ worker' = "run"
            /\ m_currentItem' = "front"
            /\ job' = Head(m_Queue)
            /\ m_Queue' = Tail(m_Queue)
            /\ fate' = [fate EXCEPT ![job'] = "running"]
            /\ late' = IF m_Paused THEN late + 1 ELSE late
            /\ UNCHANGED <<cap, m_Paused, caller, crashed, pushed, cancels,
                           overlap>>

\* m_currentItem = &m_Queue.at(0), which throws if the queue was cleared.
TakeFront ==
    /\ WorkerAt("take")
    /\ IF m_Queue = << >>
       THEN Crash
       ELSE /\ worker' = "run"
            /\ m_currentItem' = "front"
            /\ job' = Head(m_Queue)
            /\ fate' = [fate EXCEPT ![job'] = "running"]
            /\ late' = IF m_Paused THEN late + 1 ELSE late
            /\ UNCHANGED <<m_Queue, cap, m_Paused, caller, crashed, pushed, cancels,
                           overlap>>

\* FileOperation::Process returns: done, failed or cancelled.
ProcessItem ==
    /\ WorkerGoes("run", "erase?")
    /\ fate' = [fate EXCEPT ![job] = "processed"]
    /\ UNCHANGED <<m_Queue, cap, m_Paused, m_currentItem, caller, crashed, pushed,
                   cancels, job, late, overlap>>

\* The operation being carried out was destroyed by clear(), or has moved and
\* its old place was freed: its fields may still be read, or the program ends.
ProcessFreedItem ==
    /\ WorkerAt("run")
    /\ m_currentItem = "freed" \/ job \notin Queued
    /\ Crash

TestSizeAgain ==
    /\ WorkerGoes("erase?", IF m_Queue = << >> THEN "size" ELSE "erase")
    /\ UNCHANGED <<m_Queue, cap, m_Paused, m_currentItem, caller, crashed, historyVars>>

\* Mutant: the last element is erased.
EraseLast ==
    /\ WorkerAt("erase")
    /\ IF m_Queue = << >>
       THEN Crash
       ELSE /\ worker' = "size"
            /\ m_Queue' = SubSeq(m_Queue, 1, Len(m_Queue) - 1)
            /\ LET o == m_Queue[Len(m_Queue)] IN
               fate' = [fate EXCEPT ![o] = IF @ = "queued" THEN "skipped" ELSE @]
            /\ UNCHANGED <<cap, m_Paused, m_currentItem, caller, crashed, pushed,
                           cancels, job, late, overlap>>

\* Mutant: after the first operation m_Paused is not looked at again.
EraseAndGoOn ==
    /\ WorkerAt("erase")
    /\ IF m_Queue = << >>
       THEN Crash
       ELSE /\ worker' = IF Len(m_Queue) = 1 THEN "size" ELSE "take"
            /\ m_Queue' = Tail(m_Queue)
            /\ fate' = [fate EXCEPT ![Head(m_Queue)] =
                            IF @ = "queued" THEN "skipped" ELSE @]
            /\ FirstSlotGoes
            /\ UNCHANGED <<cap, m_Paused, m_currentItem, crashed, pushed, cancels, job,
                           late, overlap>>

\* Mutant: the operation stays where it is.
EraseForgotten ==
    /\ WorkerGoes("erase", "size")
    /\ UNCHANGED <<m_Queue, cap, m_Paused, m_currentItem, caller, crashed, historyVars>>

\* m_Queue.erase(m_Queue.begin()), whichever operation is there by now.
EraseFront ==
    /\ WorkerAt("erase")
    /\ IF m_Queue = << >>
       THEN Crash
       ELSE /\ worker' = "size"
            /\ m_Queue' = Tail(m_Queue)
            /\ fate' = [fate EXCEPT ![Head(m_Queue)] =
                            IF @ = "queued" THEN "skipped" ELSE @]
            /\ FirstSlotGoes
            /\ UNCHANGED <<cap, m_Paused, m_currentItem, crashed, pushed, cancels, job,
                           late, overlap>>

\* The queue was seen empty: the two stores of "Just finished the queue".
TestFinished ==
    /\ WorkerGoes("empty", IF m_Paused THEN "size" ELSE "finish")
    /\ UNCHANGED <<m_Queue, cap, m_Paused, m_currentItem, caller, crashed, historyVars>>

ForgetCurrent ==
    /\ WorkerGoes("finish", "pause")
    /\ m_currentItem' = "null"
    /\ UNCHANGED <<m_Queue, cap, m_Paused, caller, crashed, historyVars>>

PauseWorker ==
    /\ WorkerGoes("pause", "size")
    /\ m_Paused' = TRUE
    /\ UNCHANGED <<m_Queue, cap, m_currentItem, caller, crashed, historyVars>>

Process ==
    \/ TestSize \/ TestPaused \/ TakeFront
    \/ ProcessItem \/ ProcessFreedItem
    \/ TestSizeAgain \/ EraseFront
    \/ TestFinished \/ ForgetCurrent \/ PauseWorker

-----------------------------------------------------------------------------
Next == (\E c \in Caller : Call(c)) \/ Cancel \/ Process

Spec == Init /\ [][Next]_vars

\* The worker's thread and a caller inside DoWork, EmptyQueue or a getter run on;
\* nobody has to push, start, cancel or poll anything.
Fairness ==
    /\ WF_vars(Process)
    /\ \A c \in Caller : WF_vars(SumTest(c) \/ SumRead(c) \/ GetterReads(c))
    /\ WF_vars(EmptyQueueTestsSize \/ CancelCurrent \/ ClearQueue)

FairSpec == Spec /\ Fairness

-----------------------------------------------------------------------------
Fate == {"none", "queued", "running", "processed", "cleared", "skipped"}

\* The type of every variable; the vector is never longer than its capacity.
TypeOK ==
    /\ m_Queue \in Seq(Op)
    /\ cap \in Nat
    /\ Len(m_Queue) <= cap
    /\ m_Paused \in BOOLEAN
    /\ m_currentItem \in {"null", "front", "freed"}
    /\ worker \in {"size", "nonempty", "take", "run", "erase?", "erase", "empty",
                   "finish", "pause"}
    /\ caller \in [Caller -> [at : {"idle", "sum", "read", "use", "stale", "cancel?",
                                    "cancel", "clear"},
                              x : Nat]]
    /\ crashed \in BOOLEAN
    /\ pushed \in 0 .. MaxOps
    /\ cancels \in 0 .. MaxCancels
    /\ job \in 0 .. MaxOps
    /\ fate \in [Op -> Fate]
    /\ late \in Nat
    /\ overlap \in BOOLEAN

Skipped == {o \in Op : fate[o] = "skipped"}

\* The erase after an operation takes the wrong one only if EmptyQueue was called
\* while it ran, and then only one: an operation queued by another thread is
\* dropped unprocessed at most once per cancel, and never without one.
OneSkipPerCancel == Cardinality(Skipped) <= cancels

\* Operations start in the order they were queued, so a folder is removed after
\* the files that AddFolderOperation queued before it.
FirstComeFirstServed ==
    \A o, p \in Op :
        o < p /\ fate[p] \in {"running", "processed"} => fate[o] # "queued"

\* isDone() looks only at the vector; the scenes that poll it go on to reload or
\* reboot.  If nobody has cancelled, then every operation has been carried out.
DoneIsDone ==
    m_Queue = << >> /\ cancels = 0 => \A o \in 1 .. pushed : fate[o] = "processed"

\* After EmptyQueue the worker starts at most the one operation it was about to
\* take, until somebody calls DoWork, however many other threads push.
CancelAdmitsOne == late <= 1

\* Batches that are pushed and started while the worker rests, and that nobody
\* cancels, meet an exception, a null or a freed pointer in one way only: in a
\* getter, which stood between its test and its use as the worker erased the
\* operation, or tested after the last erase and before the worker forgot it
\* (FileOperationManager.h:53-127 against 196 and 212).
StaleGetter == \E c \in Caller : caller[c].at = "stale"
CleanBatchesNeverFault == crashed => cancels > 0 \/ overlap \/ StaleGetter

\* A worker that is switched on gets to the end of its queue, unless somebody
\* (or its own race with DoWork, PausesOnlyWhenFinished) switches it off: no
\* operation is carried out for ever, or left in front of the others.
QueueDrains == (~m_Paused /\ m_Queue # << >>) ~> (m_Queue = << >> \/ m_Paused \/ crashed)

\* "On cancel queue has been cleared" (FileOperationManager.h:194): if the
\* operation that just ended was cleared away, the queue is empty, so that the
\* erase takes the operation that ended or nothing.
OnCancelQueueIsCleared ==
    worker = "erase?" /\ job \notin Queued => m_Queue = << >>

\* "Just finished the queue" (FileOperationManager.h:211): the worker pauses
\* itself only when there is nothing left to do.
PausesOnlyWhenFinished == [][PauseWorker => m_Queue = << >>]_vars

=============================================================================
