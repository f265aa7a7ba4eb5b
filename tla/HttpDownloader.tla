--------------------------- MODULE HttpDownloader ---------------------------
(***************************************************************************)
(* HTTPDownloader and its HTTPWorkers (Freestyle/Tools/HTTP), on a boot    *)
(* with an internet connection.                                            *)
(*                                                                         *)
(* Any thread creates HttpItems and queues them (AddToQueue).  One         *)
(* dispatcher thread (HTTPDownloader::Process) takes the head of the most  *)
(* urgent non-empty queue and hands it to a worker that does not look      *)
(* busy; each worker thread (HTTPWorker::Process) downloads, calls the     *)
(* requester back, deletes the item and becomes idle.  The critical        *)
(* section only protects the queues.  The handoff itself goes through      *)
(* three plain fields of the worker, m_IsBusy, m_WaitingToStart and        *)
(* m_CurrentItem, and every read and write of them is a step here.         *)
(*                                                                         *)
(* All these threads are created with CreateThread(CPU2_THREAD_2): they    *)
(* share one hardware thread, so their accesses interleave in program      *)
(* order.                                                                  *)
(***************************************************************************)
EXTENDS Naturals, Sequences, FiniteSets

CONSTANTS Item,         \* the HttpItems that are ever created
          NoItem,       \* the NULL HttpItem*
          NumWorkers,   \* HTTP_NUM_WORKERS
          LastPriority, \* HTTP_PRIOIRTY_END (sic); HTTP_PRIORITY_START is 0
          PriorityOf    \* HttpItem::priority, set before the item is queued

Priority == 0 .. LastPriority
Worker   == 0 .. NumWorkers - 1

\* HTTP_PRIORITY_INSTANT (5) is never given to an item, see the README.
ASSUME DownloaderAssumption ==
    /\ NoItem \notin Item
    /\ NumWorkers \in Nat \ {0}
    /\ LastPriority \in Nat
    /\ PriorityOf \in [Item -> Priority]

VARIABLES
    m_LiveHttpItems,   \* the items created and not deleted
    m_PriorisedQueue,  \* one queue per priority
    adding,            \* the item whose AddToQueue is inside the critical section
    paused,
    dpc,               \* the next step of HTTPDownloader::Process
    scanX,             \* x of its priority loop
    workerX,           \* x of its worker loop
    currentItem,       \* the item in the dispatcher's hand
    m_IsBusy, m_WaitingToStart, m_CurrentItem, \* the fields of each worker
    wpc,               \* the next step of each HTTPWorker::Process
    \* history, read by no action:
    accepted,          \* the items AddToQueue has pushed
    reports,           \* how often the requester of each item was called back
    roundStart,        \* the items queued when the priority loop was last at 0
    popsWhilePaused    \* items popped since the last Pause that took effect

queueVars   == <<m_LiveHttpItems, m_PriorisedQueue, adding, accepted>>
dispVars    == <<dpc, scanX, workerX, currentItem, roundStart, popsWhilePaused>>
workerVars  == <<m_IsBusy, m_WaitingToStart, m_CurrentItem, wpc>>
vars == <<queueVars, paused, dispVars, workerVars, reports>>

QueueOf(p)  == {m_PriorisedQueue[p][k] : k \in 1 .. Len(m_PriorisedQueue[p])}
Queued      == UNION {QueueOf(p) : p \in Priority}
IsBusy(w)   == m_IsBusy[w] \/ m_WaitingToStart[w]

Init ==
    /\ m_LiveHttpItems = {}
    /\ m_PriorisedQueue = [p \in Priority |-> << >>]
    /\ adding = NoItem
    /\ paused = TRUE
    /\ dpc = "paused"
    /\ scanX = 0
    /\ workerX = 0
    /\ currentItem = NoItem
    /\ m_IsBusy = [w \in Worker |-> FALSE]
    /\ m_WaitingToStart = [w \in Worker |-> FALSE]
    /\ m_CurrentItem = [w \in Worker |-> NoItem]
    /\ wpc = [w \in Worker |-> "test"]
    /\ accepted = {}
    /\ reports = [i \in Item |-> 0]
    /\ roundStart = {}
    /\ popsWhilePaused = 0

-----------------------------------------------------------------------------
(* The callers: any thread.                                                *)

CreateHTTPItem(i) ==
    /\ i \notin m_LiveHttpItems \cup accepted
    /\ m_LiveHttpItems' = m_LiveHttpItems \cup {i}
    /\ UNCHANGED <<m_PriorisedQueue, adding, accepted, paused, dispVars,
                   workerVars, reports>>

\* AddToQueue as far as HTTP_LOCK.  Each caller queues an item once.
EnterAddToQueue(i) ==
    /\ i \in m_LiveHttpItems \ accepted
    /\ adding = NoItem
    /\ adding' = i
    /\ UNCHANGED <<m_LiveHttpItems, m_PriorisedQueue, accepted, paused, dispVars,
                   workerVars, reports>>

\* push_back and HTTP_UNLOCK.
PushToQueue ==
    /\ adding # NoItem
    /\ m_PriorisedQueue' = [m_PriorisedQueue EXCEPT ![PriorityOf[adding]] =
                                Append(@, adding)]
    /\ accepted' = accepted \cup {adding}
    /\ adding' = NoItem
    /\ UNCHANGED <<m_LiveHttpItems, paused, dispVars, workerVars, reports>>

Pause ==
    /\ paused' = TRUE
    /\ popsWhilePaused' = IF paused THEN popsWhilePaused ELSE 0
    /\ UNCHANGED <<queueVars, dpc, scanX, workerX, currentItem, roundStart,
                   workerVars, reports>>

Resume ==
    /\ paused' = FALSE
    /\ popsWhilePaused' = 0
    /\ UNCHANGED <<queueVars, dpc, scanX, workerX, currentItem, roundStart,
                   workerVars, reports>>

-----------------------------------------------------------------------------
(* The dispatcher, HTTPDownloader::Process.                                *)

\* Mutant: the round starts whether or not the downloader is paused.
CheckPausedIgnored ==
    /\ dpc = "paused"
    /\ dpc' = "scan"
    /\ scanX' = 0
    /\ roundStart' = Queued
    /\ UNCHANGED <<queueVars, paused, workerX, currentItem, popsWhilePaused,
                   workerVars, reports>>

\* Mutant: the round goes on at the priority where the last one stopped.
CheckPausedKeepsX ==
    /\ dpc = "paused"
    /\ ~ paused
    /\ dpc' = "scan"
    /\ roundStart' = Queued
    /\ UNCHANGED <<queueVars, paused, scanX, workerX, currentItem, popsWhilePaused,
                   workerVars, reports>>

\* The only place that looks at paused.
CheckPaused ==
    /\ dpc = "paused"
    /\ ~ paused
    /\ dpc' = "scan"
    /\ scanX' = 0
    /\ roundStart' = Queued
    /\ UNCHANGED <<queueVars, paused, workerX, currentItem, popsWhilePaused,
                   workerVars, reports>>

\* Mutant: size() >= 0.
ScanHitAny ==
    /\ dpc = "scan"
    /\ dpc' = "pop"
    /\ UNCHANGED <<queueVars, paused, scanX, workerX, currentItem, roundStart,
                   popsWhilePaused, workerVars, reports>>

\* queue->size() > 0 is read outside the lock: while a push_back to this queue
\* is in progress on another thread an empty queue may already look non-empty.
ScanHit ==
    /\ dpc = "scan"
    /\ \/ m_PriorisedQueue[scanX] # << >>
       \/ adding # NoItem /\ PriorityOf[adding] = scanX
    /\ dpc' = "pop"
    /\ UNCHANGED <<queueVars, paused, scanX, workerX, currentItem, roundStart,
                   popsWhilePaused, workerVars, reports>>

\* Mutant: x is reset to HTTP_PRIORITY_START where the code has START - 1.
ScanMissSkipsFirst ==
    /\ dpc = "scan"
    /\ m_PriorisedQueue[scanX] = << >>
    /\ scanX' = IF scanX = LastPriority /\ LastPriority > 0 THEN 1 ELSE 0
    /\ roundStart' = IF scanX = LastPriority THEN Queued ELSE roundStart
    /\ UNCHANGED <<queueVars, paused, dpc, workerX, currentItem,
                   popsWhilePaused, workerVars, reports>>

\* Mutant: x is not reset at the end of the priorities.
ScanMissOverruns ==
    /\ dpc = "scan"
    /\ m_PriorisedQueue[scanX] = << >>
    /\ scanX' = scanX + 1
    /\ UNCHANGED <<queueVars, paused, dpc, workerX, currentItem, roundStart,
                   popsWhilePaused, workerVars, reports>>

ScanMiss ==
    /\ dpc = "scan"
    /\ m_PriorisedQueue[scanX] = << >>
    /\ scanX' = IF scanX = LastPriority THEN 0 ELSE scanX + 1
    /\ roundStart' = IF scanX = LastPriority THEN Queued ELSE roundStart
    /\ UNCHANGED <<queueVars, paused, dpc, workerX, currentItem,
                   popsWhilePaused, workerVars, reports>>

\* Mutant: takes at(0) and erases the last element.
PopFrontErasesLast ==
    /\ dpc = "pop"
    /\ adding = NoItem
    /\ m_PriorisedQueue[scanX] # << >>
    /\ currentItem' = Head(m_PriorisedQueue[scanX])
    /\ m_PriorisedQueue' = [m_PriorisedQueue EXCEPT ![scanX] =
                                SubSeq(@, 1, Len(@) - 1)]
    /\ popsWhilePaused' = IF paused THEN popsWhilePaused + 1 ELSE popsWhilePaused
    /\ roundStart' = {}
    /\ workerX' = 0
    /\ dpc' = "isbusy"
    /\ UNCHANGED <<m_LiveHttpItems, adding, accepted, paused, scanX, workerVars,
                   reports>>

\* Mutant: takes and erases the newest element.
PopBack ==
    /\ dpc = "pop"
    /\ adding = NoItem
    /\ m_PriorisedQueue[scanX] # << >>
    /\ currentItem' = m_PriorisedQueue[scanX][Len(m_PriorisedQueue[scanX])]
    /\ m_PriorisedQueue' = [m_PriorisedQueue EXCEPT ![scanX] =
                                SubSeq(@, 1, Len(@) - 1)]
    /\ popsWhilePaused' = IF paused THEN popsWhilePaused + 1 ELSE popsWhilePaused
    /\ roundStart' = {}
    /\ workerX' = 0
    /\ dpc' = "isbusy"
    /\ UNCHANGED <<m_LiveHttpItems, adding, accepted, paused, scanX, workerVars,
                   reports>>

\* at(0) and erase(begin()), under the lock.
PopFront ==
    /\ dpc = "pop"
    /\ adding = NoItem
    /\ m_PriorisedQueue[scanX] # << >>
    /\ currentItem' = Head(m_PriorisedQueue[scanX])
    /\ m_PriorisedQueue' = [m_PriorisedQueue EXCEPT ![scanX] = Tail(@)]
    /\ popsWhilePaused' = IF paused THEN popsWhilePaused + 1 ELSE popsWhilePaused
    /\ roundStart' = {}
    /\ workerX' = 0
    /\ dpc' = "isbusy"
    /\ UNCHANGED <<m_LiveHttpItems, adding, accepted, paused, scanX, workerVars,
                   reports>>

\* IsBusy() evaluates m_IsBusy || m_WaitingToStart: two reads, in this order.
SkipWorker ==
    /\ \/ dpc = "isbusy" /\ m_IsBusy[workerX]
       \/ dpc = "iswaiting" /\ m_WaitingToStart[workerX]
    /\ workerX' = IF workerX = NumWorkers - 1 THEN 0 ELSE workerX + 1
    /\ dpc' = "isbusy"
    /\ UNCHANGED <<queueVars, paused, scanX, currentItem, roundStart,
                   popsWhilePaused, workerVars, reports>>

\* Mutant: only m_IsBusy is tested, so a worker that was given an item and has
\* not seen it yet looks idle.
ReadNotBusyOnly ==
    /\ dpc = "isbusy"
    /\ ~ m_IsBusy[workerX]
    /\ dpc' = "storeWaiting"
    /\ UNCHANGED <<queueVars, paused, scanX, workerX, currentItem, roundStart,
                   popsWhilePaused, workerVars, reports>>

ReadNotBusy ==
    /\ dpc = "isbusy"
    /\ ~ m_IsBusy[workerX]
    /\ dpc' = "iswaiting"
    /\ UNCHANGED <<queueVars, paused, scanX, workerX, currentItem, roundStart,
                   popsWhilePaused, workerVars, reports>>

ReadNotWaiting ==
    /\ dpc = "iswaiting"
    /\ ~ m_WaitingToStart[workerX]
    /\ dpc' = "setbusy"
    /\ UNCHANGED <<queueVars, paused, scanX, workerX, currentItem, roundStart,
                   popsWhilePaused, workerVars, reports>>

\* SetItem: while(IsBusy()) Sleep(100), the two reads again.
SetItemReadsBusy ==
    /\ dpc = "setbusy"
    /\ ~ m_IsBusy[workerX]
    /\ dpc' = "setwaiting"
    /\ UNCHANGED <<queueVars, paused, scanX, workerX, currentItem, roundStart,
                   popsWhilePaused, workerVars, reports>>

SetItemReadsWaiting ==
    /\ dpc = "setwaiting"
    /\ dpc' = IF m_WaitingToStart[workerX] THEN "setbusy" ELSE "storeWaiting"
    /\ UNCHANGED <<queueVars, paused, scanX, workerX, currentItem, roundStart,
                   popsWhilePaused, workerVars, reports>>

SetItemStoresWaiting ==
    /\ dpc = "storeWaiting"
    /\ m_WaitingToStart' = [m_WaitingToStart EXCEPT ![workerX] = TRUE]
    /\ dpc' = "storeItem"
    /\ UNCHANGED <<queueVars, paused, scanX, workerX, currentItem, roundStart,
                   popsWhilePaused, m_IsBusy, m_CurrentItem, wpc, reports>>

\* The last use of the local currentItem; the next pass sets it to NULL.
SetItemStoresItem ==
    /\ dpc = "storeItem"
    /\ m_CurrentItem' = [m_CurrentItem EXCEPT ![workerX] = currentItem]
    /\ currentItem' = NoItem
    /\ dpc' = "paused"
    /\ UNCHANGED <<queueVars, paused, scanX, workerX, roundStart,
                   popsWhilePaused, m_IsBusy, m_WaitingToStart, wpc, reports>>

Dispatch ==
    \/ CheckPaused
    \/ ScanHit
    \/ ScanMiss
    \/ PopFront
    \/ SkipWorker
    \/ ReadNotBusy
    \/ ReadNotWaiting
    \/ SetItemReadsBusy
    \/ SetItemReadsWaiting
    \/ SetItemStoresWaiting
    \/ SetItemStoresItem

-----------------------------------------------------------------------------
(* A worker, HTTPWorker::Process.  m_IsDisposed is set by the destructor   *)
(* only, and HTTPDownloader never deletes its workers.                     *)

Goto(w, from, to) ==
    /\ wpc[w] = from
    /\ wpc' = [wpc EXCEPT ![w] = to]

SeeItem(w) ==
    /\ Goto(w, "test", "setBusy")
    /\ m_CurrentItem[w] # NoItem
    /\ UNCHANGED <<queueVars, paused, dispVars, m_IsBusy, m_WaitingToStart,
                   m_CurrentItem, reports>>

SetBusy(w) ==
    /\ Goto(w, "setBusy", "clearWaiting")
    /\ m_IsBusy' = [m_IsBusy EXCEPT ![w] = TRUE]
    /\ UNCHANGED <<queueVars, paused, dispVars, m_WaitingToStart, m_CurrentItem,
                   reports>>

ClearWaiting(w) ==
    /\ Goto(w, "clearWaiting", "download")
    /\ m_WaitingToStart' = [m_WaitingToStart EXCEPT ![w] = FALSE]
    /\ UNCHANGED <<queueVars, paused, dispVars, m_IsBusy, m_CurrentItem, reports>>

\* ExecuteItem returns, with a response or without one, and the requester is
\* called back through HTTPDownloader::DownloadCompleted.  What the requester
\* queues from inside the callback is an EnterAddToQueue.
DownloadCurrentItem(w) ==
    /\ Goto(w, "download", "destroy")
    /\ reports' = [reports EXCEPT ![m_CurrentItem[w]] = @ + 1]
    /\ UNCHANGED <<queueVars, paused, dispVars, m_IsBusy, m_WaitingToStart,
                   m_CurrentItem>>

DestroyHTTPItem(w) ==
    /\ Goto(w, "destroy", "clearItem")
    /\ m_LiveHttpItems' = m_LiveHttpItems \ {m_CurrentItem[w]}
    /\ UNCHANGED <<m_PriorisedQueue, adding, accepted, paused, dispVars, m_IsBusy,
                   m_WaitingToStart, m_CurrentItem, reports>>

\* Mutant: the worker keeps the item it has finished.
ClearItemForgotten(w) ==
    /\ Goto(w, "clearItem", "clearWaiting2")
    /\ UNCHANGED <<queueVars, paused, dispVars, m_IsBusy, m_WaitingToStart,
                   m_CurrentItem, reports>>

ClearItem(w) ==
    /\ Goto(w, "clearItem", "clearWaiting2")
    /\ m_CurrentItem' = [m_CurrentItem EXCEPT ![w] = NoItem]
    /\ UNCHANGED <<queueVars, paused, dispVars, m_IsBusy, m_WaitingToStart, reports>>

ClearWaiting2(w) ==
    /\ Goto(w, "clearWaiting2", "clearBusy")
    /\ m_WaitingToStart' = [m_WaitingToStart EXCEPT ![w] = FALSE]
    /\ UNCHANGED <<queueVars, paused, dispVars, m_IsBusy, m_CurrentItem, reports>>

\* Mutant: the worker stays busy.
ClearBusyForgotten(w) ==
    /\ Goto(w, "clearBusy", "test")
    /\ UNCHANGED <<queueVars, paused, dispVars, m_WaitingToStart, m_CurrentItem,
                   m_IsBusy, reports>>

ClearBusy(w) ==
    /\ Goto(w, "clearBusy", "test")
    /\ m_IsBusy' = [m_IsBusy EXCEPT ![w] = FALSE]
    /\ UNCHANGED <<queueVars, paused, dispVars, m_WaitingToStart, m_CurrentItem,
                   reports>>

Work(w) ==
    \/ SeeItem(w)
    \/ SetBusy(w)
    \/ ClearWaiting(w)
    \/ DownloadCurrentItem(w)
    \/ DestroyHTTPItem(w)
    \/ ClearItem(w)
    \/ ClearWaiting2(w)
    \/ ClearBusy(w)

Call == \/ \E i \in Item : CreateHTTPItem(i) \/ EnterAddToQueue(i)
        \/ PushToQueue
        \/ Pause
        \/ Resume

Next == Call \/ Dispatch \/ \E w \in Worker : Work(w)

Spec == Init /\ [][Next]_vars

\* The scheduler runs every thread, and ExecuteItem returns.  Nobody is obliged
\* to create an item, to queue it, to pause or to resume.
Fairness ==
    /\ WF_vars(PushToQueue)
    /\ WF_vars(Dispatch)
    /\ \A w \in Worker : WF_vars(Work(w))

FairSpec == Spec /\ Fairness

-----------------------------------------------------------------------------
DispatcherStep == {"paused", "scan", "pop", "isbusy", "iswaiting", "setbusy",
                   "setwaiting", "storeWaiting", "storeItem"}
WorkerStep == {"test", "setBusy", "clearWaiting", "download", "destroy",
               "clearItem", "clearWaiting2", "clearBusy"}
Pointer == Item \cup {NoItem}

\* The type of every variable of the downloader.
TypeOK ==
    /\ m_LiveHttpItems \in SUBSET Item
    /\ m_PriorisedQueue \in [Priority -> Seq(Item)]
    /\ adding \in Pointer
    /\ paused \in BOOLEAN
    /\ dpc \in DispatcherStep
    /\ scanX \in Priority
    /\ workerX \in Worker
    /\ currentItem \in Pointer
    /\ m_IsBusy \in [Worker -> BOOLEAN]
    /\ m_WaitingToStart \in [Worker -> BOOLEAN]
    /\ m_CurrentItem \in [Worker -> Pointer]
    /\ wpc \in [Worker -> WorkerStep]
    /\ accepted \in SUBSET Item
    /\ reports \in [Item -> Nat]
    /\ roundStart \in SUBSET Item
    /\ popsWhilePaused \in Nat

\* The items in the hands of workers that have not deleted them yet.
Held == {m_CurrentItem[w] : w \in {v \in Worker : wpc[v] # "clearItem"}} \ {NoItem}
InHand == {currentItem} \ {NoItem}

\* No download is lost and none is run twice: every item that was queued and
\* is not deleted sits in one queue at one position, or in the dispatcher's
\* hand, or with exactly one worker, however the unlocked handoff through
\* IsBusy and SetItem interleaves with the worker's own flag writes.
OnePlace ==
    /\ accepted \cap m_LiveHttpItems = Queued \cup InHand \cup Held
    /\ Queued \cap InHand = {} /\ Queued \cap Held = {} /\ InHand \cap Held = {}
    /\ \A p \in Priority : \A j, k \in 1 .. Len(m_PriorisedQueue[p]) :
          m_PriorisedQueue[p][j] = m_PriorisedQueue[p][k] => j = k
    /\ \A v, w \in Worker :
          m_CurrentItem[v] = m_CurrentItem[w] /\ m_CurrentItem[v] # NoItem => v = w

\* SetItem overwrites nothing: when it stores, the worker it writes to has
\* finished its previous item and is back at the test of m_CurrentItem, also
\* when IsBusy was first read half before and half after the worker's start.
SetItemFindsIdleWorker ==
    dpc \in {"storeWaiting", "storeItem"} =>
        /\ m_CurrentItem[workerX] = NoItem
        /\ wpc[workerX] = "test"
        /\ ~ m_IsBusy[workerX]

\* at(0) never throws: the queue that looked non-empty without the lock is
\* non-empty once the dispatcher has the lock.
PopFindsItem ==
    dpc = "pop" /\ adding = NoItem => m_PriorisedQueue[scanX] # << >>

\* After Pause at most one more item leaves the queues until Resume: the
\* dispatcher reads paused only between two dispatches.
PauseAdmitsOne == paused => popsWhilePaused <= 1

\* No priority inversion within a round: an item that was queued when the scan
\* started at priority 0 is not overtaken by one of lesser priority.
NoInversion ==
    dpc = "pop" => \A p \in Priority : p < scanX => QueueOf(p) \cap roundStart = {}

\* The requester of an item hears of it once, and before the item is deleted.
ReportedOnce ==
    \A i \in Item : /\ reports[i] <= 1
                    /\ i \in accepted \ m_LiveHttpItems => reports[i] = 1

-----------------------------------------------------------------------------
(* The downloader implements the abstract service.                         *)

Service == INSTANCE DownloadService WITH
    pending  <- m_PriorisedQueue,
    active   <- InHand \cup Held,
    reports  <- reports,
    released <- accepted \ m_LiveHttpItems,
    Capacity <- NumWorkers + 1

\* Started in FIFO order per priority, reported once, released after the
\* report, and never more than one item per worker and one in the
\* dispatcher's hand.
Implements == Service!Spec

\* Once the downloader stays resumed, every queued item is eventually reported
\* and deleted, whatever its priority (there are finitely many items).
EveryDownloadEnds ==
    <>[](~ paused) =>
        \A i \in Item : i \in accepted ~> (reports[i] = 1 /\ i \notin m_LiveHttpItems)

\* No worker is leaked: each one that looks busy to the dispatcher is idle again
\* later.
WorkersComeBack == \A w \in Worker : IsBusy(w) ~> ~ IsBusy(w)

=============================================================================
