------------------------ MODULE HttpDownloaderProofs ------------------------
(***************************************************************************)
(* Proofs about HttpDownloader, for any set of items, any number of        *)
(* workers and any number of priorities.                                   *)
(***************************************************************************)
EXTENDS HttpDownloader, FiniteSetTheorems, TLAPS

-----------------------------------------------------------------------------
(* Type correctness.  TypeOK is not inductive: DownloadCurrentItem reports *)
(* m_CurrentItem, which must not be NULL by then, and SetItem stores       *)
(* currentItem, which must not be NULL either.                             *)

Dispatching == {"isbusy", "iswaiting", "setbusy", "setwaiting", "storeWaiting",
                "storeItem"}
Working == {"setBusy", "clearWaiting", "download", "destroy", "clearItem"}

HandHasItem   == (currentItem # NoItem) <=> (dpc \in Dispatching)
WorkerHasItem == \A w \in Worker : wpc[w] \in Working => m_CurrentItem[w] # NoItem
TypeInv == TypeOK /\ HandHasItem /\ WorkerHasItem

LEMMA TypeInvariance == Spec => []TypeInv
<1> USE DEF Priority, Worker, Pointer, DispatcherStep, WorkerStep
<1>1. Init => TypeInv
  BY DownloaderAssumption DEF Init, TypeInv, TypeOK, HandHasItem, WorkerHasItem,
                              Dispatching, Working
<1>2. TypeInv /\ [Next]_vars => TypeInv'
  <2> SUFFICES ASSUME TypeInv, [Next]_vars PROVE TypeInv'
    OBVIOUS
  <2> USE DEF TypeInv, TypeOK, HandHasItem, WorkerHasItem, Dispatching, Working,
          queueVars, dispVars, workerVars
  <2>1. ASSUME NEW i \in Item, CreateHTTPItem(i) PROVE TypeInv'
    BY <2>1 DEF CreateHTTPItem
  <2>2. ASSUME NEW i \in Item, EnterAddToQueue(i) PROVE TypeInv'
    BY <2>2 DEF EnterAddToQueue
  <2>3. CASE PushToQueue
    <3>1. adding \in Item /\ PriorityOf[adding] \in Priority
      BY <2>3, DownloaderAssumption DEF PushToQueue
    <3>2. Append(m_PriorisedQueue[PriorityOf[adding]], adding) \in Seq(Item)
      BY <3>1
    <3> QED BY <2>3, <3>1, <3>2 DEF PushToQueue
  <2>4. CASE Pause
    BY <2>4 DEF Pause
  <2>5. CASE Resume
    BY <2>5 DEF Resume
  <2>6. CASE CheckPaused
    <3>1. Queued \in SUBSET Item
      BY DEF Queued, QueueOf
    <3>2. 0 \in Priority
      BY DownloaderAssumption
    <3> QED BY <2>6, <3>1, <3>2 DEF CheckPaused
  <2>7. CASE ScanHit
    BY <2>7 DEF ScanHit
  <2>8. CASE ScanMiss
    <3>1. Queued \in SUBSET Item
      BY DEF Queued, QueueOf
    <3>2. scanX' \in Priority
      BY <2>8, DownloaderAssumption DEF ScanMiss
    <3> QED BY <2>8, <3>1, <3>2 DEF ScanMiss
  <2>9. CASE PopFront
    <3>1. m_PriorisedQueue[scanX] \in Seq(Item) /\ m_PriorisedQueue[scanX] # << >>
      BY <2>9 DEF PopFront
    <3>2. /\ Head(m_PriorisedQueue[scanX]) \in Item
          /\ Head(m_PriorisedQueue[scanX]) # NoItem
          /\ Tail(m_PriorisedQueue[scanX]) \in Seq(Item)
      BY <3>1, DownloaderAssumption
    <3>3. 0 \in Worker
      BY DownloaderAssumption
    <3> QED BY <2>9, <3>2, <3>3 DEF PopFront
  <2>10. CASE SkipWorker
    <3>1. workerX' \in Worker
      BY <2>10, DownloaderAssumption DEF SkipWorker
    <3> QED BY <2>10, <3>1 DEF SkipWorker
  <2>11. CASE ReadNotBusy
    BY <2>11 DEF ReadNotBusy
  <2>12. CASE ReadNotWaiting
    BY <2>12 DEF ReadNotWaiting
  <2>13. CASE SetItemReadsBusy
    BY <2>13 DEF SetItemReadsBusy
  <2>14. CASE SetItemReadsWaiting
    BY <2>14 DEF SetItemReadsWaiting
  <2>15. CASE SetItemStoresWaiting
    BY <2>15 DEF SetItemStoresWaiting
  <2>16. CASE SetItemStoresItem
    BY <2>16 DEF SetItemStoresItem
  <2>17. ASSUME NEW w \in Worker, Work(w) PROVE TypeInv'
    <3> USE DEF Goto
    <3>1. CASE SeeItem(w)
      BY <3>1 DEF SeeItem
    <3>2. CASE SetBusy(w)
      BY <3>2 DEF SetBusy
    <3>3. CASE ClearWaiting(w)
      BY <3>3 DEF ClearWaiting
    <3>4. CASE DownloadCurrentItem(w)
      BY <3>4 DEF DownloadCurrentItem
    <3>5. CASE DestroyHTTPItem(w)
      BY <3>5 DEF DestroyHTTPItem
    <3>6. CASE ClearItem(w)
      BY <3>6 DEF ClearItem
    <3>7. CASE ClearWaiting2(w)
      BY <3>7 DEF ClearWaiting2
    <3>8. CASE ClearBusy(w)
      BY <3>8 DEF ClearBusy
    <3> QED BY <2>17, <3>1, <3>2, <3>3, <3>4, <3>5, <3>6, <3>7, <3>8 DEF Work
  <2>18. CASE UNCHANGED vars
    BY <2>18 DEF vars
  <2> QED
    BY <2>1, <2>2, <2>3, <2>4, <2>5, <2>6, <2>7, <2>8, <2>9, <2>10, <2>11, <2>12,
       <2>13, <2>14, <2>15, <2>16, <2>17, <2>18 DEF Next, Call, Dispatch
<1>3. QED
  BY <1>1, <1>2, PTL DEF Spec

\* Every variable of the downloader keeps its type.
THEOREM TypeCorrect == Spec => []TypeOK
<1>1. TypeInv => TypeOK
  BY DEF TypeInv
<1> QED BY <1>1, TypeInvariance, PTL

-----------------------------------------------------------------------------
(* The handoff.  Once the dispatcher has read m_WaitingToStart as FALSE    *)
(* the worker it looks at can only finish what it runs: it is not about to *)
(* start anything.  So when it then reads m_IsBusy as FALSE, the worker is *)
(* at rest, and stays there until the dispatcher stores the item.          *)

\* The flags say where the worker is, up to the dispatcher's two stores.
FlagInv ==
    \A w \in Worker :
        /\ m_IsBusy[w] <=> wpc[w] \notin {"test", "setBusy"}
        /\ wpc[w] \in {"clearWaiting2", "clearBusy"} => m_CurrentItem[w] = NoItem
        /\ m_WaitingToStart[w] <=>
              \/ wpc[w] \in {"setBusy", "clearWaiting"}
              \/ wpc[w] = "test" /\ m_CurrentItem[w] # NoItem
              \/ dpc = "storeItem" /\ w = workerX

HandoffInv ==
    /\ dpc \in {"setbusy", "setwaiting", "storeWaiting"} => ~ m_WaitingToStart[workerX]
    /\ dpc \in {"setwaiting", "storeWaiting", "storeItem"} =>
          wpc[workerX] = "test" /\ m_CurrentItem[workerX] = NoItem

LEMMA HandoffInvariance == Spec => [](FlagInv /\ HandoffInv)
<1> USE DEF FlagInv, HandoffInv
<1>1. Init => FlagInv /\ HandoffInv
  BY DownloaderAssumption DEF Init, Worker
<1>2. TypeInv /\ FlagInv /\ HandoffInv /\ [Next]_vars => FlagInv' /\ HandoffInv'
  <2> SUFFICES ASSUME TypeInv, FlagInv, HandoffInv, [Next]_vars
               PROVE  FlagInv' /\ HandoffInv'
    OBVIOUS
  <2> USE DEF TypeInv, TypeOK, HandHasItem, WorkerHasItem, Dispatching, Working,
          WorkerStep, DispatcherStep, queueVars, dispVars, workerVars
  <2>1. CASE Call
    <3>1. UNCHANGED <<dpc, workerX, workerVars>>
      BY <2>1 DEF Call, CreateHTTPItem, EnterAddToQueue, PushToQueue, Pause, Resume
    <3> QED BY <3>1
  <2>2. CASE CheckPaused \/ ScanHit \/ ScanMiss \/ PopFront \/ SkipWorker \/ ReadNotBusy
    <3>1. UNCHANGED workerVars
      BY <2>2 DEF CheckPaused, ScanHit, ScanMiss, PopFront, SkipWorker, ReadNotBusy
    <3>2. /\ dpc \notin {"setbusy", "setwaiting", "storeWaiting", "storeItem"}
          /\ dpc' \notin {"setbusy", "setwaiting", "storeWaiting", "storeItem"}
      BY <2>2 DEF CheckPaused, ScanHit, ScanMiss, PopFront, SkipWorker, ReadNotBusy
    <3> QED BY <3>1, <3>2
  <2>3. CASE ReadNotWaiting
    BY <2>3 DEF ReadNotWaiting
  <2>4. CASE SetItemReadsBusy
    BY <2>4 DEF SetItemReadsBusy
  <2>5. CASE SetItemReadsWaiting
    BY <2>5 DEF SetItemReadsWaiting
  <2>6. CASE SetItemStoresWaiting
    BY <2>6 DEF SetItemStoresWaiting
  <2>7. CASE SetItemStoresItem
    BY <2>7 DEF SetItemStoresItem
  <2>8. ASSUME NEW w \in Worker, Work(w) PROVE FlagInv' /\ HandoffInv'
    <3> USE DEF Goto
    <3>1. CASE SeeItem(w)
      BY <3>1 DEF SeeItem
    <3>2. CASE SetBusy(w)
      BY <3>2 DEF SetBusy
    <3>3. CASE ClearWaiting(w)
      BY <3>3 DEF ClearWaiting
    <3>4. CASE DownloadCurrentItem(w)
      BY <3>4 DEF DownloadCurrentItem
    <3>5. CASE DestroyHTTPItem(w)
      BY <3>5 DEF DestroyHTTPItem
    <3>6. CASE ClearItem(w)
      BY <3>6 DEF ClearItem
    <3>7. CASE ClearWaiting2(w)
      BY <3>7 DEF ClearWaiting2
    <3>8. CASE ClearBusy(w)
      BY <3>8 DEF ClearBusy
    <3> QED BY <2>8, <3>1, <3>2, <3>3, <3>4, <3>5, <3>6, <3>7, <3>8 DEF Work
  <2>9. CASE UNCHANGED vars
    BY <2>9 DEF vars
  <2> QED
    BY <2>1, <2>2, <2>3, <2>4, <2>5, <2>6, <2>7, <2>8, <2>9 DEF Next, Dispatch
<1> QED
  BY <1>1, <1>2, TypeInvariance, PTL DEF Spec

\* SetItem overwrites nothing.
THEOREM HandoffSafe == Spec => []SetItemFindsIdleWorker
<1>1. TypeInv /\ FlagInv /\ HandoffInv => SetItemFindsIdleWorker
  BY DEF TypeInv, TypeOK, FlagInv, HandoffInv, SetItemFindsIdleWorker
<1> QED BY <1>1, TypeInvariance, HandoffInvariance, PTL

-----------------------------------------------------------------------------
(* The critical section and the scan.                                      *)

\* A queue holds items of its own priority, the threads hold items that were
\* queued, and whoever is inside AddToQueue brings one that was not.
QueueInv ==
    /\ adding # NoItem => adding \in m_LiveHttpItems \ accepted
    /\ \A p \in Priority : \A k \in 1 .. Len(m_PriorisedQueue[p]) :
          PriorityOf[m_PriorisedQueue[p][k]] = p /\ m_PriorisedQueue[p][k] \in accepted
    /\ currentItem # NoItem => currentItem \in accepted
    /\ \A w \in Worker : m_CurrentItem[w] # NoItem => m_CurrentItem[w] \in accepted
    /\ roundStart \subseteq accepted

\* While the dispatcher goes for the lock, what it saw without the lock is there
\* or is about to be: only the dispatcher removes items.
PopInv ==
    dpc = "pop" => \/ m_PriorisedQueue[scanX] # << >>
                   \/ adding # NoItem /\ PriorityOf[adding] = scanX

\* The queues the scan has passed hold only items that came after it.
ScanInv ==
    dpc \in {"scan", "pop"} =>
        \A p \in Priority : p < scanX => QueueOf(p) \cap roundStart = {}

\* A pause finds the dispatcher before its pop, or after it.
PauseInv ==
    paused => /\ popsWhilePaused <= 1
              /\ dpc \in {"scan", "pop"} => popsWhilePaused = 0

LEMMA QueueOfPush ==
    ASSUME TypeInv, NEW p \in Priority, PushToQueue
    PROVE  QueueOf(p)' = QueueOf(p) \cup (IF p = PriorityOf[adding] THEN {adding} ELSE {})
<1> USE DEF TypeInv, TypeOK, Pointer
<1>1. adding \in Item /\ PriorityOf[adding] \in Priority
  BY DownloaderAssumption DEF PushToQueue
<1>2. CASE p = PriorityOf[adding]
  <2> DEFINE q == m_PriorisedQueue[p]
  <2>1. q \in Seq(Item) /\ m_PriorisedQueue'[p] = Append(q, adding)
    BY <1>1, <1>2 DEF PushToQueue
  <2>2. /\ Len(m_PriorisedQueue'[p]) = Len(q) + 1
        /\ Len(q) \in Nat
        /\ m_PriorisedQueue'[p][Len(q) + 1] = adding
        /\ \A k \in 1 .. Len(q) : m_PriorisedQueue'[p][k] = q[k]
    BY <1>1, <2>1
  <2>3. 1 .. Len(q) + 1 = 1 .. Len(q) \cup {Len(q) + 1}
    BY <2>2
  <2>4. QueueOf(p)' = {m_PriorisedQueue'[p][k] : k \in 1 .. Len(q) + 1}
    BY <2>2 DEF QueueOf
  <2>5. QueueOf(p) = {q[k] : k \in 1 .. Len(q)}
    BY DEF QueueOf
  <2>6. ASSUME NEW e \in QueueOf(p)' PROVE e \in QueueOf(p) \cup {adding}
    <3>1. PICK k \in 1 .. Len(q) + 1 : e = m_PriorisedQueue'[p][k]
      BY <2>4, <2>6
    <3> QED BY <2>2, <2>3, <2>5, <3>1
  <2>7. ASSUME NEW e \in QueueOf(p) PROVE e \in QueueOf(p)'
    <3>1. PICK k \in 1 .. Len(q) : e = q[k]
      BY <2>5, <2>7
    <3>2. k \in 1 .. Len(q) + 1 /\ e = m_PriorisedQueue'[p][k]
      BY <2>2, <3>1
    <3> QED BY <2>4, <3>2
  <2>8. adding \in QueueOf(p)'
    BY <2>2, <2>3, <2>4
  <2> QED BY <1>2, <2>6, <2>7, <2>8
<1>3. CASE p # PriorityOf[adding]
  BY <1>1, <1>3 DEF PushToQueue, QueueOf
<1> QED BY <1>2, <1>3

LEMMA QueueOfPop ==
    ASSUME TypeInv, NEW p \in Priority, PopFront
    PROVE  /\ QueueOf(p)' \subseteq QueueOf(p)
           /\ QueueOf(p) = QueueOf(p)' \cup (IF p = scanX THEN {currentItem'} ELSE {})
<1> USE DEF TypeInv, TypeOK
<1>1. CASE p = scanX
  <2> DEFINE q == m_PriorisedQueue[p]
  <2>1. q \in Seq(Item) /\ q # << >> /\ m_PriorisedQueue'[p] = Tail(q)
    BY <1>1 DEF PopFront
  <2>2. /\ Len(q) \in Nat \ {0}
        /\ Len(Tail(q)) = Len(q) - 1
        /\ \A k \in 1 .. Len(q) - 1 : Tail(q)[k] = q[k + 1]
        /\ currentItem' = q[1]
    BY <1>1, <2>1 DEF PopFront
  <2>3. \A k \in 2 .. Len(q) : k - 1 \in 1 .. Len(q) - 1 /\ q[k] = Tail(q)[k - 1]
    BY <2>2
  <2>4. QueueOf(p) = {q[k] : k \in 1 .. Len(q)}
    BY DEF QueueOf
  <2>5. QueueOf(p)' = {Tail(q)[k] : k \in 1 .. Len(q) - 1}
    BY <2>1, <2>2 DEF QueueOf
  <2>6. \A e \in QueueOf(p)' : e \in QueueOf(p)
    BY <2>2, <2>4, <2>5
  <2>7. ASSUME NEW e \in QueueOf(p), e # currentItem' PROVE e \in QueueOf(p)'
    <3>1. PICK k \in 1 .. Len(q) : e = q[k]
      BY <2>4, <2>7
    <3>2. k \in 2 .. Len(q)
      BY <2>2, <2>7, <3>1
    <3>3. k - 1 \in 1 .. Len(q) - 1 /\ e = Tail(q)[k - 1]
      BY <2>3, <3>1, <3>2
    <3> QED BY <2>5, <3>3
  <2>8. currentItem' \in QueueOf(p)
    BY <2>2, <2>4
  <2> QED BY <1>1, <2>6, <2>7, <2>8
<1>2. CASE p # scanX
  BY <1>2 DEF PopFront, QueueOf
<1> QED BY <1>1, <1>2

LEMMA QueueInvariance == Spec => [](QueueInv /\ PopInv /\ ScanInv /\ PauseInv)
<1> DEFINE Inv == QueueInv /\ PopInv /\ ScanInv /\ PauseInv
<1>1. Init => Inv
  BY DEF Init, QueueInv, PopInv, ScanInv, PauseInv, QueueOf
<1>2. TypeInv /\ TypeInv' /\ Inv /\ [Next]_vars => Inv'
  <2> SUFFICES ASSUME TypeInv, TypeInv', Inv, [Next]_vars
               PROVE  Inv'
    OBVIOUS
  <2> USE DEF QueueInv, PopInv, ScanInv, PauseInv, queueVars, dispVars, workerVars
  <2>0. QueueInv <=>
          /\ adding # NoItem => adding \in m_LiveHttpItems \ accepted
          /\ \A p \in Priority : \A i \in QueueOf(p) : PriorityOf[i] = p /\ i \in accepted
          /\ currentItem # NoItem => currentItem \in accepted
          /\ \A w \in Worker : m_CurrentItem[w] # NoItem => m_CurrentItem[w] \in accepted
          /\ roundStart \subseteq accepted
    BY DEF QueueOf
  <2>1. ASSUME NEW i \in Item, CreateHTTPItem(i) PROVE Inv'
    BY <2>1 DEF CreateHTTPItem, QueueOf
  <2>2. ASSUME NEW i \in Item, EnterAddToQueue(i) PROVE Inv'
    BY <2>2 DEF EnterAddToQueue, QueueOf
  <2>3. CASE PushToQueue
    <3>1. \A p \in Priority : QueueOf(p)' = QueueOf(p) \cup
                                 (IF p = PriorityOf[adding] THEN {adding} ELSE {})
      BY <2>3, QueueOfPush
    <3>2. QueueInv'
      <4>1. \A p \in Priority : \A i \in QueueOf(p)' :
                PriorityOf[i] = p /\ i \in accepted'
        BY <2>0, <2>3, <3>1 DEF PushToQueue
      <4>2. /\ roundStart' \subseteq accepted' /\ adding' = NoItem
            /\ UNCHANGED <<currentItem, m_CurrentItem>>
            /\ accepted \subseteq accepted'
        BY <2>3 DEF PushToQueue
      <4> QED BY <4>1, <4>2 DEF QueueOf
    <3>3. PopInv'
      <4> SUFFICES ASSUME dpc = "pop" PROVE m_PriorisedQueue'[scanX] # << >>
        BY <2>3 DEF PushToQueue
      <4>1. scanX \in Priority /\ (m_PriorisedQueue[scanX] # << >> \/ PriorityOf[adding] = scanX)
        BY DEF TypeInv, TypeOK
      <4>2. m_PriorisedQueue[scanX] \in Seq(Item) /\ adding \in Item
        BY <2>3, <4>1 DEF TypeInv, TypeOK, Pointer, PushToQueue
      <4>3. Append(m_PriorisedQueue[scanX], adding) # << >>
        BY <4>2
      <4> QED BY <2>3, <4>1, <4>2, <4>3 DEF PushToQueue, TypeInv, TypeOK
    <3>4. ScanInv'
      <4>1. adding \notin roundStart
        BY <2>3 DEF PushToQueue
      <4> QED BY <2>3, <3>1, <4>1 DEF PushToQueue
    <3> QED BY <2>3, <3>2, <3>3, <3>4 DEF PushToQueue
  <2>4. CASE Pause \/ Resume
    BY <2>4 DEF Pause, Resume, QueueOf
  <2>5. CASE CheckPaused
    <3>1. Queued \subseteq accepted
      BY <2>0 DEF Queued
    <3>2. \A p \in Priority : ~ (p < 0)
      BY DownloaderAssumption DEF Priority
    <3> QED BY <2>5, <3>1, <3>2 DEF CheckPaused, QueueOf
  <2>6. CASE ScanHit
    BY <2>6 DEF ScanHit, QueueOf
  <2>7. CASE ScanMiss
    <3>1. Queued \subseteq accepted
      BY <2>0 DEF Queued
    <3>2. CASE scanX = LastPriority
      <4>1. \A p \in Priority : ~ (p < 0)
        BY DownloaderAssumption DEF Priority
      <4> QED BY <2>7, <3>1, <3>2, <4>1 DEF ScanMiss, QueueOf
    <3>3. CASE scanX # LastPriority
      <4>1. \A p \in Priority : p < scanX + 1 => p < scanX \/ p = scanX
        BY DownloaderAssumption DEF TypeInv, TypeOK, Priority
      <4>2. QueueOf(scanX) = {}
        BY <2>7 DEF ScanMiss, QueueOf
      <4> QED BY <2>7, <3>1, <3>3, <4>1, <4>2 DEF ScanMiss, QueueOf
    <3> QED BY <3>2, <3>3
  <2>8. CASE PopFront
    <3>1. \A p \in Priority : QueueOf(p)' \subseteq QueueOf(p)
      BY <2>8, QueueOfPop
    <3>2. QueueInv'
      <4>1. scanX \in Priority
        BY DEF TypeInv, TypeOK
      <4>2. currentItem' \in QueueOf(scanX)
        BY <2>8, <4>1, QueueOfPop
      <4> QED BY <2>0, <2>8, <3>1, <4>1, <4>2 DEF PopFront, QueueOf
    <3> QED BY <2>8, <3>2 DEF PopFront, TypeInv, TypeOK
  <2>9. CASE \/ SkipWorker \/ ReadNotBusy \/ ReadNotWaiting \/ SetItemReadsBusy
             \/ SetItemReadsWaiting \/ SetItemStoresWaiting \/ SetItemStoresItem
    <3>1. /\ UNCHANGED <<queueVars, paused, roundStart, popsWhilePaused, scanX>>
          /\ dpc' \notin {"scan", "pop"}
          /\ UNCHANGED <<currentItem, m_CurrentItem>> \/ SetItemStoresItem
      BY <2>9 DEF SkipWorker, ReadNotBusy, ReadNotWaiting, SetItemReadsBusy,
                  SetItemReadsWaiting, SetItemStoresWaiting, SetItemStoresItem
    <3>2. CASE UNCHANGED <<currentItem, m_CurrentItem>>
      BY <3>1, <3>2 DEF QueueOf
    <3>3. CASE SetItemStoresItem
      BY <3>1, <3>3 DEF QueueOf, SetItemStoresItem, TypeInv, TypeOK
    <3> QED BY <3>1, <3>2, <3>3
  <2>10. ASSUME NEW w \in Worker, Work(w) PROVE Inv'
    <3>1. /\ UNCHANGED <<m_PriorisedQueue, adding, accepted, paused, dispVars>>
          /\ \/ m_LiveHttpItems' = m_LiveHttpItems
             \/ m_CurrentItem[w] # NoItem /\ m_LiveHttpItems' = m_LiveHttpItems \ {m_CurrentItem[w]}
          /\ m_CurrentItem' = m_CurrentItem \/ m_CurrentItem' = [m_CurrentItem EXCEPT ![w] = NoItem]
      BY <2>10 DEF Work, SeeItem, SetBusy, ClearWaiting, DownloadCurrentItem,
                   DestroyHTTPItem, ClearItem, ClearWaiting2, ClearBusy, Goto,
                   TypeInv, WorkerHasItem, Working
    <3>2. adding # NoItem => adding # m_CurrentItem[w] \/ m_CurrentItem[w] = NoItem
      OBVIOUS
    <3>3. QueueInv'
      BY <3>1, <3>2 DEF TypeInv, TypeOK
    <3> QED BY <3>1, <3>3 DEF QueueOf
  <2>11. CASE UNCHANGED vars
    BY <2>11 DEF vars, QueueOf
  <2> QED
    BY <2>1, <2>2, <2>3, <2>4, <2>5, <2>6, <2>7, <2>8, <2>9, <2>10, <2>11
    DEF Next, Call, Dispatch
<1> QED
  BY <1>1, <1>2, TypeInvariance, PTL DEF Spec

\* The unlocked size check never leads to at(0) on an empty queue.
THEOREM PopSafe == Spec => []PopFindsItem
<1>1. QueueInv /\ PopInv => PopFindsItem
  BY DEF PopInv, PopFindsItem
<1> QED BY <1>1, QueueInvariance, PTL

\* A pause lets at most one more item out of the queues.
THEOREM PauseBound == Spec => []PauseAdmitsOne
<1>1. PauseInv => PauseAdmitsOne
  BY DEF PauseInv, PauseAdmitsOne
<1> QED BY <1>1, QueueInvariance, PTL

\* No item queued when a scan began is overtaken by one of lesser priority.
THEOREM PriorityRespected == Spec => []NoInversion
<1>1. ScanInv => NoInversion
  BY DEF ScanInv, NoInversion
<1> QED BY <1>1, QueueInvariance, PTL

-----------------------------------------------------------------------------
(* Where the items are.                                                    *)

Distinct == \A p \in Priority : \A j, k \in 1 .. Len(m_PriorisedQueue[p]) :
               m_PriorisedQueue[p][j] = m_PriorisedQueue[p][k] => j = k

LEMMA DistinctInvariance == Spec => []Distinct
<1>1. Init => Distinct
  BY DEF Init, Distinct
<1>2. TypeInv /\ QueueInv /\ Distinct /\ [Next]_vars => Distinct'
  <2> SUFFICES ASSUME TypeInv, QueueInv, Distinct, [Next]_vars PROVE Distinct'
    OBVIOUS
  <2> USE DEF TypeInv, TypeOK, Pointer
  <2>1. CASE PushToQueue
    <3>1. adding \in Item /\ PriorityOf[adding] \in Priority /\ adding \notin accepted
      BY <2>1, DownloaderAssumption DEF PushToQueue, QueueInv
    <3> SUFFICES ASSUME NEW p \in Priority,
                        NEW j \in 1 .. Len(m_PriorisedQueue'[p]),
                        NEW k \in 1 .. Len(m_PriorisedQueue'[p]),
                        m_PriorisedQueue'[p][j] = m_PriorisedQueue'[p][k]
                 PROVE  j = k
      BY DEF Distinct
    <3>2. CASE p # PriorityOf[adding]
      BY <2>1, <3>1, <3>2 DEF PushToQueue, Distinct
    <3>3. CASE p = PriorityOf[adding]
      <4> DEFINE q == m_PriorisedQueue[p]
      <4>1. q \in Seq(Item) /\ m_PriorisedQueue'[p] = Append(q, adding)
        BY <2>1, <3>1, <3>3 DEF PushToQueue
      <4>2. /\ Len(Append(q, adding)) = Len(q) + 1
            /\ Len(q) \in Nat
            /\ Append(q, adding)[Len(q) + 1] = adding
            /\ \A m \in 1 .. Len(q) : Append(q, adding)[m] = q[m]
        BY <3>1, <4>1
      <4>3. \A m \in 1 .. Len(q) : q[m] # adding
        BY <3>1 DEF QueueInv
      <4>4. \A m, n \in 1 .. Len(q) : q[m] = q[n] => m = n
        BY DEF Distinct
      <4>5. /\ j \in 1 .. Len(q) \/ j = Len(q) + 1
            /\ k \in 1 .. Len(q) \/ k = Len(q) + 1
        BY <4>1, <4>2
      <4> QED BY <4>1, <4>2, <4>3, <4>4, <4>5
    <3> QED BY <3>2, <3>3
  <2>2. CASE PopFront
    <3> SUFFICES ASSUME NEW p \in Priority,
                        NEW j \in 1 .. Len(m_PriorisedQueue'[p]),
                        NEW k \in 1 .. Len(m_PriorisedQueue'[p]),
                        m_PriorisedQueue'[p][j] = m_PriorisedQueue'[p][k]
                 PROVE  j = k
      BY DEF Distinct
    <3>1. CASE p # scanX
      BY <2>2, <3>1 DEF PopFront, Distinct
    <3>2. CASE p = scanX
      <4> DEFINE q == m_PriorisedQueue[p]
      <4>1. q \in Seq(Item) /\ q # << >> /\ m_PriorisedQueue'[p] = Tail(q)
        BY <2>2, <3>2 DEF PopFront
      <4>2. /\ Len(q) \in Nat \ {0}
            /\ Len(Tail(q)) = Len(q) - 1
            /\ \A m \in 1 .. Len(q) - 1 : Tail(q)[m] = q[m + 1]
        BY <4>1
      <4>3. \A m, n \in 1 .. Len(q) : q[m] = q[n] => m = n
        BY DEF Distinct
      <4>4. /\ j + 1 \in 1 .. Len(q) /\ k + 1 \in 1 .. Len(q)
            /\ q[j + 1] = q[k + 1]
        BY <4>1, <4>2
      <4>5. j + 1 = k + 1
        BY <4>3, <4>4
      <4> QED BY <4>1, <4>2, <4>5
    <3> QED BY <3>1, <3>2
  <2>3. CASE ~ PushToQueue /\ ~ PopFront
    <3>1. m_PriorisedQueue' = m_PriorisedQueue
      BY <2>3 DEF Next, Call, Dispatch, Work, CreateHTTPItem, EnterAddToQueue, Pause, Resume,
         CheckPaused, ScanHit, ScanMiss, SkipWorker, ReadNotBusy, ReadNotWaiting,
         SetItemReadsBusy, SetItemReadsWaiting, SetItemStoresWaiting, SetItemStoresItem,
         SeeItem, SetBusy, ClearWaiting, DownloadCurrentItem, DestroyHTTPItem, ClearItem,
         ClearWaiting2, ClearBusy, vars, queueVars
    <3> QED BY <3>1 DEF Distinct
  <2> QED BY <2>1, <2>2, <2>3
<1> QED BY <1>1, <1>2, TypeInvariance, QueueInvariance, PTL DEF Spec

LEMMA QueuedAfterPush ==
    ASSUME TypeInv, PushToQueue
    PROVE  Queued' = Queued \cup {adding}
<1>1. PriorityOf[adding] \in Priority
  BY DownloaderAssumption DEF TypeInv, TypeOK, Pointer, PushToQueue
<1>2. \A p \in Priority : QueueOf(p)' = QueueOf(p) \cup
                              (IF p = PriorityOf[adding] THEN {adding} ELSE {})
  BY QueueOfPush
<1> QED BY <1>1, <1>2 DEF Queued

LEMMA QueuedAfterPop ==
    ASSUME TypeInv, QueueInv, Distinct, PopFront
    PROVE  /\ currentItem' \in Queued
           /\ Queued' = Queued \ {currentItem'}
<1> USE DEF TypeInv, TypeOK
<1>1. scanX \in Priority
  OBVIOUS
<1>2. \A p \in Priority :
         /\ QueueOf(p)' \subseteq QueueOf(p)
         /\ QueueOf(p) = QueueOf(p)' \cup (IF p = scanX THEN {currentItem'} ELSE {})
  BY QueueOfPop
<1>3. \A p \in Priority : \A i \in QueueOf(p) : PriorityOf[i] = p
  BY DEF QueueInv, QueueOf
<1>4. currentItem' \in QueueOf(scanX) /\ PriorityOf[currentItem'] = scanX
  BY <1>1, <1>2, <1>3
<1>5. ASSUME NEW p \in Priority PROVE currentItem' \notin QueueOf(p)'
  <2>1. CASE p # scanX
    BY <1>2, <1>4, <1>3, <2>1
  <2>2. CASE p = scanX
    <3> DEFINE q == m_PriorisedQueue[p]
    <3>1. q \in Seq(Item) /\ q # << >> /\ m_PriorisedQueue'[p] = Tail(q)
      BY <2>2 DEF PopFront
    <3>2. /\ Len(q) \in Nat \ {0}
          /\ Len(Tail(q)) = Len(q) - 1
          /\ \A m \in 1 .. Len(q) - 1 : Tail(q)[m] = q[m + 1]
          /\ currentItem' = q[1]
      BY <2>2, <3>1 DEF PopFront
    <3>3. \A m, n \in 1 .. Len(q) : q[m] = q[n] => m = n
      BY DEF Distinct
    <3>4. \A m \in 1 .. Len(q) - 1 : m + 1 \in 1 .. Len(q) /\ m + 1 # 1 /\ 1 \in 1 .. Len(q)
      BY <3>2
    <3>5. \A m \in 1 .. Len(q) - 1 : Tail(q)[m] # currentItem'
      BY <3>2, <3>3, <3>4
    <3> QED BY <3>1, <3>2, <3>5 DEF QueueOf
  <2> QED BY <2>1, <2>2
<1> QED BY <1>1, <1>2, <1>4, <1>5 DEF Queued

\* The callback of an item has happened exactly once from its report on; a
\* worker that has deleted its item still points at it for one step.
ReportInv ==
    /\ \A i \in Item : reports[i] =
          IF \/ i \in accepted \ m_LiveHttpItems
             \/ \E w \in Worker : m_CurrentItem[w] = i /\ wpc[w] = "destroy"
          THEN 1 ELSE 0
    /\ \A w \in Worker : wpc[w] = "clearItem" => m_CurrentItem[w] \notin m_LiveHttpItems

PlaceInv == OnePlace /\ ReportInv

LEMMA PlaceInvariance == Spec => []PlaceInv
<1> USE DEF InHand, Held
<1>1. Init => PlaceInv
  BY DEF Init, PlaceInv, OnePlace, ReportInv, Queued, QueueOf
<1>2. /\ TypeInv /\ FlagInv /\ HandoffInv /\ QueueInv /\ Distinct /\ Distinct'
      /\ PlaceInv /\ [Next]_vars
      => PlaceInv'
  <2> SUFFICES ASSUME TypeInv, FlagInv, HandoffInv, QueueInv, Distinct, Distinct',
                      PlaceInv, [Next]_vars
               PROVE  PlaceInv'
    OBVIOUS
  <2> USE DEF TypeInv, TypeOK, Pointer, WorkerStep, HandHasItem, WorkerHasItem,
          Dispatching, Working, PlaceInv, queueVars, dispVars, workerVars
  <2>1. OnePlace <=>
          /\ accepted \cap m_LiveHttpItems = Queued \cup InHand \cup Held
          /\ Queued \cap InHand = {} /\ Queued \cap Held = {} /\ InHand \cap Held = {}
          /\ Distinct
          /\ \A v, w \in Worker :
                m_CurrentItem[v] = m_CurrentItem[w] /\ m_CurrentItem[v] # NoItem => v = w
    BY DEF OnePlace, Distinct
  <2>2. OnePlace' <=>
          /\ (accepted \cap m_LiveHttpItems)' = Queued' \cup InHand' \cup Held'
          /\ Queued' \cap InHand' = {} /\ Queued' \cap Held' = {} /\ InHand' \cap Held' = {}
          /\ \A v, w \in Worker :
                m_CurrentItem'[v] = m_CurrentItem'[w] /\ m_CurrentItem'[v] # NoItem => v = w
    BY DEF OnePlace, Distinct
  <2>3. m_PriorisedQueue' = m_PriorisedQueue => Queued' = Queued
    BY DEF Queued, QueueOf
  <2>4. ASSUME NEW i \in Item, CreateHTTPItem(i) PROVE PlaceInv'
    <3>1. ReportInv'
      BY <2>4 DEF CreateHTTPItem, ReportInv, QueueInv
    <3> QED BY <2>1, <2>2, <2>3, <2>4, <3>1 DEF CreateHTTPItem
  <2>5. CASE (\E i \in Item : EnterAddToQueue(i)) \/ Pause \/ Resume
    <3>1. UNCHANGED <<m_LiveHttpItems, m_PriorisedQueue, accepted, currentItem,
                      workerVars, reports>>
      BY <2>5 DEF EnterAddToQueue, Pause, Resume
    <3> QED BY <2>1, <2>2, <2>3, <3>1 DEF ReportInv
  <2>6. CASE PushToQueue
    <3>1. Queued' = Queued \cup {adding}
      BY <2>6, QueuedAfterPush
    <3>2. adding \in m_LiveHttpItems \ accepted
      BY <2>6 DEF PushToQueue, QueueInv
    <3>3. adding \notin InHand \cup Held
      BY <3>2 DEF QueueInv
    <3>4. ReportInv'
      BY <2>6, <3>2 DEF PushToQueue, ReportInv
    <3> QED BY <2>1, <2>2, <2>6, <3>1, <3>2, <3>3, <3>4 DEF PushToQueue
  <2>7. CASE PopFront
    <3>1. currentItem' \in Queued /\ Queued' = Queued \ {currentItem'}
      BY <2>7, QueuedAfterPop
    <3>2. currentItem = NoItem /\ currentItem' # NoItem
      BY <2>7, <2>1, <3>1, DownloaderAssumption DEF PopFront
    <3>3. ReportInv'
      BY <2>7 DEF PopFront, ReportInv
    <3> QED BY <2>1, <2>2, <2>7, <3>1, <3>2, <3>3 DEF PopFront
  <2>8. CASE \/ CheckPaused \/ ScanHit \/ ScanMiss \/ SkipWorker \/ ReadNotBusy
             \/ ReadNotWaiting \/ SetItemReadsBusy \/ SetItemReadsWaiting
             \/ SetItemStoresWaiting
    <3>1. UNCHANGED <<m_LiveHttpItems, m_PriorisedQueue, accepted, currentItem,
                      m_CurrentItem, wpc, reports>>
      BY <2>8 DEF CheckPaused, ScanHit, ScanMiss, SkipWorker, ReadNotBusy, ReadNotWaiting,
                  SetItemReadsBusy, SetItemReadsWaiting, SetItemStoresWaiting
    <3> QED BY <2>1, <2>2, <2>3, <3>1 DEF ReportInv
  <2>9. CASE SetItemStoresItem
    <3>1. /\ currentItem \in accepted \cap m_LiveHttpItems
          /\ currentItem \notin Queued \cup Held
      BY <2>1, <2>9 DEF SetItemStoresItem
    <3>2. ASSUME NEW v \in Worker PROVE m_CurrentItem[v] # currentItem
      <4>1. CASE wpc[v] = "clearItem"
        BY <3>1, <4>1 DEF ReportInv
      <4>2. CASE wpc[v] # "clearItem"
        <5>1. currentItem # NoItem
          BY <3>1, DownloaderAssumption
        <5>2. m_CurrentItem[v] \in Held \cup {NoItem}
          BY <4>2
        <5> QED BY <3>1, <5>1, <5>2
      <4> QED BY <4>1, <4>2
    <3>3. wpc[workerX] = "test" /\ m_CurrentItem[workerX] = NoItem
      BY <2>9 DEF SetItemStoresItem, HandoffInv
    <3>4. Held' = Held \cup {currentItem} /\ InHand' = {}
      BY <2>9, <3>2, <3>3 DEF SetItemStoresItem
    <3>5. ReportInv'
      BY <2>9, <3>1, <3>2, <3>3 DEF SetItemStoresItem, ReportInv
    <3>6. \A v, w \in Worker :
             m_CurrentItem'[v] = m_CurrentItem'[w] /\ m_CurrentItem'[v] # NoItem => v = w
      BY <2>1, <2>9, <3>2 DEF SetItemStoresItem
    <3> QED BY <2>1, <2>2, <2>3, <2>9, <3>1, <3>4, <3>5, <3>6 DEF SetItemStoresItem
  <2>10. ASSUME NEW w \in Worker,
                \/ SeeItem(w) \/ SetBusy(w) \/ ClearWaiting(w)
                \/ ClearWaiting2(w) \/ ClearBusy(w)
         PROVE  PlaceInv'
    <3>1. UNCHANGED <<m_LiveHttpItems, m_PriorisedQueue, accepted, currentItem,
                      m_CurrentItem, reports>>
      BY <2>10 DEF SeeItem, SetBusy, ClearWaiting, ClearWaiting2, ClearBusy
    <3>2. \A v \in Worker : /\ wpc'[v] = "clearItem" <=> wpc[v] = "clearItem"
                            /\ wpc'[v] = "destroy" <=> wpc[v] = "destroy"
      BY <2>10 DEF SeeItem, SetBusy, ClearWaiting, ClearWaiting2, ClearBusy, Goto
    <3>3. Held' = Held
      BY <3>1, <3>2
    <3>4. ReportInv'
      BY <3>1, <3>2 DEF ReportInv
    <3> QED BY <2>1, <2>2, <2>3, <3>1, <3>3, <3>4
  <2>11. ASSUME NEW w \in Worker, DownloadCurrentItem(w) PROVE PlaceInv'
    <3> USE <2>11 DEF DownloadCurrentItem, Goto
    <3>1. m_CurrentItem[w] \in accepted \cap m_LiveHttpItems
      BY <2>1
    <3>2. Held' = Held
      OBVIOUS
    <3>3. reports[m_CurrentItem[w]] = 0
      BY <2>1, <3>1 DEF ReportInv
    <3>4. ASSUME NEW i \in Item
          PROVE  reports'[i] = IF \/ i \in accepted' \ m_LiveHttpItems'
                                  \/ \E v \in Worker : m_CurrentItem'[v] = i /\ wpc'[v] = "destroy"
                               THEN 1 ELSE 0
      <4>1. CASE i = m_CurrentItem[w]
        BY <3>3, <4>1
      <4>2. CASE i # m_CurrentItem[w]
        <5>1. \A v \in Worker : m_CurrentItem[v] = i => wpc'[v] = wpc[v]
          BY <4>2
        <5> QED BY <4>2, <5>1 DEF ReportInv
      <4> QED BY <4>1, <4>2
    <3>5. ReportInv'
      BY <3>4 DEF ReportInv
    <3> QED BY <2>1, <2>2, <2>3, <3>2, <3>5
  <2>12. ASSUME NEW w \in Worker, DestroyHTTPItem(w) PROVE PlaceInv'
    <3> USE <2>12 DEF DestroyHTTPItem, Goto
    <3>1. m_CurrentItem[w] \in accepted \cap m_LiveHttpItems
      BY <2>1
    <3>2. Held' = Held \ {m_CurrentItem[w]}
      BY <2>1
    <3>3. ReportInv'
      BY <2>1, <3>1 DEF ReportInv
    <3> QED BY <2>1, <2>2, <2>3, <3>1, <3>2, <3>3
  <2>13. ASSUME NEW w \in Worker, ClearItem(w) PROVE PlaceInv'
    <3> USE <2>13 DEF ClearItem, Goto
    <3>1. Held' = Held
      BY <2>1
    <3>2. ReportInv'
      BY DownloaderAssumption DEF ReportInv
    <3> QED BY <2>1, <2>2, <2>3, <3>1, <3>2
  <2>14. CASE UNCHANGED vars
    BY <2>1, <2>2, <2>3, <2>14 DEF vars, ReportInv
  <2> QED
    BY <2>4, <2>5, <2>6, <2>7, <2>8, <2>9, <2>10, <2>11, <2>12, <2>13, <2>14
    DEF Next, Call, Dispatch, Work
<1> QED
  BY <1>1, <1>2, TypeInvariance, HandoffInvariance, QueueInvariance, DistinctInvariance,
     PTL DEF Spec

\* No download is lost or run twice.
THEOREM NothingLost == Spec => []OnePlace
<1>1. PlaceInv => OnePlace
  BY DEF PlaceInv
<1> QED BY <1>1, PlaceInvariance, PTL

\* A requester hears of its item once, and before the item is deleted.
THEOREM ReportsOnce == Spec => []ReportedOnce
<1>1. PlaceInv => ReportedOnce
  BY DEF PlaceInv, ReportInv, ReportedOnce
<1> QED BY <1>1, PlaceInvariance, PTL

-----------------------------------------------------------------------------
(* The downloader implements DownloadService.                              *)

LEMMA HeldBound ==
    ASSUME TypeInv
    PROVE  Cardinality(Held) \in Nat /\ Cardinality(Held) <= NumWorkers
<1> USE DEF TypeInv, TypeOK
<1>1. \A i \in Held : \E w \in Worker : m_CurrentItem[w] = i
  BY DEF Held
<1> DEFINE f == [i \in Held |-> CHOOSE w \in Worker : m_CurrentItem[w] = i]
<1>2. \A i \in Held : f[i] \in Worker /\ m_CurrentItem[f[i]] = i
  BY <1>1
<1>3. f \in Injection(Held, Worker)
  <2>1. f \in [Held -> Worker]
    BY <1>2
  <2>2. \A i, j \in Held : f[i] = f[j] => i = j
    BY <1>2
  <2> QED BY <2>1, <2>2 DEF Injection, IsInjective
<1>4. IsFiniteSet(Worker) /\ Cardinality(Worker) = NumWorkers
  BY FS_Interval, DownloaderAssumption DEF Worker
<1>5. IsFiniteSet(Held) /\ Cardinality(Held) <= Cardinality(Worker)
  BY <1>3, <1>4, FS_Injection
<1> QED BY <1>4, <1>5, FS_CardinalityType

\* Every step of the two kinds of thread is a step of the service or no step at
\* all: requests start in FIFO order per priority, are reported once, and are
\* released after the report.
THEOREM Refinement == Spec => Implements
<1>1. Init => Service!Init
  BY DEF Init, Service!Init, InHand, Held
<1>2. /\ TypeInv /\ HandoffInv /\ QueueInv /\ Distinct /\ PlaceInv
      /\ TypeInv' /\ PlaceInv' /\ [Next]_vars
      => [Service!Next]_(Service!svars)
  <2> SUFFICES ASSUME TypeInv, HandoffInv, QueueInv, Distinct, PlaceInv,
                      TypeInv', PlaceInv', [Next]_vars
               PROVE  Service!Next \/ UNCHANGED Service!svars
    BY DEF Service!svars
  <2> DEFINE active == InHand \cup Held
             released == accepted \ m_LiveHttpItems
  <2> USE DEF TypeInv, TypeOK, Pointer, queueVars, dispVars, workerVars
  <2>1. /\ accepted \cap m_LiveHttpItems = Queued \cup active
        /\ (accepted \cap m_LiveHttpItems)' = Queued' \cup active'
        /\ Queued \cap active = {}
        /\ Queued' \cap active' = {}
    BY DEF PlaceInv, OnePlace
  <2>2. m_PriorisedQueue' = m_PriorisedQueue => Queued' = Queued
    BY DEF Queued, QueueOf
  <2>3. ASSUME UNCHANGED <<m_PriorisedQueue, accepted, m_LiveHttpItems, reports>>
        PROVE  UNCHANGED Service!svars
    <3>1. active' = active
      BY <2>1, <2>2, <2>3
    <3> QED BY <2>3, <3>1 DEF Service!svars
  <2>4. ASSUME NEW i \in Item, CreateHTTPItem(i) PROVE UNCHANGED Service!svars
    BY <2>4 DEF CreateHTTPItem, Service!svars, InHand, Held
  <2>5. CASE PushToQueue
    <3>1. adding \in Item /\ adding \in m_LiveHttpItems \ accepted
      BY <2>5 DEF PushToQueue, QueueInv
    <3>2. \A p \in Priority : \A k \in 1 .. Len(m_PriorisedQueue[p]) :
              m_PriorisedQueue[p][k] # adding
      BY <3>1, SMTT(30) DEF QueueInv
    <3>3. adding \notin Service!Known
      <4>1. adding \notin active /\ adding \notin released
        BY <2>1, <3>1
      <4>2. adding \notin UNION {{m_PriorisedQueue[p][k] :
                                   k \in 1 .. Len(m_PriorisedQueue[p])} : p \in Priority}
        BY <3>2, SMTT(30)
      <4> QED BY <4>1, <4>2 DEF Service!Known, Service!Waiting
    <3>4. active' = active /\ released' = released
      BY <2>5, <3>1 DEF PushToQueue, InHand, Held
    <3>5. Service!Accept(adding)
      BY <2>5, <3>3, <3>4 DEF PushToQueue, Service!Accept
    <3> QED BY <3>1, <3>5 DEF Service!Next
  <2>6. CASE PopFront
    <3>1. InHand = {}
      BY <2>6 DEF PopFront, InHand, HandHasItem, Dispatching
    <3>2. Cardinality(active) < NumWorkers + 1
      <4>1. Cardinality(active) = Cardinality(Held)
        BY <3>1
      <4>2. Cardinality(Held) \in Nat /\ Cardinality(Held) <= NumWorkers
        BY HeldBound
      <4> HIDE DEF active
      <4> QED BY <4>1, <4>2, DownloaderAssumption
    <3>3. currentItem' = Head(m_PriorisedQueue[scanX]) /\ currentItem' # NoItem
      BY <2>6, QueuedAfterPop, <2>1, DownloaderAssumption DEF PopFront
    <3>4. active' = active \cup {currentItem'}
      BY <2>6, <3>1, <3>3 DEF PopFront, InHand, Held
    <3>5. released' = released
      BY <2>6 DEF PopFront
    <3>6. /\ m_PriorisedQueue[scanX] # << >>
          /\ m_PriorisedQueue' = [m_PriorisedQueue EXCEPT ![scanX] = Tail(@)]
          /\ reports' = reports /\ scanX \in Priority
      BY <2>6 DEF PopFront
    <3> HIDE DEF active, released
    <3>7. Service!Start(scanX)
      BY <3>2, <3>3, <3>4, <3>5, <3>6
      DEF Service!Start, active, released, Cardinality, Service!Cardinality
    <3> QED BY <3>6, <3>7 DEF Service!Next
  <2>7. CASE \/ \E i \in Item : EnterAddToQueue(i)
             \/ Pause \/ Resume \/ CheckPaused \/ ScanHit \/ ScanMiss \/ SkipWorker
             \/ ReadNotBusy \/ ReadNotWaiting \/ SetItemReadsBusy
             \/ SetItemReadsWaiting \/ SetItemStoresWaiting \/ SetItemStoresItem
             \/ \E w \in Worker : \/ SeeItem(w) \/ SetBusy(w) \/ ClearWaiting(w)
                                  \/ ClearItem(w) \/ ClearWaiting2(w) \/ ClearBusy(w)
    <3>1. UNCHANGED <<m_PriorisedQueue, accepted, m_LiveHttpItems, reports>>
      BY <2>7 DEF EnterAddToQueue, Pause, Resume, CheckPaused, ScanHit, ScanMiss, SkipWorker,
         ReadNotBusy, ReadNotWaiting, SetItemReadsBusy, SetItemReadsWaiting,
         SetItemStoresWaiting, SetItemStoresItem, SeeItem, SetBusy, ClearWaiting,
         ClearItem, ClearWaiting2, ClearBusy
    <3> QED BY <2>3, <3>1
  <2>8. ASSUME NEW w \in Worker, DownloadCurrentItem(w) PROVE Service!Next
    <3> DEFINE i == m_CurrentItem[w]
    <3> USE <2>8 DEF DownloadCurrentItem, Goto
    <3>1. i \in active /\ i \in Item
      BY DEF WorkerHasItem, Working, InHand, Held
    <3>2. active' = active
      BY DEF InHand, Held
    <3>3. reports[i] = 0
      <4>1. i \in m_LiveHttpItems
        BY <2>1, <3>1
      <4>2. \A v \in Worker : m_CurrentItem[v] = i => v = w
        BY <3>1, DownloaderAssumption DEF PlaceInv, OnePlace
      <4> QED BY <3>1, <4>1, <4>2 DEF PlaceInv, ReportInv
    <3>4. Service!Report(i)
      BY <3>1, <3>2, <3>3 DEF Service!Report
    <3> QED BY <3>1, <3>4 DEF Service!Next
  <2>9. ASSUME NEW w \in Worker, DestroyHTTPItem(w) PROVE Service!Next
    <3> DEFINE i == m_CurrentItem[w]
    <3> USE <2>9 DEF DestroyHTTPItem, Goto
    <3>1. i \in active /\ i \in Item
      BY DEF WorkerHasItem, Working, InHand, Held
    <3>2. reports[i] = 1
      BY <3>1 DEF PlaceInv, ReportInv
    <3>3. i \in accepted
      BY <2>1, <3>1
    <3>4. active' = active \ {i}
      BY <2>1, <2>2, <3>1
    <3>5. released' = released \cup {i}
      BY <3>3
    <3>6. Service!Release(i)
      BY <3>1, <3>2, <3>4, <3>5 DEF Service!Release
    <3> QED BY <3>1, <3>6 DEF Service!Next
  <2>10. CASE UNCHANGED vars
    BY <2>3, <2>10 DEF vars
  <2> QED
    BY <2>4, <2>5, <2>6, <2>7, <2>8, <2>9, <2>10 DEF Next, Call, Dispatch, Work
<1> QED
  BY <1>1, <1>2, TypeInvariance, HandoffInvariance, QueueInvariance, DistinctInvariance,
     PlaceInvariance, PTL DEF Spec, Implements, Service!Spec

=============================================================================
