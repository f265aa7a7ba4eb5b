------------------------- MODULE HttpRetentionProofs -------------------------
(***************************************************************************)
(* Proofs about HttpRetention, for any set of requests, any tree of        *)
(* follow-up requests, any finite set of workers, any number of refreshes  *)
(* and power losses, and any choice of the events of EnvEvent.             *)
(***************************************************************************)
EXTENDS HttpRetention, FiniteSetTheorems, TLAPS

LEMMA TypeInvariance == Spec => []TypeOK
<1> USE RetentionAssumption DEF TypeOK, None, Idle
<1> DEFINE Task == [req : Req \cup {NoReq}, stage : {"idle", "download", "callback"},
                    todo : SUBSET Req]
<1>a. Idle \in Task
  OBVIOUS
<1>1. Init => TypeOK
  <2> HIDE DEF Task, Idle
  <2> SUFFICES ASSUME Init PROVE TypeOK
    OBVIOUS
  <2>1. task \in [Worker -> Task]
    BY <1>a DEF Init
  <2>2. rows \in [Req -> Nat] /\ loaded \in [Req -> Nat] /\ queued \in [Req -> Nat]
        /\ loaded = None
    BY DEF Init
  <2>3. begins \in [Root -> 0 .. MaxBegins] /\ outages \in 0 .. MaxOutages
    BY DEF Init
  <2>4. /\ phase \in {"off", "loading", "resuming", "running"}
        /\ online \in BOOLEAN
        /\ resumeOn \in BOOLEAN
        /\ owed \in SUBSET Req
        /\ happened \in SUBSET Env
    BY DEF Init
  <2> QED BY <2>1, <2>2, <2>3, <2>4 DEF TypeOK, Task
<1>2. TypeOK /\ [Next]_vars => TypeOK'
  <2> SUFFICES ASSUME TypeOK, [Next]_vars PROVE TypeOK'
    OBVIOUS
  <2>1. CASE Boot
    <3>1. online' \in BOOLEAN
      BY <2>1 DEF Boot
    <3>2. happened' \in SUBSET Env
      BY <2>1 DEF Boot
    <3> QED BY <2>1, <3>1, <3>2 DEF Boot
  <2>2. CASE LoadContentHttpQueue
    BY <2>2 DEF LoadContentHttpQueue
  <2>3. ASSUME NEW r \in Req, ResumeGetMarketplaceInfo(r) PROVE TypeOK'
    BY <2>3 DEF ResumeGetMarketplaceInfo, AddToQueue
  <2>4. CASE ResumeEnds
    BY <2>4 DEF ResumeEnds
  <2>5. CASE PowerOff
    <3>1. happened' \in SUBSET Env
      BY <2>5 DEF PowerOff
    <3>2. outages' \in 0 .. MaxOutages
      <4>1. outages < MaxOutages /\ outages' = outages + 1
        BY <2>5, Zenon DEF PowerOff
      <4> QED BY <4>1
    <3>3. task' \in [Worker -> Task]
      <4> HIDE DEF Task, Idle
      <4> QED BY <1>a, <2>5 DEF PowerOff
    <3>4. /\ rows' = rows /\ loaded' = None /\ queued' = None
          /\ UNCHANGED <<online, resumeOn, begins, owed>> /\ phase' = "off"
      BY <2>5, Zenon DEF PowerOff
    <3> QED BY <3>1, <3>2, <3>3, <3>4
  <2>6. ASSUME NEW r \in Root, BeginGetMarketPlaceInfo(r) PROVE TypeOK'
    BY <2>6 DEF BeginGetMarketPlaceInfo, AddToQueue
  <2>7. ASSUME NEW w \in Worker, Work(w) PROVE TypeOK'
    <3>1. ASSUME NEW r \in Req, Take(w, r) PROVE TypeOK'
      BY <3>1 DEF Take
    <3>2. ASSUME NEW r \in Req, FollowUp(w, r) PROVE TypeOK'
      <4>1. task' \in [Worker -> Task]
        BY <3>2 DEF FollowUp
      <4>2. rows' \in [Req -> Nat] /\ queued' \in [Req -> Nat] /\ owed' \in SUBSET Req
        BY <3>2, SMTT(30) DEF FollowUp, AddToQueue
      <4>3. UNCHANGED <<phase, online, resumeOn, loaded, begins, outages, happened>>
        BY <3>2 DEF FollowUp
      <4> QED BY <4>1, <4>2, <4>3
    <3>3. ASSUME NEW asked \in SUBSET Req, DownloadCompleted(w, asked) PROVE TypeOK'
      <4>1. task' \in [Worker -> Task]
        BY <3>3 DEF DownloadCompleted
      <4> QED BY <3>3, <4>1 DEF DownloadCompleted
    <3>4. CASE DestroyHTTPItem(w)
      BY <3>4 DEF DestroyHTTPItem
    <3> QED BY <2>7, <3>1, <3>2, <3>3, <3>4 DEF Work
  <2>8. CASE ShowProfileScene
    BY <2>8 DEF ShowProfileScene
  <2>9. CASE UNCHANGED vars
    BY <2>9 DEF vars
  <2> QED
    BY <2>1, <2>2, <2>3, <2>4, <2>5, <2>6, <2>7, <2>8, <2>9 DEF Next
<1> QED BY <1>1, <1>2, PTL DEF Spec

\* Every variable of the retained downloads keeps its type.
THEOREM TypeCorrect == Spec => []TypeOK
  BY TypeInvariance

-----------------------------------------------------------------------------
(* What is owed is persisted.  Between the read of the table and the end   *)
(* of ResumeGetMarketplaceInfo a request may be in httpItemQueue alone, so *)
(* the invariant counts both places; and AddToQueue writes the row only    *)
(* when the console is online.                                             *)

OwedInv ==
    happened = {} =>
        /\ phase # "off" => online
        /\ \A r \in owed : rows[r] + loaded[r] > 0

LEMMA AddToQueueOwes ==
    ASSUME TypeOK, NEW r \in Req, AddToQueue(r)
    PROVE  /\ \A q \in Req : rows'[q] >= rows[q]
           /\ online => rows'[r] = rows[r] + 1
           /\ owed' \subseteq owed \cup (IF online THEN {r} ELSE {})
  BY DEF TypeOK, AddToQueue

LEMMA OwedInvariance == Spec => []OwedInv
<1> USE RetentionAssumption DEF OwedInv, None
<1>1. Init => OwedInv
  BY DEF Init
<1>2. TypeOK /\ TypeOK' /\ OwedInv /\ [Next]_vars => OwedInv'
  <2> SUFFICES ASSUME TypeOK, TypeOK', OwedInv, [Next]_vars PROVE OwedInv'
    OBVIOUS
  <2> USE DEF TypeOK
  <2>1. CASE Boot
    BY <2>1 DEF Boot
  <2>2. CASE LoadContentHttpQueue
    BY <2>2 DEF LoadContentHttpQueue
  <2>3. ASSUME NEW r \in Req, ResumeGetMarketplaceInfo(r) PROVE OwedInv'
    <3>1. /\ \A q \in Req : rows'[q] >= rows[q]
          /\ online => rows'[r] = rows[r] + 1
          /\ owed' \subseteq owed \cup (IF online THEN {r} ELSE {})
      BY <2>3, AddToQueueOwes DEF ResumeGetMarketplaceInfo
    <3> QED BY <2>3, <3>1 DEF ResumeGetMarketplaceInfo
  <2>4. CASE ResumeEnds
    BY <2>4 DEF ResumeEnds
  <2>5. CASE PowerOff
    BY <2>5 DEF PowerOff
  <2>6. ASSUME NEW r \in Root, BeginGetMarketPlaceInfo(r) PROVE OwedInv'
    <3>1. /\ \A q \in Req : rows'[q] >= rows[q]
          /\ online => rows'[r] = rows[r] + 1
          /\ owed' \subseteq owed \cup (IF online THEN {r} ELSE {})
      BY <2>6, AddToQueueOwes DEF BeginGetMarketPlaceInfo
    <3> QED BY <2>6, <3>1 DEF BeginGetMarketPlaceInfo
  <2>7. ASSUME NEW w \in Worker, Work(w) PROVE OwedInv'
    <3>1. ASSUME NEW r \in Req, Take(w, r) PROVE OwedInv'
      BY <3>1 DEF Take
    <3>2. ASSUME NEW r \in Req, FollowUp(w, r) PROVE OwedInv'
      <4>1. /\ \A q \in Req : rows'[q] >= rows[q]
            /\ online => rows'[r] = rows[r] + 1
            /\ owed' \subseteq owed \cup (IF online THEN {r} ELSE {})
        BY <3>2, AddToQueueOwes DEF FollowUp
      <4> QED BY <3>2, <4>1 DEF FollowUp
    <3>3. ASSUME NEW asked \in SUBSET Req, DownloadCompleted(w, asked) PROVE OwedInv'
      BY <3>3 DEF DownloadCompleted
    <3>4. CASE DestroyHTTPItem(w)
      BY <3>4 DEF DestroyHTTPItem
    <3> QED BY <2>7, <3>1, <3>2, <3>3, <3>4 DEF Work
  <2>8. CASE ShowProfileScene
    BY <2>8 DEF ShowProfileScene
  <2>9. CASE UNCHANGED vars
    BY <2>9 DEF vars
  <2> QED
    BY <2>1, <2>2, <2>3, <2>4, <2>5, <2>6, <2>7, <2>8, <2>9 DEF Next
<1> QED BY <1>1, <1>2, TypeInvariance, PTL DEF Spec

\* The power may fail at any moment of a running session without losing a
\* download that was queued and has not ended.
THEOREM OwedDownloadsArePersisted == Spec => []OwedIsPersisted
<1>1. TypeOK /\ OwedInv => OwedIsPersisted
  BY DEF TypeOK, OwedInv, OwedIsPersisted, None
<1> QED BY <1>1, TypeInvariance, OwedInvariance, PTL

-----------------------------------------------------------------------------
(* No row outlives its downloads.  The boot moves the rows away before it  *)
(* queues anything, so the bound holds from then on, and not before.       *)

RowInv ==
    phase \in {"resuming", "running"} /\ resumeOn =>
        \A r \in Req : rows[r] <= Copies(r)

LEMMA RunningCount ==
    ASSUME NEW r
    PROVE  IsFiniteSet(Running(r)) /\ Cardinality(Running(r)) \in Nat
<1>1. Running(r) \subseteq Worker
  BY DEF Running
<1> QED BY <1>1, RetentionAssumption, FS_Subset, FS_CardinalityType

\* A copy that a worker takes is counted once, before and after.
LEMMA TakeKeepsCopies ==
    ASSUME TypeOK, NEW w \in Worker, NEW r \in Req, Take(w, r), NEW q \in Req
    PROVE  Copies(q)' = Copies(q)
<1> USE DEF TypeOK, Idle
<1>1. task[w].req = NoReq /\ task'[w].req = r
  BY DEF Take
<1>2. \A v \in Worker : v # w => task'[v] = task[v]
  BY DEF Take
<1>3. CASE q = r
  <2>1. w \notin Running(r) /\ Running(r)' = Running(r) \cup {w}
    BY <1>1, <1>2, RetentionAssumption DEF Running
  <2>2. Cardinality(Running(r)') = Cardinality(Running(r)) + 1
    BY <2>1, RunningCount, FS_AddElement
  <2>3. queued[r] \in Nat /\ queued[r] > 0 /\ queued'[r] = queued[r] - 1
    BY DEF Take
  <2> QED BY <1>3, <2>2, <2>3, RunningCount DEF Copies
<1>4. CASE q # r
  <2>1. Running(q)' = Running(q)
    BY <1>1, <1>2, <1>4, RetentionAssumption DEF Running
  <2>2. queued'[q] = queued[q]
    BY <1>4 DEF Take
  <2> QED BY <2>1, <2>2 DEF Copies
<1> QED BY <1>3, <1>4

LEMMA AddToQueueAddsCopy ==
    ASSUME TypeOK, NEW r \in Req, AddToQueue(r), NEW q \in Req,
           Running(q)' = Running(q), rows[q] <= Copies(q)
    PROVE  rows'[q] <= Copies(q)'
  BY RunningCount DEF TypeOK, AddToQueue, Copies

LEMMA RowInvariance == Spec => []RowInv
<1> USE DEF RowInv
<1>1. Init => RowInv
  BY DEF Init
<1>2. TypeOK /\ TypeOK' /\ RowInv /\ [Next]_vars => RowInv'
  <2> SUFFICES ASSUME TypeOK, TypeOK', RowInv, [Next]_vars PROVE RowInv'
    OBVIOUS
  <2>1. CASE Boot
    BY <2>1 DEF Boot
  <2>2. CASE LoadContentHttpQueue
    <3>1. resumeOn' => \A r \in Req : rows'[r] = 0
      BY <2>2 DEF LoadContentHttpQueue, None
    <3>2. \A r \in Req : Copies(r)' \in Nat
      <4> SUFFICES ASSUME NEW r \in Req PROVE Copies(r)' \in Nat
        OBVIOUS
      <4>1. Running(r)' = Running(r)
        BY <2>2 DEF LoadContentHttpQueue, Running
      <4> QED BY <4>1, RunningCount DEF Copies, TypeOK
    <3> QED BY <3>1, <3>2
  <2>3. ASSUME NEW r \in Req, ResumeGetMarketplaceInfo(r) PROVE RowInv'
    <3>1. \A q \in Req : Running(q)' = Running(q)
      BY <2>3 DEF ResumeGetMarketplaceInfo, Running
    <3> QED BY <2>3, <3>1, AddToQueueAddsCopy DEF ResumeGetMarketplaceInfo
  <2>4. CASE ResumeEnds
    BY <2>4 DEF ResumeEnds, Copies, Running
  <2>5. CASE PowerOff
    BY <2>5 DEF PowerOff
  <2>6. ASSUME NEW r \in Root, BeginGetMarketPlaceInfo(r) PROVE RowInv'
    <3>1. \A q \in Req : Running(q)' = Running(q)
      BY <2>6 DEF BeginGetMarketPlaceInfo, Running
    <3>2. r \in Req
      BY RetentionAssumption
    <3> QED BY <2>6, <3>1, <3>2, AddToQueueAddsCopy DEF BeginGetMarketPlaceInfo
  <2>7. ASSUME NEW w \in Worker, Work(w) PROVE RowInv'
    <3>1. ASSUME NEW r \in Req, Take(w, r) PROVE RowInv'
      <4>1. \A q \in Req : Copies(q)' = Copies(q)
        BY <3>1, TakeKeepsCopies
      <4> QED BY <3>1, <4>1 DEF Take
    <3>2. ASSUME NEW r \in Req, FollowUp(w, r) PROVE RowInv'
      <4>1. \A q \in Req : Running(q)' = Running(q)
        BY <3>2 DEF FollowUp, Running, TypeOK
      <4> QED BY <3>2, <4>1, AddToQueueAddsCopy DEF FollowUp
    <3>3. ASSUME NEW asked \in SUBSET Req, DownloadCompleted(w, asked) PROVE RowInv'
      <4>1. \A q \in Req : Running(q)' = Running(q)
        BY <3>3 DEF DownloadCompleted, Running, TypeOK
      <4> QED BY <3>3, <4>1 DEF DownloadCompleted, Copies
    <3>4. CASE DestroyHTTPItem(w)
      <4> DEFINE r == task[w].req
      <4>1. UNCHANGED <<phase, resumeOn, queued>>
        BY <3>4 DEF DestroyHTTPItem
      <4>2. \A q \in Req : q # r => rows'[q] = rows[q] /\ Running(q)' = Running(q)
        BY <3>4, RetentionAssumption DEF DestroyHTTPItem, Running, Idle, TypeOK
      <4>3. r \in Req => rows'[r] = 0
        BY <3>4 DEF DestroyHTTPItem, TypeOK
      <4>4. \A q \in Req : Cardinality(Running(q)') \in Nat
        <5>1. \A q \in Req : Running(q)' \subseteq Worker
          BY DEF Running
        <5> QED BY <5>1, RetentionAssumption, FS_Subset, FS_CardinalityType
      <4>5. \A q \in Req : queued'[q] + Cardinality(Running(q)') \in Nat
        BY <4>4 DEF TypeOK
      <4>6. ASSUME NEW q \in Req, phase' \in {"resuming", "running"}, resumeOn'
            PROVE  rows'[q] <= queued'[q] + Cardinality(Running(q)')
        <5>1. CASE q = r
          <6>1. rows'[q] = 0
            BY <4>3, <5>1
          <6>2. \A n \in Nat : 0 <= n
            OBVIOUS
          <6> QED BY <4>5, <6>1, <6>2
        <5>2. CASE q # r
          BY <4>1, <4>2, <4>6, <5>2 DEF Copies
        <5> QED BY <5>1, <5>2
      <4> QED BY <4>6 DEF Copies
    <3> QED BY <2>7, <3>1, <3>2, <3>3, <3>4 DEF Work
  <2>8. CASE ShowProfileScene
    <3>1. \A r \in Req : rows'[r] = 0
      BY <2>8 DEF ShowProfileScene, None
    <3>2. \A r \in Req : Copies(r)' = Copies(r)
      BY <2>8 DEF ShowProfileScene, Copies, Running
    <3>3. \A r \in Req : Copies(r) \in Nat
      BY RunningCount DEF Copies, TypeOK
    <3> QED BY <3>1, <3>2, <3>3
  <2>9. CASE UNCHANGED vars
    BY <2>9 DEF vars, Copies, Running
  <2> QED
    BY <2>1, <2>2, <2>3, <2>4, <2>5, <2>6, <2>7, <2>8, <2>9 DEF Next
<1> QED BY <1>1, <1>2, TypeInvariance, PTL DEF Spec

\* The table has no row of a download that has ended, and restarts do not
\* multiply the rows.
THEOREM NoRowTooMany == Spec => []NoExtraRow
<1>1. RowInv => NoExtraRow
  BY DEF RowInv, NoExtraRow
<1> QED BY <1>1, RowInvariance, PTL

\* After a boot that nothing interfered with, every download that was
\* outstanding when the power went off is outstanding again.
THEOREM RestartsResume == Spec => []QuietRestartResumes
<1>1. TypeOK /\ OwedIsPersisted /\ NoExtraRow => QuietRestartResumes
  <2> SUFFICES ASSUME TypeOK, OwedIsPersisted, NoExtraRow, happened = {},
                      phase = "running", resumeOn, NEW r \in owed
               PROVE  r \in Outstanding
    BY DEF QuietRestartResumes, OutstandingIsResumed
  <2>1. r \in Req /\ rows[r] \in Nat /\ rows[r] > 0 /\ rows[r] <= Copies(r)
    BY DEF TypeOK, OwedIsPersisted, NoExtraRow
  <2>2. Copies(r) \in Nat
    BY <2>1, RunningCount DEF Copies, TypeOK
  <2> QED BY <2>1, <2>2 DEF Outstanding
<1> QED BY <1>1, TypeInvariance, OwedDownloadsArePersisted, NoRowTooMany, PTL

=============================================================================
