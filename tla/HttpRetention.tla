---------------------------- MODULE HttpRetention ----------------------------
(***************************************************************************)
(* The downloads of one content item across restarts.                      *)
(*                                                                         *)
(* The marketplace downloads of a ContentItemNew are "retained":           *)
(* AddToQueue writes a row to the HttpQueue table, DestroyHTTPItem deletes *)
(* it when the download has ended, and the next boot reads the rows back   *)
(* and queues them again.  A download that succeeds may ask for further    *)
(* ones from inside its callback (the preview's .asx asks for the .wmv).   *)
(* Every statement on the table names the content hash, so the rows of     *)
(* other content items never meet these.                                   *)
(*                                                                         *)
(* HttpDownloader models how an item travels from AddToQueue to            *)
(* DestroyHTTPItem; here that is one Take and the worker's steps.          *)
(***************************************************************************)
EXTENDS Naturals, FiniteSets

CONSTANTS Req,        \* the requests (URLs) of the content item
          NoReq,      \* no request
          Root,       \* those BeginGetMarketPlaceInfo asks for
          Child,      \* Child[r]: what a successful r may ask for
          Worker,     \* the HTTP workers
          MaxBegins,  \* bound: how often each root is asked for
          MaxOutages, \* bound: how often the power goes off
          Env         \* which of the events of EnvEvent may happen

\* Three things that happen to a console and that a run switches on by name.
EnvEvent == {"offline boot", "profile scene", "power lost while booting"}

ASSUME RetentionAssumption ==
    /\ NoReq \notin Req
    /\ Root \subseteq Req
    /\ Child \in [Req -> SUBSET Req]
    /\ IsFiniteSet(Worker)
    /\ MaxBegins \in Nat
    /\ MaxOutages \in Nat
    /\ Env \subseteq EnvEvent

VARIABLES
    rows,      \* the HttpQueue table: how many rows each request has
    phase,     \* "off", "loading", "resuming" or "running"
    online,    \* hasInternetConnection(), fixed at boot
    resumeOn,  \* the setting ResumeAssetDownload, read at boot
    loaded,    \* ContentItemNew::httpItemQueue
    queued,    \* the copies of each request waiting in the downloader
    task,      \* what each worker runs
    begins,    \* how often each root was asked for (bounded)
    outages,   \* how often the power went off (bounded)
    \* history, read by no action:
    owed,      \* queued at some time, and not ended since
    happened   \* the events of Env that have happened

vars == <<rows, phase, online, resumeOn, loaded, queued, task, begins, outages, owed,
          happened>>

None == [r \in Req |-> 0]
Idle == [req |-> NoReq, stage |-> "idle", todo |-> {}]

Running(r)     == {w \in Worker : task[w].req = r}
Copies(r)      == queued[r] + Cardinality(Running(r))
Outstanding    == {r \in Req : Copies(r) > 0}

Init ==
    /\ rows = None
    /\ phase = "off"
    /\ online = FALSE
    /\ resumeOn = FALSE
    /\ loaded = None
    /\ queued = None
    /\ task = [w \in Worker |-> Idle]
    /\ begins = [r \in Root |-> 0]
    /\ outages = 0
    /\ owed = {}
    /\ happened = {}

\* HTTPDownloader::AddToQueue of a retained item.  Offline the item is dropped.
AddToQueue(r) ==
    IF online
    THEN /\ rows' = [rows EXCEPT ![r] = @ + 1]
         /\ queued' = [queued EXCEPT ![r] = @ + 1]
         /\ owed' = owed \cup {r}
    ELSE UNCHANGED <<rows, queued, owed>>

-----------------------------------------------------------------------------
(* Booting.                                                                *)

Boot ==
    /\ phase = "off"
    /\ phase' = "loading"
    /\ online' \in (IF "offline boot" \in Env THEN BOOLEAN ELSE {TRUE})
    /\ happened' = happened \cup (IF online' THEN {} ELSE {"offline boot"})
    /\ resumeOn' \in BOOLEAN
    /\ UNCHANGED <<rows, loaded, queued, task, begins, outages, owed>>

\* Mutant: the rows are read and not deleted.
LoadWithoutDelete ==
    /\ phase = "loading"
    /\ phase' = "resuming"
    /\ loaded' = IF resumeOn THEN rows ELSE None
    /\ UNCHANGED <<rows, online, resumeOn, queued, task, begins, outages, owed,
                   happened>>

\* Mutant: what was loaded is never resumed.
LoadWithoutResume ==
    /\ phase = "loading"
    /\ phase' = "running"
    /\ loaded' = IF resumeOn THEN rows ELSE None
    /\ rows' = IF resumeOn THEN None ELSE rows
    /\ UNCHANGED <<online, resumeOn, queued, task, begins, outages, owed,
                   happened>>

\* FSDSql::LoadContentHttpQueue, which reads the rows and deletes them.
LoadContentHttpQueue ==
    /\ phase = "loading"
    /\ phase' = "resuming"
    /\ loaded' = IF resumeOn THEN rows ELSE None
    /\ rows' = IF resumeOn THEN None ELSE rows
    /\ UNCHANGED <<online, resumeOn, queued, task, begins, outages, owed,
                   happened>>

\* One round of the loop of ContentItemNew::ResumeGetMarketplaceInfo.
\* HasObjectExpired always returns false.
ResumeGetMarketplaceInfo(r) ==
    /\ phase = "resuming"
    /\ loaded[r] > 0
    /\ loaded' = [loaded EXCEPT ![r] = @ - 1]
    /\ AddToQueue(r)
    /\ UNCHANGED <<phase, online, resumeOn, task, begins, outages, happened>>

\* Mutant: the loop of ResumeGetMarketplaceInfo stops one request early.
ResumeEndsEarly ==
    /\ phase = "resuming"
    /\ Cardinality({r \in Req : loaded[r] > 0}) <= 1
    /\ phase' = "running"
    /\ loaded' = None
    /\ UNCHANGED <<rows, online, resumeOn, queued, task, begins, outages, owed,
                   happened>>

\* The loop is over; ContentManager::Initialize goes on to scan.
ResumeEnds ==
    /\ phase = "resuming"
    /\ loaded = None
    /\ phase' = "running"
    /\ UNCHANGED <<rows, online, resumeOn, loaded, queued, task, begins, outages, owed,
                   happened>>

\* The console is switched off or a game is launched: memory is gone.
PowerOff ==
    /\ phase \in {"running"} \cup (IF "power lost while booting" \in Env
                                  THEN {"loading", "resuming"} ELSE {})
    /\ outages < MaxOutages
    /\ outages' = outages + 1
    /\ phase' = "off"
    /\ happened' = happened \cup (IF phase = "running" THEN {}
                                  ELSE {"power lost while booting"})
    /\ loaded' = None
    /\ queued' = None
    /\ task' = [w \in Worker |-> Idle]
    /\ UNCHANGED <<rows, online, resumeOn, begins, owed>>

-----------------------------------------------------------------------------
(* Running.                                                                *)

\* The content item is created, or the user refreshes its artwork: the latter
\* at any time, also while an earlier copy of the request is outstanding.
BeginGetMarketPlaceInfo(r) ==
    /\ phase = "running"
    /\ begins[r] < MaxBegins
    /\ begins' = [begins EXCEPT ![r] = @ + 1]
    /\ AddToQueue(r)
    /\ UNCHANGED <<phase, online, resumeOn, loaded, task, outages, happened>>

Take(w, r) ==
    /\ task[w] = Idle
    /\ queued[r] > 0
    /\ queued' = [queued EXCEPT ![r] = @ - 1]
    /\ task' = [task EXCEPT ![w] = [req |-> r, stage |-> "download", todo |-> {}]]
    /\ UNCHANGED <<rows, phase, online, resumeOn, loaded, begins, outages, owed,
                   happened>>

\* Mutant: the row is deleted before the callback, not after it.
DownloadCompletedAfterDelete(w, asked) ==
    /\ task[w].stage = "download"
    /\ asked \subseteq Child[task[w].req]
    /\ task' = [task EXCEPT ![w] = [req |-> @.req, stage |-> "callback", todo |-> asked]]
    /\ rows' = [rows EXCEPT ![task[w].req] = 0]
    /\ UNCHANGED <<phase, online, resumeOn, loaded, queued, begins, outages, owed,
                   happened>>

\* ContentItemNew::DownloadCompleted: an answer other than 200 asks for nothing,
\* a 200 asks for what the answer and the settings name.
DownloadCompleted(w, asked) ==
    /\ task[w].stage = "download"
    /\ asked \subseteq Child[task[w].req]
    /\ task' = [task EXCEPT ![w] = [req |-> @.req, stage |-> "callback", todo |-> asked]]
    /\ UNCHANGED <<rows, phase, online, resumeOn, loaded, queued, begins, outages, owed,
                   happened>>

FollowUp(w, c) ==
    /\ task[w].stage = "callback"
    /\ c \in task[w].todo
    /\ task' = [task EXCEPT ![w].todo = @ \ {c}]
    /\ AddToQueue(c)
    /\ UNCHANGED <<phase, online, resumeOn, loaded, begins, outages, happened>>

\* HTTPDownloader::DestroyHTTPItem after the callback: HttpQueueRemoveDownload
\* deletes every row of the same queue id, URL and content hash.
DestroyHTTPItem(w) ==
    /\ task[w].stage = "callback"
    /\ task[w].todo = {}
    /\ rows' = [rows EXCEPT ![task[w].req] = 0]
    /\ owed' = owed \ {task[w].req}
    /\ task' = [task EXCEPT ![w] = Idle]
    /\ UNCHANGED <<phase, online, resumeOn, loaded, queued, begins, outages, happened>>

\* The profile scene builds a ContentItemNew of its own for each recent game,
\* by FSDSql::LoadContentItemFromContentId, and never resumes its downloads.
ShowProfileScene ==
    /\ "profile scene" \in Env
    /\ phase = "running"
    /\ rows' = None
    /\ happened' = happened \cup {"profile scene"}
    /\ UNCHANGED <<phase, online, resumeOn, loaded, queued, task, begins, outages, owed>>

Work(w) ==
    \/ \E r \in Req : Take(w, r) \/ FollowUp(w, r)
    \/ \E asked \in SUBSET Req : DownloadCompleted(w, asked)
    \/ DestroyHTTPItem(w)

Next ==
    \/ Boot
    \/ LoadContentHttpQueue
    \/ \E r \in Req : ResumeGetMarketplaceInfo(r)
    \/ ResumeEnds
    \/ PowerOff
    \/ \E r \in Root : BeginGetMarketPlaceInfo(r)
    \/ \E w \in Worker : Work(w)
    \/ ShowProfileScene

Spec == Init /\ [][Next]_vars

-----------------------------------------------------------------------------
\* The type of every variable; httpItemQueue is empty but while it is resumed.
TypeOK ==
    /\ rows \in [Req -> Nat]
    /\ phase \in {"off", "loading", "resuming", "running"}
    /\ online \in BOOLEAN
    /\ resumeOn \in BOOLEAN
    /\ loaded \in [Req -> Nat]
    /\ phase # "resuming" => loaded = None
    /\ queued \in [Req -> Nat]
    /\ task \in [Worker -> [req : Req \cup {NoReq},
                            stage : {"idle", "download", "callback"},
                            todo : SUBSET Req]]
    /\ begins \in [Root -> 0 .. MaxBegins]
    /\ outages \in 0 .. MaxOutages
    /\ owed \in SUBSET Req
    /\ happened \in SUBSET Env

\* At any moment of a running session the power may fail without losing a
\* download: whatever was queued and has not ended is still in the table.  A
\* request leaves the table only when all it asked for has entered it.
OwedIsPersisted ==
    phase = "running" /\ happened = {} => \A r \in owed : rows[r] > 0

\* The table holds no more rows of a request than copies of it are outstanding,
\* so a download that has ended is not repeated at the next boot and a restart
\* does not multiply the rows, whatever else happened.
NoExtraRow == phase = "running" /\ resumeOn => \A r \in Req : rows[r] <= Copies(r)

\* "If there are outstanding http items, let's readd them to our queue"
\* (ContentManager.cpp:216): after a boot with the setting on, every download
\* that was outstanding when the power went off is outstanding again.
OutstandingIsResumed == phase = "running" /\ resumeOn => owed \subseteq Outstanding

\* The same where no event of Env has interfered.
QuietRestartResumes == happened = {} => OutstandingIsResumed

=============================================================================
