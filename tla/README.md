# A TLA+ model of Freestyle Dash

Freestyle Dash is a replacement dashboard for the Xbox 360: one C++ program
(`src/Freestyle`) with a XUI user interface over a few dozen singletons, most of
which own a thread. It has no tests. This directory holds TLA+ modules of the
parts whose correctness depends on how those threads, the database and power
losses interleave, the TLC configurations that check them on small instances,
and TLAPS proofs for every instance.

Source paths below are relative to `src/Freestyle/Tools/` unless they start with
`Scenes/`. `PROJECT.json` maps every definition to its lines.

## 1. The system

| Component | State it keeps | Operations | Interacts with |
|---|---|---|---|
| HTTP downloader (`HTTP/`) | one vector of items per priority under a critical section; `paused`; per worker `m_IsBusy`, `m_WaitingToStart`, `m_CurrentItem`; the live items | CreateHTTPItem, AddToQueue, Pause, Resume, the dispatcher loop, the worker loop, tick | called by every component that downloads; calls requesters back on a worker thread; writes `HttpQueue` rows |
| Retained downloads (`ContentList/ContentItemNew.cpp`, `SQLite/FSDSql.cpp`) | the `HttpQueue` table; per content item the rows read at boot | BeginGetMarketPlaceInfo, DownloadCompleted and what it asks for, LoadContentHttpQueue, ResumeGetMarketplaceInfo | downloader, content manager's boot, profile scene |
| HTTP client (`HTTP/Base`) | a socket per item | ExecuteItem | worker |
| File operations (`Managers/FileOperation`) | a vector of operations, `m_Paused`, a pointer to the running one | Add*Operation, DoWork, EmptyQueue, isDone, the worker loop | file browser, DVD copy, title updates, options |
| Texture pipeline (`GameContent/QueueThreads`, `WorkerThreads`, `Texture/TextureItem`) | four queues with workers; per texture three states and a reference count | AddToQueue, Startup, Pause, TerminateAll, load, release | game list |
| Game list and callbacks (`GameContent`, `Managers/GameList`) | list of items, two message queues and threads | attach, detach, content messages | content manager, textures, interface |
| Content manager (`ContentList/ContentManager.cpp`) | content items, observers, function queue | boot, scan, add, remove, observers | database, extractor, downloader, game list |
| Timers (`Managers/Timers`) | observers with interval and last run | add, remove, the loop | everything that ticks |
| Title updates, auto updater | request counts and maps per batch, files on disk | start, completion callbacks, install | downloader, file operations |
| FTP server (`FTP/`) | per connection a login, path, rename and transfer state; a writer thread with one buffer | the FTP commands, the writer loop | file system |
| Copy threads, XLink Kai, monitors, managers, formats, scenes | various | various | see `PROJECT.json`, "components" |

What makes it hard: almost no data shared between threads is locked; handoffs go
through plain flags; queues are tested outside the lock that protects them; the
`HttpQueue` table has to survive power losses at any statement; batches are
counted in callbacks that may come before the count. `PROJECT.json`, "hazards",
lists each such place with its line and the properties that cover it.

What correctness means, per component:

- **Downloader**: nothing accepted is lost, run twice or reported twice; the
  handoff never overwrites a busy worker; FIFO per priority and no inversion in a
  round; Pause takes effect after at most one more item; everything ends.
- **Retention**: what is owed is in the table whenever power may fail; what has
  ended is not; a restart resumes exactly the outstanding downloads.
- **File operations**: each is carried out once, in order, unless cancelled; a
  cancel does not take later operations with it; a batch that was started ends.
- **Textures**: an item's count is the number of its users; no use after release,
  nothing forgotten unfreed, no worker held for ever, shutdown with nobody inside.
- **Game list**: no message about a deleted item is handled; attach after detach
  starts clean.
- **Timers**: only registered observers are called, each about once per interval.
- **Title updates, updater**: one completion per batch, after its last answer.
- **Installer**: whatever is interrupted, a whole copy of the dashboard is on the
  disk; a broken file is installed again or the user knows; no boot loop.
- **FTP**: a command acts on the state its predecessor left, and nothing older; an
  upload arrives complete, in order, and is closed after its last byte.

## 2. The modules

| Module | What it is |
|---|---|
| `DownloadService` | abstract: what the downloader promises its callers |
| `HttpDownloader` | the downloader, step by step, and the refinement `Implements` |
| `MCHttpDownloader` | its TLC instances |
| `HttpDownloaderProofs` | TLAPS proofs about `HttpDownloader` |
| `HttpRetention` | the downloads of one content item over restarts |
| `MCHttpRetention` | its TLC instances |
| `HttpRetentionProofs` | TLAPS proofs about `HttpRetention` |
| `FileOperations` | the file operation queue, its worker, its callers and the cancel |
| `MCFileOperations` | its TLC instances |
| `FileOperationsProofs` | TLAPS proofs about `FileOperations` |
| `TexturePipeline` | texture items, the four queues, their workers and those who ask |
| `MCTexturePipeline` | its TLC instance |
| `TexturePipelineProofs`, `TextureDataProofs` | its proofs: types and counts, then what the counts protect |
| `FtpSession` | one FTP session and the writer thread of its upload |
| `MCFtpSession`, `FtpSessionProofs` | its TLC instances and its proofs |
| `UpdateInstaller` | the installer of updates, its files and the power |
| `MCUpdateInstaller`, `UpdateInstallerProofs` | its TLC instance and its proofs |

### HttpDownloader

The variables have the names of the fields. One action per access of a shared
field, since nothing but the queues is locked:

- callers (any thread): `CreateHTTPItem`, `EnterAddToQueue` / `PushToQueue` (the
  critical section of AddToQueue), `Pause`, `Resume` (the debug commands HTTPPause
  and HTTPResume, and `Application/FreestyleApp.cpp:115`);
- the dispatcher, `HTTPDownloader::Process`: `CheckPaused`, `ScanHit`, `ScanMiss`,
  `PopFront`, then the two reads of `IsBusy()` (`ReadNotBusy`, `ReadNotWaiting`,
  `SkipWorker`), then `SetItem`: the two reads again and the two stores;
- a worker, `HTTPWorker::Process`: one action per line 80 to 97.

`ScanHit` may succeed on a queue another thread is in the middle of pushing to,
because `size()` is read without the lock. `HTTP_PRIORITY_INSTANT` (5), beyond the
last queue, is given to no item in the repository, and each item is queued by its
creator once. The offline branch of AddToQueue (nothing happens) is modelled in
`HttpRetention`. All the threads run on hardware thread `CPU2_THREAD_2`, so
accesses interleave in program order; that the compiler keeps the order of the
plain stores is assumed.

Not in it: `tick()` and the byte counters behind the status text,
`DebugListDownloadQueue` (a debug print whose inner loop increments the wrong
variable), and the HTTP exchange, one step.

### HttpRetention

One content item: every statement on `HttpQueue` names its content hash, so items
do not meet. `Boot`, `LoadContentHttpQueue`, `ResumeGetMarketplaceInfo`,
`ResumeEnds` are the boot in the order of `ContentManager::Initialize`;
`BeginGetMarketPlaceInfo` the creation of the item or a refresh; `Take`,
`DownloadCompleted`, `FollowUp`, `DestroyHTTPItem` a worker; `PowerOff` may come
after any of them. `Take` abstracts the downloader to an unordered bag: it may
start any queued request, so what holds here holds for every queue order. Three
events are switched on by name (`Env`): a boot without a connection, the profile
scene, and power lost while booting; `happened` records them. The history
variable `owed` is the requests queued and not ended since.

### FileOperations

`FileOperationManager` has no lock at all. A caller pushes operations
(`QueueFileOperation`, into which every Add...Operation ends), starts the worker
(`DoWork`, whose loop is `SumTest` and `SumRead`), and the scenes' thread cancels
(`EmptyQueue`, `EmptyQueueTestsSize`, `CancelCurrent`, `ClearQueue`). The worker's
loop is `TestSize` to `PauseWorker`, one action per access of the vector,
`m_Paused` or `m_currentItem`. Meanwhile the scenes poll its progress: a getter tests
`m_currentItem` (`GetterTests`) and then uses it (`GetterReads`), by which time the worker
may have erased the operation or stored NULL; a caller at `stale` holds a pointer to what
is no longer there. `m_currentItem` is a pointer to the vector's first
slot; `cap` is the vector's capacity, because a push into a full vector moves the
elements and leaves the pointer behind. A throwing `at()`, a NULL pointer or an
erase of an empty vector ends the program (`Crash`); using a freed or destroyed
operation may or may not.

Abstractions: a call of a vector method is one step (two at once would be
undefined; what holds here is the best case). `FileOperation::Process` is one step
from the queue's point of view: it returns, having done, failed or been cancelled.
The sizes behind the progress bar are left out. A getter may read the pointer once or
twice, as it is compiled, and what it reads through a stale one is or is not a crash. `isDisposed` is set only as the program
exits. `ScnFileBrowser` calls `Terminate()` when a batch is done; the loop does not
look at the flag, so the thread goes on, and nothing in the model changes.

### TexturePipeline

A box art is loaded by FileWorker (its file) and TextureWorker (texture and brush),
an icon by TextureWorker alone, a screenshot or a refreshed art by FileTexWorker; a
ReleaseWorker frees what is deselected. A thread's place, item, the count it has read
and the buffer it holds are its record in `th`; `item` is what a TextureItem stores
and `heap` what is allocated for it, so that a buffer freed while held, or forgotten
while allocated, can be seen. The count is a plain integer: `AddRef` is a read
(`ReadCount`) and a write, `Release` a test (`TestCount`), a read and a write, so that two
drops at once can take it to -1. `owned` (history) counts the references of the list or the
selection.

The loader's thread asks for art (`LoadAsset`, `NoAsset`, `Refresh`), the screen's
moves the selection (`Select`, `Leave`, `ShowNext`, `QueueShot`). `faults` records, per
item, what the code does not expect: asked for while still busy (`overlap`), two
changes of a count at once (`torn`), the last reference gone between a worker's test
and its AddRef (`late`), an update of it handled before its LoadAssets message (`early`),
no brush (`brush`), an empty file (`empty`). The properties
name the faults they exclude, and with TLC each exclusion was found necessary
(`ShownStaysShown` needs only the first; `overlap` in `LoadsEnd` takes an art or icon that is
`Hasty`, and in `DeselectedIsFreed` a fourth move of the selection): the code does

- forget the texture of a game that is left and selected again before ReleaseQueue has
  freed it (`overlap`);
- lose a count, and with it a release, when two threads change it at once (`torn`);
- free an item FileTexWorker has begun to fill, because it tests the count at
  `FileTexWorker.cpp:123` and counts itself at line 33 (`late`);
- forget the file buffer when a brush cannot be attached (`TextureWorker.cpp:71`);
- load an item a second time over what an update has loaded, when the update is handled
  first: the list holds two references from then on (`early`);
- keep one of the five TextureWorkers for ever for an empty file or icon;
- keep a ReleaseWorker with the entry of a shot that was selected again, for as long as it
  is selected, and with the only worker everything queued behind it. Each leave queues one
  more entry. `DeselectedIsFreed` promises a release as long as one ReleaseWorker is not
  kept so (`KeepsReleaseWorker`).

Abstractions: a method of TextureItem other than AddRef and Release is one step; the
dispatcher and a free worker meet in one step (the handoff itself is the one
`HttpDownloader` has access by access). FileTexQueue's dispatcher alone looks at the item
between popping it and finding a worker (`PopFileTex`, `DispatchFileTex`), so what it holds
(`hand`) is a state of its own; the others' wait for a worker is not told from the queue.
The screen reads an item's brush handle and then draws with it; that read is not modelled,
and `ShownIsLive` speaks of the handle that the item holds. `BumpPriority` lets icons overtake: only their
brush state is the one the screen looks for. Not in it: Pause, TerminateAll and detaching
the list, static textures, ScreenshotManager, the background (which is loaded as a shot
is, the new one before the old one is left), and two calls at once on the unlocked
vectors of FileQueue and TextureQueue.

### FtpSession

The session is `CFTPServerConn::Process`: `Prompt` looks at the server's switch, then one
action per kind of command. `NewPath` is one string of the loop that half of the commands
store into; `rnfr` (history) is what an immediately preceding RNFR named. An upload is
`Cmd_STOR` access by access (`Connect` to `Terminate`) against the writer's loop
(`Start` to `Leave`), sharing `done`, `loopRunning`, `waitingForBytes`, the buffer and the
file without a lock. `ToggleServer` is the settings scene; a writer that starts while the
server is off returns at once. A byte is a number; a chunk is where it begins and its size.

Abstractions: names and passwords, PASV and PORT data, and the reply texts; a command
that changes nothing here is one step. The result of fwrite is ignored by the code; `short`
records such a failure. The two threads run on different hardware threads; that plain
stores are seen in the order of the code is assumed.

Terminate waits half a second for the writer's thread and goes on, and the FTPFileWriter, a
local of Cmd_STOR, is gone whatever the thread does. `Terminate` therefore does not wait in
the model at all, and `outlived` (history) records a thread that was still about. From then
on `Stray` does what such a thread may do to whatever stands in the place of its object: it
changes the flags of the next upload, writes to its file, or ends the program. The properties
speak of the time before, and `WritesOnlyWhileOpen` says when it can come to that: only with
the writer of an upload that handed nothing over, which Close does not wait for if it has not
marked its loop as running.

### UpdateInstaller

`files` holds the dashboard's executable, its `.old` and `.delete_me`, the `default.xex` the
zip carries, a skin and a plug-in, each absent, broken or a version; `temp` the zips. `at` is
the place in `RunInstaller`, from the dump of the font on (`DumpFont`, `NoFont`); `PowerOff` may come at any of them and `Boot` reads the saved
InstallerState. Every file operation of `InstallDashUpdate` is a step of its own, with its
failure: `StartCopy`/`EndCopy`, `Rename`, `Open`, `StartExtract`/`Extract`, `Unlink`, `Delete`,
`Swap`. `ignored` records the failures whose results the code drops, `told` what the screen said,
`excused` the broken files that the user was told to update manually, or whose short write or
rename no result showed. `interrupted` are the files that were not whole when the installer
stopped at work: if the user leaves its next start with Back (`GiveUp`), InstallerState is reset
and nothing is said of them. `BrokenIsKnown` names that case, the only one in which a broken file is
neither to be written again, nor known to the user, nor beyond notice.

A file that cannot be opened is not a power cut: `Dies` is the crash on the null FILE, of the font's
file, of an entry whose folder is missing or which is in use (a zip that is `stuck`), or of the
running executable that could not be moved away. It needs no budget. The installer then dies at every start
with InstallerState still 1 until the user presses Back (which a font that cannot be opened does not
allow) or the cause goes away. `InstallerEnds` excludes it by name (`DiesAtEveryStart`): that boot
loop is in the code, and everything else ends.

What the exceptions of the properties say about the code: if the disk is full both the backup
and the extracted file are cut short, the CRC (of what was read, not written) is right, and no
whole dashboard is left; if the zip does not open after the executable was moved away there is
nothing to boot until the user copies one back; a zip that could not be deleted is installed again
with the next update, over what is there; a `.delete_me` left over makes the next move fail, and the
update is reported completed without being installed when the executable is not `default.xex`.

A skin's or plug-in's many files are one file. An LZX entry never ends in the code
(`sizeLeft` is not decreased, `PKZip/PkZip.cpp:186`), so the zips are stored ones. The
download that leads to `Schedule` is external: the published source has no URL.

## 3. The runs

| Run | Bounds | What it shows |
|---|---|---|
| `HttpDownloader` | 2 workers, 2 priorities, 4 items (2 each), Pause and Resume at any time; symmetry over the items of a priority | the safety properties and `Implements` |
| `HttpDownloaderLive` | 2 workers, 3 items | the liveness properties |
| `HttpRetention` | a chain of 3 requests, 2 workers, 2 refreshes, 2 power losses, every event | the table never misses and never exceeds what is outstanding |
| `HttpRetentionProfile` | chain of 2, 1 worker | a counterexample (finding) |
| `HttpRetentionOffline` | chain of 2, 1 worker | a counterexample (finding) |
| `FileOperations` | 2 callers, 3 operations, 2 cancels, getters at any time | the safety properties and `QueueDrains` |
| `FileOperationsCancel` | 2 callers, 2 operations, 1 cancel | a counterexample (finding) |
| `FileOperationsFinish` | 2 callers, 2 operations, no cancel | a counterexample (finding) |
| `TexturePipeline` | 1 art, 1 icon, 3 shots (one of a game without an asset), one worker of each kind, 3 requests or failures, at most 1 failure | safety, `ShownStaysShown`, `LoadsEnd`, `DeselectedIsFreed` |
| `FtpSession` | 1 path, 5 bytes in chunks of 2, the switch twice | safety and `StoreEnds` |
| `FtpSessionRename` | 2 paths, no upload to speak of | a counterexample (finding) |
| `UpdateInstaller` | dashboard and skin, 2 updates, 2 failed calls, 1 power cut in the installer | safety and `InstallerEnds` |

Bounds. Two workers and three items are the least with which one item waits in a
queue, one in the dispatcher's hand and both workers are busy; the fourth item
gives two items to both priorities, for FIFO and inversion at once. The handoff
concerns one worker at a time. The proofs cover all other values. For the
retention, two refreshes give two outstanding copies of one request, and two
power losses a restart of a restart; `MaxBegins` and `MaxOutages` are the only
bounds in guards (rows can multiply over endless crashes: a resumed request asks
again for follow-ups that were resumed as well).

Properties of `HttpDownloader`:
`OnePlace` (nothing lost, nothing twice), `SetItemFindsIdleWorker`,
`PopFindsItem`, `PauseAdmitsOne`, `NoInversion`, `ReportedOnce`, `Implements`;
`EveryDownloadEnds`, `WorkersComeBack`.

Properties of `HttpRetention`:
`OwedIsPersisted` (power may fail at any moment of a session), `NoExtraRow`,
`QuietRestartResumes`; `OutstandingIsResumed` fails, twice:

- the profile scene reads content items with the function that also deletes their
  rows, and forgets the downloads of the games played last;
- a boot without a connection deletes the rows it loads and re-adds nothing.

The comment at `ContentList/ContentManager.cpp:216` says outstanding items are
re-added. A third hole is in the model and excluded by name from the properties:
rows are deleted as they are loaded and inserted again one by one, and power may
be lost in between.

For the file operations, three operations are one that runs, one that is skipped in
its place and one behind, with the capacity growing at each push; two cancels are a
cancel of a queue that is already paused. `MaxOps` and `MaxCancels` are the bounds
in guards. Its runs do not check deadlock, because a crash ends the program; the
two `HttpRetention` counterexample runs do not either, because an idle console whose
bounds are spent does nothing more.

Properties of `FileOperations`: `OneSkipPerCancel`, `FirstComeFirstServed`,
`DoneIsDone`, `CancelAdmitsOne`, `CleanBatchesNeverFault`, `QueueDrains`. Two things
the comments say do not hold:

- `OnCancelQueueIsCleared`: an operation queued while a cancelled one is still
  returning is erased in its place (`FileOperationManager.h:194`).
- `PausesOnlyWhenFinished`: an operation queued and started between the worker's
  two reads is left behind by a worker that pauses itself (line 213). `ScnWait`
  then waits for ever.

`CleanBatchesNeverFault` delimits the crashes: all of them need a cancel, a
caller that pushes or calls DoWork while the worker is switched on, or a polling getter
whose operation was erased between its test and its use, or before its test with the
pointer not yet forgotten (`StaleGetter`). The last happens in a batch that nobody disturbs.

Fairness of `FileOperations`: weak fairness of the worker and of a caller that is
inside DoWork, EmptyQueue or a getter (threads that only sleep), and that Process returns.
None of callers that might push, start, cancel or poll.

Fairness (`HttpDownloaderLive`): weak fairness of the dispatcher, of each
worker and of a caller inside the critical section. Each is a thread that never
waits for an event, only sleeps, so the kernel runs it again; ExecuteItem is
assumed to return (sockets have timeouts; an endless 302 chain is a listed
hazard). No fairness is assumed of callers, and `EveryDownloadEnds` is conditional
on the downloader staying resumed.

Textures: one worker of each kind is enough for every pair of threads to meet on one
item, since each kind has its own place in an item's life; three requests are a load, a
reselection and a third that meets both. Two shots have an asset, so that a release can queue
behind another, and with one ReleaseWorker a kept one blocks it; the third is where the
selection may rest. `Budget` (how often the loader asks, how often the selection moves, how many
steps fail) and `Hasty` (which items may be asked for while busy) are the bounds in guards. `MCBudget`
allows three in all, one failure, and one move of the selection if the list asks for anything: the
items of the list and the shots meet in the queue and the worker of FileTexQueue only. Weak fairness
of every thread: they poll. None of requests. The run visits 484,014 states in about three minutes.

FTP: five bytes in chunks of two are two full chunks and a short one, received in any
portions; the second toggle is a server switched on again under a waiting session; a thread
that outlives its FTPFileWriter meets the next upload on the same path.
`MaxBytes` and `MaxToggles` are the bounds. Weak fairness of the upload's and the
writer's steps: both threads only sleep, and the client sends, hangs up or resets (there
is no receive timeout: a client that stays silent holds its session). `accept` is not
promised. `RenameFollowsRnfr` fails: the comment at `FTP/FTPServerConn.cpp:278` is not
what the code does.

Installer: the second update meets what the first has left behind, two failed calls are
the fewest that lose every copy, and a power cut may fall between any two steps.
`MaxUpdates`, `MaxFailures`, `MaxCuts` are the bounds; the power may also fail any number
of times outside the installer. That the power fails in the installer only so often is an assumption of
`InstallerEnds` (power that fails at every start ends nothing); the crash on a file is not bounded by it. Weak fairness: the program's next step, the user's
answer, and that the console is switched on again. A third part, the plug-in, is
installed as the skin is. These three runs do not check deadlock: once the bounds are
spent, the session closed or the executable gone, nothing more need happen.

Every property of a passing run has a mutant: a definition next to the one it
mutates ("Mutant: ..."), under which TLC finds the property violated.

## 4. The proofs

`HttpDownloaderProofs` proves, for every set of items, number of workers and
number of priorities (`DownloaderAssumption`): `TypeCorrect`, `HandoffSafe`,
`PopSafe`, `PauseBound`, `PriorityRespected`, `NothingLost`, `ReportsOnce` and
`Refinement`, each for a property of the run `HttpDownloader`.

The argument is layered; each layer assumes the ones before it.

1. `TypeInv`: the types of the variables.
2. `FlagInv` ties a worker's flags to its program counter: idle means no item or
   an item just handed over, and `m_IsBusy` holds from `SetBusy` to `ClearBusy`.
   `HandoffInv` says what the dispatcher knows after each read. This is needed
   because `SetItemFindsIdleWorker` is not inductive: between the two reads of
   `IsBusy()` the worker may move, and only in one direction.
3. `QueueInv`, `PopInv`, `ScanInv`, `PauseInv`: the queues hold live accepted
   items of their priority; what the scan has passed; the pause counter against
   the dispatcher's position.
4. `Distinct`: no item twice in the queues. `PlaceInv`: queues, dispatcher's hand
   and workers are disjoint and cover the accepted items that live. It gives
   `OnePlace` and `ReportedOnce`.
5. `Refinement`: each step maps to `Accept`, `Start`, `Report`, `Release` or a
   stutter; `HeldBound` gives the capacity, one per worker and one in the hand.

`FileOperationsProofs` proves, for every set of callers and all bounds
(`FileOperationsAssumption`): `TypeCorrect`, `CancelBound`, `InOrder`, `SkipBound`,
`DoneIsProcessed`, `NoFaultInCleanBatches` (polling getters included), that is, every invariant of its passing
run. The argument:

1. `OrderInv` and `JobInv`, together: the vector is increasing and holds all that
   waits; whatever in it does not wait is the operation in the worker's hands, at
   the front.
2. `SkipInv` makes `OneSkipPerCancel` inductive: the skipped operations, plus one
   if the operation in the worker's hands has been cleared away, plus one if a
   cancel is in progress, are at most the cancels. The erase of a wrong operation
   turns the second into the first; a clear turns the third into the second.
3. `LateInv`: nothing has started late when the worker is about to take.
4. `CleanInv`: with no cancel, the worker is switched on from take to erase, and a
   caller inside DoWork meanwhile overlaps; so the index it holds stays valid. A getter
   that is not stale holds a pointer to an operation that is there: whoever erases, clears
   or moves the first slot makes it stale.

`HttpRetentionProofs` proves, for every chain of requests, finite set of workers and all
bounds: `TypeCorrect`, `OwedDownloadsArePersisted`, `NoRowTooMany` and `RestartsResume`, every
invariant of its run. The invariant ties the rows of the table to the queue, the workers and
what a boot has still to resume, phase by phase of the boot.

`FtpSessionProofs` proves, for every set of paths, chunk size and bounds: `TypeCorrect`, `OneOwner`,
`InOrder`, `Complete`, `NoWriteAfterClose`. The argument follows the buffer: `waitingForBytes`
says whose it is, given where the two threads stand; what was received is the sum of what is
stored, buffered, and still with the session. All of it is conditional on no thread having
outlived its FTPFileWriter; `NoWriteAfterClose` shows that a writer that was given anything has
ended when Terminate begins to wait, so only an upload that handed nothing over can break it.

`TexturePipelineProofs` proves, for any items, any number of workers and all bounds:
`TypeCorrect` and `CountCorrect`. The invariant says which items may be in which queue and
with which worker (`Loadable`), and that whoever is about to release has read a count above
0 exactly if it has a reference (`SeenInv`): without it a write of a stale count could
undercut the users.

`TextureDataProofs` goes on from there to what the counts are for: `DataLive`, `ShownLive`,
`NoLeak` and `ShownStays`, for any items, workers and bounds. The invariant `DataInv` says,
of every item by itself (`Good`), what its buffers are in each state of its life:

1. `Pointers`, always: what an item points to is in the heap, and no two of its pointers are
   to the same thing.
2. `Exclusive`, unless the item was asked for while it was busy: it is at most once in each
   queue or with that queue's workers, never in a first load and a refresh at once; the
   loader, or the screen that asks for it, has it alone; what has an owner is not released;
   an item whose LoadAssets message is waiting is untouched, or updated early.
3. `Loads`, `Releases`, `Shown`, `Kept`, while the item is calm (none of the faults `overlap`,
   `torn`, `late`): what a load has made so far and still holds; that a release runs only with
   no user left; that the brush and the texture of a loaded item exist; and that the heap
   holds nothing but what the item points to.

A step changes the item of one thread, so the proof has one lemma per action about that
item, and one lemma (`OneItem`, with `Untouched`) for all the others. The count enters in
one place only: memory is freed at a count of 0, where `CountIsRight` says that nobody
uses the item. `ShownStays` falls out of the same step lemmas (`Stays`). The faults that the
properties except are those the code really has; the hazards list says where.

`UpdateInstallerProofs` proves, for any number of updates, failures and power cuts, and any
of the three parts: `TypeCorrect`, `CopySurvives`, `BrokenKnown`. Every part still to do has its
zip (`ZipInv`); which copy is whole at which step (`Backup`); which file may be broken without
an excuse at which step, namely those still to do (`Progress`), those of an interrupted run
that is to be begun anew, and after Back the latter for good.

`UpdateInstalled` needs a history: of every part of the latest update, as long as nothing
but the backup and the deletion of a zip has failed unseen, `Installing` says that its zip is still in TEMP, or its
file is in place, or (the dashboard's) the extracted `default.xex` is about to be swapped in.
A part leaves the list only with its file in place, or with `failed` set, which is what
the screen reports.

Two theorems give the measures on which liveness rests; the fairness that turns them into
`~>` is left to TLC. `InstallerAdvances`: twelve for every part left, plus the rank of the
place within a part, falls with every step of `RunInstaller` and every key pressed.
`WorkerAdvances`: while the file operation worker is switched on and the vector is not
empty, its own steps bring it closer to the erase of the front, whatever callers do.

The inductive invariants were first checked by TLC. Constants are assumed to be what the
modules' named assumptions say: finite sets of workers, natural bounds, kinds that do not
overlap.

Every invariant of a passing run, `ShownStaysShown` and the refinement `Implements` are
proved. Only model-checked: the liveness properties (`EveryDownloadEnds`, `WorkersComeBack`,
`QueueDrains`, `LoadsEnd`, `DeselectedIsFreed`, `StoreEnds`, `InstallerEnds`), because
fairness and ENABLED are outside the prover. The five counterexample runs show properties
that do not hold.

## 5. Plan

In order; each module gets its proofs where its invariant is worth one.

1. Done: `DownloadService`, `HttpDownloader`, `HttpRetention`, with proofs.
2. Done: `FileOperations` with proofs. Left: the two halves of a move (copy, then
   unlink of whatever operation is in the slot by then).
3. Done: `TexturePipeline` with proofs. Left: Pause, TerminateAll
   and Startup.
4. Done: `FtpSession` with proofs. Left: the accept loop and several sessions.
5. Done: `UpdateInstaller` with proofs.
6. `GameListCallbacks`: content and loader queues, attach and detach; composed
   with the texture pipeline for the lifetime of list items.
7. `TimerManager` with the downloader's tick and status.
8. Copy threads, the Kai client.

## 6. Not modelled

Sequential code without shared state (parsers, XEX and container readers, crypto,
skins, XZP, feeds), device access (SMC, drives, DVD tray), scenes beyond the calls
they make, vendored code (`src/Libs`, SQLite, ftplib, the embedded HTTP server's
connection layer). The components with status `not_modelled` in `PROJECT.json`
say which of these they are, or that they are planned.

Two planned batches turned out to be out of reach of the published source: the updater's
download (`AutoUpdater.cpp:98` returns NULL and its caller dereferences it), and the title
updates' (`addTUDownload` does nothing). They stay unmodelled. The content callbacks, timers,
copy threads and the Kai client are planned and not modelled yet.
