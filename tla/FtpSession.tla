------------------------------ MODULE FtpSession ------------------------------
(***************************************************************************)
(* One session of the embedded FTP server.                                 *)
(*                                                                         *)
(* The session's thread (CFTPServerConn::Process) reads one command after  *)
(* the other and answers it.  NewPath, a local of Process, outlives the    *)
(* command that set it.  An upload (Cmd_STOR) starts a second thread, the  *)
(* FTPFileWriter, and the two share one buffer through unlocked flags.     *)
(* The setting FtpServerOn may be toggled by the user at any moment.       *)
(* The two threads run on different hardware threads; plain stores are     *)
(* taken to be seen in the order in which the code makes them.             *)
(*                                                                         *)
(* The bytes of an upload are numbered by their arrival, so a part of the  *)
(* file is a number of bytes and a position.                               *)
(***************************************************************************)
EXTENDS Integers, FiniteSets

CONSTANTS Path,      \* the paths a client may name
          NoPath,    \* the empty path
          XferSize,  \* the bytes XferBuffer holds (XFERSIZE)
          MaxBytes,  \* bound: the bytes of one upload
          MaxToggles \* bound: how often the user toggles the server

ASSUME FtpAssumption ==
    /\ NoPath \notin Path
    /\ XferSize \in Nat \ {0}
    /\ MaxBytes \in Nat
    /\ MaxToggles \in Nat

VARIABLES
    serverOn,     \* SETTINGS::getFtpServerOn()
    toggles,      \* how often it was toggled (bounded)
    kind,         \* the file system: what each path names
    pc,           \* where the session's thread is
    isLoggedIn,
    NewPath,
    rnfr,         \* history: the path of the command before, if it was RNFR
    \* one upload, the session's side
    answer,       \* what the client was told of its end
    size,         \* the sign of what recv returned last
    Read,         \* the bytes of XferBuffer that are to be handed over
    received,     \* history: the bytes received
    handed,       \* history: the bytes handed over
    \* the FTPFileWriter
    wpc,          \* where its thread is
    done,
    loopRunning,
    waitingForBytes,
    buffer,       \* currentBuffer: the bytes before its first one, and its size
    open,         \* m_File is open
    outlived,     \* history: a thread has outlived its FTPFileWriter
    \* the file
    disk,         \* how many bytes it has
    garbled,      \* history: a write did not continue where the file ended
    short         \* history: a write stored less than it was given

cmdVars    == <<kind, isLoggedIn, NewPath, rnfr>>
xferVars   == <<answer, size, Read, received, handed>>
writerVars == <<wpc, done, loopRunning, waitingForBytes, buffer, open,
                outlived>>
fileVars   == <<disk, garbled, short>>
setVars    == <<serverOn, toggles>>
vars == <<setVars, cmdVars, pc, xferVars, writerVars, fileVars>>

NoBuffer == [before |-> 0, size |-> 0]

Init ==
    /\ serverOn = TRUE
    /\ toggles = 0
    /\ kind \in [Path -> {"none", "file", "dir"}]
    /\ pc = "prompt"
    /\ isLoggedIn = FALSE
    /\ NewPath = NoPath
    /\ rnfr = NoPath
    /\ answer = "none" /\ size = 0 /\ Read = 0 /\ received = 0 /\ handed = 0
    /\ wpc = "end" /\ done = FALSE /\ loopRunning = FALSE /\ waitingForBytes = FALSE
    /\ buffer = NoBuffer /\ open = FALSE /\ outlived = FALSE
    /\ disk = 0 /\ garbled = FALSE /\ short = FALSE

\* CScnOptionsSystemSettings: the user switches the server on or off.
ToggleServer ==
    /\ pc # "crashed"
    /\ toggles < MaxToggles
    /\ toggles' = toggles + 1
    /\ serverOn' = ~ serverOn
    /\ UNCHANGED <<cmdVars, pc, xferVars, writerVars, fileVars>>

-----------------------------------------------------------------------------
(* Commands.  Each is answered before the next is read.                    *)

\* The switch is looked at before a command is waited for, and not after.
Prompt ==
    /\ pc = "prompt"
    /\ serverOn
    /\ pc' = "command"
    /\ UNCHANGED <<setVars, cmdVars, xferVars, writerVars, fileVars>>

Answer ==
    /\ pc' = "prompt"
    /\ UNCHANGED <<setVars, xferVars, writerVars, fileVars>>

\* USER and PASS, with the right or the wrong name and password.
Login ==
    /\ pc = "command"
    /\ rnfr' = NoPath
    /\ isLoggedIn' \in {isLoggedIn, TRUE}
    /\ Answer
    /\ UNCHANGED <<kind, NewPath>>

\* Commands that change neither a path nor a file: PWD, LIST, RETR, NOOP, ...
OtherCommand ==
    /\ pc = "command"
    /\ rnfr' = NoPath
    /\ Answer
    /\ UNCHANGED <<kind, isLoggedIn, NewPath>>

\* CWD, MDTM, MFMT (when logged in) and XCRC store the path they are given.
LookAt(p) ==
    /\ pc = "command"
    /\ NewPath' = p
    /\ rnfr' = NoPath
    /\ Answer
    /\ UNCHANGED <<kind, isLoggedIn>>

\* DELE, RMD and MKD: what is there becomes what is to be there, or 550.
Change(p, old, new) ==
    /\ pc = "command"
    /\ isLoggedIn
    /\ NewPath' = p
    /\ rnfr' = NoPath
    /\ \/ kind[p] = old /\ kind' = [kind EXCEPT ![p] = new]
       \/ UNCHANGED kind
    /\ Answer
    /\ UNCHANGED isLoggedIn

\* RNFR keeps the path whether or not the file exists.
Rnfr(p) ==
    /\ pc = "command"
    /\ isLoggedIn
    /\ NewPath' = p
    /\ rnfr' = p
    /\ Answer
    /\ UNCHANGED <<kind, isLoggedIn>>

\* RNTO renames NewPath, whatever set it, and does not reset it.
Rename(p) ==
    /\ NewPath # NoPath
    /\ kind[NewPath] # "none"
    /\ kind[p] = "none"
    /\ kind' = [kind EXCEPT ![p] = kind[NewPath], ![NewPath] = "none"]

Rnto(p) ==
    /\ pc = "command"
    /\ isLoggedIn
    /\ rnfr' = NoPath
    /\ Rename(p) \/ UNCHANGED kind
    /\ Answer
    /\ UNCHANGED <<isLoggedIn, NewPath>>

\* QUIT, SHUTDOWN, three idle minutes or a broken connection.
Quit ==
    /\ pc = "command"
    /\ pc' = "closed"
    /\ UNCHANGED <<setVars, cmdVars, xferVars, writerVars, fileVars>>

\* Cmd_STOR up to the data connection: the file is created or truncated, and
\* closed again.
Stor(p) ==
    /\ pc = "command"
    /\ isLoggedIn
    /\ rnfr' = NoPath
    /\ \/ /\ kind[p] # "dir"
          /\ kind' = [kind EXCEPT ![p] = "file"]
          /\ disk' = 0 /\ garbled' = FALSE /\ short' = FALSE
          /\ answer' = "none" /\ size' = 1 /\ Read' = 0 /\ received' = 0 /\ handed' = 0
          /\ pc' = "connect"
          /\ UNCHANGED <<setVars, writerVars>>
       \/ UNCHANGED kind /\ Answer
    /\ UNCHANGED <<isLoggedIn, NewPath>>

Command ==
    \/ Login \/ OtherCommand \/ Quit
    \/ \E p \in Path :
          \/ LookAt(p) \/ Rnfr(p) \/ Rnto(p) \/ Stor(p)
          \/ Change(p, "file", "none") \/ Change(p, "dir", "none") \/ Change(p, "none", "dir")

-----------------------------------------------------------------------------
(* An upload, the session's side.                                          *)

Go(from, to) == pc = from /\ pc' = to

\* The client connects, and the FTPFileWriter is made: the file is opened again
\* and the thread created.  An active connection may also fail.
Connect ==
    \/ /\ Go("connect", "recv")
       /\ wpc' = "start" /\ open' = TRUE
       /\ done' = FALSE /\ loopRunning' = FALSE /\ waitingForBytes' = FALSE
       /\ UNCHANGED <<setVars, cmdVars, xferVars, buffer, outlived, fileVars>>
    \/ /\ pc = "connect"
       /\ Answer
       /\ UNCHANGED <<kind, isLoggedIn, NewPath, rnfr>>

\* recv returns n bytes; the loop goes on until XferBuffer is full.
Recv(n) ==
    /\ pc = "recv"
    /\ received + n <= MaxBytes
    /\ size' = 1
    /\ Read' = Read + n
    /\ received' = received + n
    /\ pc' = IF Read' < XferSize THEN "recv" ELSE "give"
    /\ UNCHANGED <<setVars, cmdVars, answer, handed, writerVars, fileVars>>

\* recv returns 0, the client is done, or -1, which is added to Read like any
\* other result: the last byte that came is not handed over.
RecvEnds(result) ==
    /\ pc = "recv"
    /\ size' = result
    /\ Read' = Read + result
    /\ pc' = IF Read' <= 0 THEN "reply" ELSE "give"
    /\ UNCHANGED <<setVars, cmdVars, answer, received, handed, writerVars, fileVars>>

\* Mutant: SetBytes does not wait for the writer.
GiveAtOnce ==
    /\ Go("give", "fill")
    /\ UNCHANGED <<setVars, cmdVars, xferVars, writerVars, fileVars>>

\* SetBytes waits until the writer asks for bytes.
Give ==
    /\ Go("give", "fill")
    /\ waitingForBytes
    /\ UNCHANGED <<setVars, cmdVars, xferVars, writerVars, fileVars>>

Fill ==
    /\ Go("fill", "hand")
    /\ buffer' = [before |-> handed, size |-> Read]
    /\ UNCHANGED <<setVars, cmdVars, xferVars, wpc, done, loopRunning, waitingForBytes,
                   open, outlived, fileVars>>

\* Mutant: XferBuffer is not emptied.
HandKeepsRead ==
    /\ pc = "hand"
    /\ waitingForBytes' = FALSE
    /\ handed' = handed + Read
    /\ pc' = IF size > 0 THEN "recv" ELSE "reply"
    /\ UNCHANGED <<setVars, cmdVars, answer, size, Read, received, wpc, done, loopRunning,
                   buffer, open, outlived, fileVars>>

\* SetBytes ends, Cmd_STOR empties XferBuffer.
Hand ==
    /\ pc = "hand"
    /\ waitingForBytes' = FALSE
    /\ handed' = handed + Read
    /\ Read' = 0
    /\ pc' = IF size > 0 THEN "recv" ELSE "reply"
    /\ UNCHANGED <<setVars, cmdVars, answer, size, received, wpc, done, loopRunning,
                   buffer, open, outlived, fileVars>>

\* The client is told of the end before the writer has finished.
Reply ==
    /\ Go("reply", "setDone")
    /\ answer' = IF size < 0 THEN "550" ELSE "226"
    /\ UNCHANGED <<setVars, cmdVars, size, Read, received, handed, writerVars, fileVars>>

\* FTPFileWriter::Close.
SetDone ==
    /\ Go("setDone", "waitLoop")
    /\ done' = TRUE
    /\ UNCHANGED <<setVars, cmdVars, xferVars, wpc, loopRunning, waitingForBytes, buffer,
                   open, outlived, fileVars>>

\* Mutant: Close does not wait for the writer's loop.
CloseAtOnce ==
    /\ Go("waitLoop", "terminate")
    /\ open' = FALSE
    /\ UNCHANGED <<setVars, cmdVars, xferVars, wpc, done, loopRunning, waitingForBytes,
                   buffer, outlived, fileVars>>

CloseFile ==
    /\ Go("waitLoop", "terminate")
    /\ ~ loopRunning
    /\ open' = FALSE
    /\ UNCHANGED <<setVars, cmdVars, xferVars, wpc, done, loopRunning, waitingForBytes,
                   buffer, outlived, fileVars>>

\* CThread::Terminate waits for the thread, half a second and no more.  Then the
\* FTPFileWriter, a local of Cmd_STOR, is gone: a thread that is still about, except
\* one that found the server off and touches nothing more, works with what comes to
\* stand in its place (Stray).
Terminate ==
    /\ Go("terminate", "prompt")
    /\ outlived' = (outlived \/ wpc \notin {"end", "refused"})
    /\ wpc' = IF wpc = "refused" THEN "refused" ELSE "end"
    /\ UNCHANGED <<setVars, cmdVars, xferVars, done, loopRunning, waitingForBytes, buffer,
                   open, fileVars>>

Upload ==
    \/ Connect
    \/ \E n \in 1 .. (XferSize - Read) : Recv(n)
    \/ RecvEnds(0) \/ RecvEnds(-1)
    \/ Give \/ Fill \/ Hand \/ Reply \/ SetDone \/ CloseFile \/ Terminate

-----------------------------------------------------------------------------
(* FTPFileWriter::Process.                                                 *)

WriterGo(from, to) ==
    /\ wpc = from
    /\ wpc' = to
    /\ UNCHANGED <<setVars, cmdVars, pc, xferVars, done, buffer, open, outlived>>

\* With the server off the thread sleeps and returns, and never asks for bytes.
Start ==
    /\ WriterGo("start", IF serverOn THEN "mark" ELSE "refused")
    /\ UNCHANGED <<loopRunning, waitingForBytes, fileVars>>

MarkRunning ==
    /\ WriterGo("mark", "ask")
    /\ loopRunning' = TRUE
    /\ UNCHANGED <<waitingForBytes, fileVars>>

\* Mutant: the loop forgets to ask again.
AskOnce ==
    /\ WriterGo("ask", "testDone")
    /\ waitingForBytes' = (disk = 0)
    /\ UNCHANGED <<loopRunning, fileVars>>

AskForBytes ==
    /\ WriterGo("ask", "testDone")
    /\ waitingForBytes' = TRUE
    /\ UNCHANGED <<loopRunning, fileVars>>

\* while(!done || !waitingForBytes), two reads.
TestDone ==
    /\ WriterGo("testDone", IF done THEN "testWaiting" ELSE "look")
    /\ UNCHANGED <<loopRunning, waitingForBytes, fileVars>>

\* Mutant: the loop ends as soon as it is told to.
LeaveWhenDone ==
    /\ WriterGo("testWaiting", "leave")
    /\ UNCHANGED <<loopRunning, waitingForBytes, fileVars>>

TestWaiting ==
    /\ WriterGo("testWaiting", IF waitingForBytes THEN "leave" ELSE "look")
    /\ UNCHANGED <<loopRunning, waitingForBytes, fileVars>>

\* Mutant: the loop writes without looking.
WriteTwice ==
    /\ WriterGo("look", "write")
    /\ UNCHANGED <<loopRunning, waitingForBytes, fileVars>>

Look ==
    /\ WriterGo("look", IF waitingForBytes THEN "testDone" ELSE "write")
    /\ UNCHANGED <<loopRunning, waitingForBytes, fileVars>>

\* fwrite stores the buffer, or less of it when the device is full or fails:
\* nobody looks at its result.
Write ==
    /\ WriterGo("write", "ask")
    /\ \E n \in 0 .. buffer.size :
          /\ disk' = disk + n
          /\ short' = (short \/ n < buffer.size)
    /\ garbled' = (garbled \/ buffer.before # disk)
    /\ UNCHANGED <<loopRunning, waitingForBytes>>

Leave ==
    /\ WriterGo("leave", "end")
    /\ loopRunning' = FALSE
    /\ UNCHANGED <<waitingForBytes, fileVars>>

Writer ==
    \/ Start \/ MarkRunning \/ AskForBytes \/ TestDone \/ TestWaiting \/ Look \/ Write
    \/ Leave

\* A thread whose FTPFileWriter is gone.  A later one may stand in the same place:
\* it starts, writes and leaves on the flags of that, or the program ends.
Stray ==
    /\ outlived
    /\ pc # "crashed"
    /\ \/ loopRunning' = TRUE /\ waitingForBytes' = TRUE
          /\ UNCHANGED <<pc, wpc, fileVars>>
       \/ /\ ~ waitingForBytes
          /\ waitingForBytes' = TRUE
          /\ \E n \in 0 .. buffer.size : disk' = disk + n
          /\ garbled' \in BOOLEAN /\ short' \in BOOLEAN
          /\ UNCHANGED <<pc, wpc, loopRunning>>
       \/ loopRunning' = FALSE
          /\ UNCHANGED <<pc, wpc, waitingForBytes, fileVars>>
       \/ pc' = "crashed" /\ wpc' = "end"
          /\ UNCHANGED <<loopRunning, waitingForBytes, fileVars>>
    /\ UNCHANGED <<setVars, cmdVars, xferVars, done, buffer, open, outlived>>

-----------------------------------------------------------------------------
Next == ToggleServer \/ Prompt \/ Command \/ Upload \/ Writer \/ Stray

Spec == Init /\ [][Next]_vars

\* The threads are scheduled, and a client that uploads goes on or hangs up.
LiveSpec == Spec /\ WF_vars(Upload) /\ WF_vars(Writer)

-----------------------------------------------------------------------------
SessionSteps == {"prompt", "command", "connect", "recv", "give", "fill", "hand", "reply",
                 "setDone", "waitLoop", "terminate", "closed", "crashed"}
WriterSteps == {"start", "refused", "mark", "ask", "testDone", "testWaiting", "look",
                "write", "leave", "end"}

\* The type of every variable.
TypeOK ==
    /\ serverOn \in BOOLEAN /\ toggles \in 0 .. MaxToggles
    /\ kind \in [Path -> {"none", "file", "dir"}]
    /\ pc \in SessionSteps
    /\ isLoggedIn \in BOOLEAN
    /\ NewPath \in Path \cup {NoPath} /\ rnfr \in Path \cup {NoPath}
    /\ answer \in {"none", "226", "550"}
    /\ size \in -1 .. 1 /\ Read \in -1 .. XferSize
    /\ received \in 0 .. MaxBytes /\ handed \in 0 .. received
    /\ wpc \in WriterSteps
    /\ done \in BOOLEAN /\ loopRunning \in BOOLEAN /\ waitingForBytes \in BOOLEAN
    /\ buffer \in [before : Nat, size : Nat]
    /\ open \in BOOLEAN /\ outlived \in BOOLEAN
    /\ disk \in Nat /\ garbled \in BOOLEAN /\ short \in BOOLEAN

\* The next four hold up to the first thread that outlives its FTPFileWriter;
\* WritesOnlyWhileOpen says which uploads can leave one behind.

\* currentBuffer has one owner: the writer has written and given up the last
\* buffer before SetBytes stores the next.
BufferHasOneOwner == ~ outlived /\ pc \in {"fill", "hand"} => wpc # "write"

\* The chunks reach the file in order and each once, unless the device failed.
StoredInOrder == ~ outlived /\ garbled => short

\* When the next command is read the file has every byte received, if the client
\* was told 226, and at most one less if it was told 550.
StoreIsComplete ==
    pc \in {"prompt", "command", "closed"} /\ ~ outlived /\ ~ short =>
        /\ answer = "226" => disk = received
        /\ answer = "550" => disk \in {received - 1, received}

\* The file is closed after the last write, and with the file closed a writer that
\* was given anything has ended: the half second of CThread::Terminate can run out
\* only on a thread of an upload that handed nothing over, started that late.
WritesOnlyWhileOpen ==
    ~ outlived =>
        /\ wpc = "write" => open
        /\ pc = "terminate" /\ handed > 0 => wpc = "end"

\* An upload comes to an end, and the session to its next command, unless the
\* server was switched off before the writer started: then SetBytes waits for
\* ever, also when the server is switched on again.  Nor does a thread that has
\* outlived its FTPFileWriter promise anything.
StoreEnds == (pc = "recv") ~> (pc = "prompt" \/ wpc = "refused" \/ outlived)

\* "Must be immediately preceeded by RNFR!" (FTPServerConn.cpp:278): a rename
\* moves the file that the command before it named.
RenameFollowsRnfr == [][\A p \in Path : Rnto(p) /\ Rename(p) => rnfr = NewPath]_vars

=============================================================================
