--------------------------- MODULE FtpSessionProofs ---------------------------
(***************************************************************************)
(* Proofs about FtpSession, for any set of paths, any size of XferBuffer,  *)
(* uploads of any length and any number of toggles.                        *)
(***************************************************************************)
EXTENDS FtpSession, TLAPS

-----------------------------------------------------------------------------
(* The inductive invariant.  XferInv follows the received bytes through    *)
(* XferBuffer, FlagInv ties the three flags to the two threads, and        *)
(* DataInv says where the bytes between handed and disk are.               *)

Handing == {"give", "fill", "hand"}
\* The session has a writer that it has not told to stop.
Feeding == {"recv", "reply", "setDone"} \cup Handing
Looping == {"ask", "testDone", "testWaiting", "look", "write", "leave"}

XferInv ==
    /\ handed + Read = received - (IF size < 0 THEN 1 ELSE 0)
    /\ pc \in Handing => Read > 0
    /\ pc = "recv" => size = 1 /\ Read >= 0 /\ Read < XferSize
    /\ pc \notin {"recv", "crashed"} \cup Handing => Read <= 0 /\ (size >= 0 => Read = 0)
    /\ pc = "connect" => size = 1 /\ received = 0
    /\ pc = "reply" => size < 1
    /\ pc \in {"connect", "recv", "reply"} \cup Handing => answer = "none"
    /\ answer = "226" => size = 0
    /\ answer = "550" => size < 0

FlagInv ==
    /\ loopRunning <=> wpc \in Looping
    /\ waitingForBytes => wpc \in {"testDone", "testWaiting", "look", "leave", "end"}
    /\ wpc = "leave" => waitingForBytes
    /\ pc \in {"fill", "hand"} => waitingForBytes
    /\ wpc \in {"testWaiting", "leave"} => done
    /\ pc \in Feeding => ~ done /\ wpc # "end"
    /\ pc \in Feeding \cup {"waitLoop"} => open
    /\ pc = "waitLoop" => done
    /\ pc = "terminate" =>
          /\ done
          /\ wpc \notin {"look", "write"}
          /\ wpc \in {"testDone", "testWaiting"} => waitingForBytes
          /\ handed > 0 => wpc = "end"
    /\ pc # "crashed"
    /\ pc \in {"prompt", "command", "connect", "closed"} => wpc \in {"end", "refused"}

Stored  == disk <= handed /\ (~ short => disk = handed)
Pending == /\ buffer.before + buffer.size = handed
           /\ disk <= buffer.before
           /\ ~ short => disk = buffer.before

DataInv ==
    /\ garbled => short
    /\ pc = "hand" => buffer = [before |-> handed, size |-> Read]
    /\ wpc \in {"start", "refused", "mark"} \/ pc = "connect" => handed = 0 /\ disk = 0
    /\ wpc \in {"ask", "leave", "end"} \/ waitingForBytes => Stored
    /\ wpc = "write" => Pending
    /\ wpc \in {"testDone", "testWaiting", "look"} /\ ~ waitingForBytes => Pending

\* What a thread without its FTPFileWriter does, it does to the flags and the data.
Inv == TypeOK /\ XferInv /\ (~ outlived => FlagInv /\ DataInv)

LEMMA Invariance == Spec => []Inv
<1> USE FtpAssumption DEF Handing, Feeding, Looping, Stored, Pending, SessionSteps,
                          WriterSteps
<1>1. Init => Inv
  <2>1. Init => TypeOK
    <3> SUFFICES ASSUME Init PROVE TypeOK
      OBVIOUS
    <3>1. /\ toggles \in 0 .. MaxToggles
          /\ kind \in [Path -> {"none", "file", "dir"}]
          /\ NewPath \in Path \cup {NoPath} /\ rnfr \in Path \cup {NoPath}
      BY DEF Init
    <3>2. /\ pc \in SessionSteps /\ wpc \in WriterSteps
          /\ answer \in {"none", "226", "550"}
          /\ size \in -1 .. 1 /\ Read \in -1 .. XferSize
          /\ received \in 0 .. MaxBytes /\ handed \in 0 .. received
      BY DEF Init
    <3>3. /\ serverOn \in BOOLEAN /\ isLoggedIn \in BOOLEAN
          /\ done \in BOOLEAN /\ loopRunning \in BOOLEAN /\ waitingForBytes \in BOOLEAN
          /\ open \in BOOLEAN /\ outlived \in BOOLEAN /\ garbled \in BOOLEAN /\ short \in BOOLEAN
      BY Zenon DEF Init
    <3>5. disk \in Nat
      BY DEF Init
    <3>4. buffer \in [before : Nat, size : Nat]
      BY DEF Init, NoBuffer
    <3> QED BY <3>1, <3>2, <3>3, <3>4, <3>5, Zenon DEF TypeOK
  <2>2. Init => XferInv
    BY DEF Init, XferInv, NoBuffer
  <2>3. Init => FlagInv
    BY DEF Init, FlagInv, NoBuffer
  <2>4. Init => DataInv
    BY DEF Init, DataInv, NoBuffer
  <2> QED BY <2>1, <2>2, <2>3, <2>4 DEF Inv
<1>2. Inv /\ [Next]_vars => Inv'
  <2> SUFFICES ASSUME Inv, [Next]_vars PROVE Inv'
    OBVIOUS
  <2> USE DEF Inv, TypeOK, XferInv, FlagInv, DataInv, setVars, cmdVars, xferVars, writerVars,
              fileVars, Go, WriterGo, Answer
  <2>1. CASE ToggleServer
    BY <2>1 DEF ToggleServer
  <2>2. CASE Prompt
    BY <2>2 DEF Prompt
  <2>3. CASE Command
    <3>1. CASE Login
      <4>1. TypeOK'
        <5>1. /\ isLoggedIn' \in BOOLEAN
              /\ UNCHANGED <<setVars, kind, NewPath, xferVars, writerVars, fileVars>>
              /\ rnfr' = NoPath /\ pc' = "prompt"
          BY <3>1, Zenon DEF Login
        <5> QED BY <5>1
      <4>2. XferInv'
        BY <3>1 DEF Login
      <4>3. ~ outlived' => FlagInv'
        BY <3>1 DEF Login
      <4>4. ~ outlived' => DataInv'
        BY <3>1 DEF Login
      <4> QED BY <4>1, <4>2, <4>3, <4>4 DEF Inv
    <3>2. CASE OtherCommand
      BY <3>2 DEF OtherCommand
    <3>3. CASE Quit
      BY <3>3 DEF Quit
    <3>4. ASSUME NEW p \in Path, LookAt(p) PROVE Inv'
      BY <3>4 DEF LookAt
    <3>5. ASSUME NEW p \in Path, Rnfr(p) PROVE Inv'
      BY <3>5 DEF Rnfr
    <3>6. ASSUME NEW p \in Path, Rnto(p) PROVE Inv'
      BY <3>6 DEF Rnto, Rename
    <3>7. ASSUME NEW p \in Path, Stor(p) PROVE Inv'
      <4>1. TypeOK'
        <5>1. kind' \in [Path -> {"none", "file", "dir"}] /\ isLoggedIn' \in BOOLEAN
              /\ NewPath' \in Path \cup {NoPath} /\ rnfr' \in Path \cup {NoPath}
          BY <3>7 DEF Stor
        <5>2. CASE UNCHANGED <<setVars, xferVars, writerVars, fileVars>>
          BY <3>7, <5>1, <5>2 DEF Stor
        <5>3. CASE ~ UNCHANGED <<setVars, xferVars, writerVars, fileVars>>
          <6>1. /\ disk' = 0 /\ garbled' = FALSE /\ short' = FALSE
                /\ answer' = "none" /\ size' = 1 /\ Read' = 0 /\ received' = 0 /\ handed' = 0
                /\ pc' = "connect"
                /\ UNCHANGED <<setVars, writerVars>>
            BY <3>7, <5>3, Zenon DEF Stor
          <6>2. /\ serverOn' \in BOOLEAN /\ done' \in BOOLEAN /\ loopRunning' \in BOOLEAN
                /\ waitingForBytes' \in BOOLEAN /\ open' \in BOOLEAN /\ outlived' \in BOOLEAN
                /\ garbled' \in BOOLEAN /\ short' \in BOOLEAN
            BY <6>1, Zenon
          <6>3. /\ toggles' \in 0 .. MaxToggles /\ pc' \in SessionSteps
                /\ wpc' \in WriterSteps /\ answer' \in {"none", "226", "550"}
                /\ buffer' \in [before : Nat, size : Nat]
            BY <6>1, Zenon
          <6>4. /\ size' \in -1 .. 1 /\ Read' \in -1 .. XferSize
                /\ received' \in 0 .. MaxBytes /\ handed' \in 0 .. received'
                /\ disk' \in Nat
            BY <6>1
          <6> QED BY <5>1, <6>2, <6>3, <6>4, Zenon
        <5> QED BY <5>2, <5>3
      <4>2. XferInv'
        BY <3>7 DEF Stor
      <4>3. ~ outlived' => FlagInv'
        BY <3>7 DEF Stor
      <4>4. ~ outlived' => DataInv'
        BY <3>7 DEF Stor
      <4> QED BY <4>1, <4>2, <4>3, <4>4 DEF Inv
    <3>8. ASSUME NEW p \in Path, NEW old, NEW new \in {"none", "dir"}, Change(p, old, new)
          PROVE  Inv'
      BY <3>8 DEF Change
    <3> QED BY <2>3, <3>1, <3>2, <3>3, <3>4, <3>5, <3>6, <3>7, <3>8 DEF Command
  <2>4. CASE Upload
    <3>1. CASE Connect
      <4>1. TypeOK'
        <5>1. CASE /\ Go("connect", "recv")
                   /\ wpc' = "start" /\ open' = TRUE
                   /\ done' = FALSE /\ loopRunning' = FALSE /\ waitingForBytes' = FALSE
                   /\ UNCHANGED <<setVars, cmdVars, xferVars, buffer, outlived, fileVars>>
          <6>1. /\ pc' = "recv" /\ wpc' = "start" /\ open' = TRUE
                /\ done' = FALSE /\ loopRunning' = FALSE /\ waitingForBytes' = FALSE
                /\ UNCHANGED <<setVars, cmdVars, xferVars, buffer, outlived, fileVars>>
            BY <5>1, Zenon DEF Connect
          <6>2. /\ serverOn' \in BOOLEAN /\ isLoggedIn' \in BOOLEAN /\ done' \in BOOLEAN
                 /\ loopRunning' \in BOOLEAN /\ waitingForBytes' \in BOOLEAN /\ open' \in BOOLEAN
                 /\ outlived' \in BOOLEAN /\ garbled' \in BOOLEAN /\ short' \in BOOLEAN
            BY <6>1, Zenon
          <6>3. /\ toggles' \in 0 .. MaxToggles /\ kind' \in [Path -> {"none", "file", "dir"}]
                 /\ NewPath' \in Path \cup {NoPath} /\ rnfr' \in Path \cup {NoPath}
                 /\ pc' \in SessionSteps /\ wpc' \in WriterSteps
                 /\ answer' \in {"none", "226", "550"}
                 /\ buffer' \in [before : Nat, size : Nat]
                 /\ size' \in -1 .. 1 /\ Read' \in -1 .. XferSize /\ disk' \in Nat
            BY <6>1, Zenon
          <6>4. received' \in 0 .. MaxBytes /\ handed' \in 0 .. received'
            BY <6>1
          <6> QED BY <6>2, <6>3, <6>4, Zenon
        <5>2. CASE /\ pc = "connect"
                   /\ Answer
                   /\ UNCHANGED <<kind, isLoggedIn, NewPath, rnfr>>
          <6>1. /\ pc' = "prompt"
                /\ UNCHANGED <<setVars, cmdVars, xferVars, writerVars, fileVars>>
            BY <3>1, <5>2, Zenon DEF Connect
          <6>2. /\ serverOn' \in BOOLEAN /\ isLoggedIn' \in BOOLEAN /\ done' \in BOOLEAN
                 /\ loopRunning' \in BOOLEAN /\ waitingForBytes' \in BOOLEAN /\ open' \in BOOLEAN
                 /\ outlived' \in BOOLEAN /\ garbled' \in BOOLEAN /\ short' \in BOOLEAN
            BY <6>1, Zenon
          <6>3. /\ toggles' \in 0 .. MaxToggles /\ kind' \in [Path -> {"none", "file", "dir"}]
                 /\ NewPath' \in Path \cup {NoPath} /\ rnfr' \in Path \cup {NoPath}
                 /\ pc' \in SessionSteps /\ wpc' \in WriterSteps
                 /\ answer' \in {"none", "226", "550"}
                 /\ buffer' \in [before : Nat, size : Nat]
                 /\ size' \in -1 .. 1 /\ Read' \in -1 .. XferSize /\ disk' \in Nat
            BY <6>1, Zenon
          <6>4. received' \in 0 .. MaxBytes /\ handed' \in 0 .. received'
            BY <6>1
          <6> QED BY <6>2, <6>3, <6>4, Zenon
        <5> QED BY <3>1, <5>1, <5>2, Zenon DEF Connect
      <4>2. XferInv'
        BY <3>1 DEF Connect
      <4>3. ~ outlived' => FlagInv'
        BY <3>1 DEF Connect
      <4>4. ~ outlived' => DataInv'
        BY <3>1 DEF Connect
      <4> QED BY <4>1, <4>2, <4>3, <4>4 DEF Inv
    <3>2. ASSUME NEW n \in 1 .. (XferSize - Read), Recv(n) PROVE Inv'
      BY <3>2 DEF Recv
    <3>3. ASSUME NEW r \in {0, -1}, RecvEnds(r) PROVE Inv'
      BY <3>3 DEF RecvEnds
    <3>4. CASE Give
      BY <3>4 DEF Give
    <3>5. CASE Fill
      BY <3>5 DEF Fill
    <3>6. CASE Hand
      <4>1. TypeOK'
        <5>1. handed + Read \in 0 .. received
          BY <3>6 DEF Hand
        <5>2. pc' \in SessionSteps
          BY <3>6 DEF Hand
        <5>3. /\ handed' = handed + Read /\ Read' = 0 /\ waitingForBytes' = FALSE
              /\ UNCHANGED <<setVars, cmdVars, answer, size, received, wpc, done,
                             loopRunning, buffer, open, outlived, fileVars>>
          BY <3>6, Zenon DEF Hand
        <5>4. /\ serverOn' \in BOOLEAN /\ isLoggedIn' \in BOOLEAN
              /\ done' \in BOOLEAN /\ loopRunning' \in BOOLEAN
              /\ waitingForBytes' \in BOOLEAN /\ open' \in BOOLEAN /\ outlived' \in BOOLEAN
              /\ garbled' \in BOOLEAN /\ short' \in BOOLEAN
          BY <5>3, Zenon
        <5>5. /\ toggles' \in 0 .. MaxToggles /\ kind' \in [Path -> {"none", "file", "dir"}]
              /\ NewPath' \in Path \cup {NoPath} /\ rnfr' \in Path \cup {NoPath}
              /\ wpc' \in WriterSteps /\ answer' \in {"none", "226", "550"}
              /\ buffer' \in [before : Nat, size : Nat]
          BY <5>3, Zenon
        <5>6. /\ size' \in -1 .. 1 /\ Read' \in -1 .. XferSize
              /\ received' \in 0 .. MaxBytes /\ handed' \in 0 .. received'
              /\ disk' \in Nat
          BY <5>1, <5>3
        <5> QED BY <5>2, <5>4, <5>5, <5>6, Zenon
      <4>2. XferInv'
        BY <3>6 DEF Hand
      <4>3. ~ outlived' => FlagInv'
        BY <3>6 DEF Hand
      <4>4. ~ outlived' => DataInv'
        BY <3>6 DEF Hand
      <4> QED BY <4>1, <4>2, <4>3, <4>4 DEF Inv
    <3>7. CASE Reply
      BY <3>7 DEF Reply
    <3>8. CASE SetDone
      BY <3>8 DEF SetDone
    <3>9. CASE CloseFile
      <4>1. TypeOK'
        <5>1. /\ pc' = "terminate" /\ open' = FALSE
              /\ UNCHANGED <<setVars, cmdVars, xferVars, wpc, done, loopRunning,
                             waitingForBytes, buffer, outlived, fileVars>>
          BY <3>9, Zenon DEF CloseFile
        <5>2. /\ serverOn' \in BOOLEAN /\ isLoggedIn' \in BOOLEAN /\ done' \in BOOLEAN
               /\ loopRunning' \in BOOLEAN /\ waitingForBytes' \in BOOLEAN /\ open' \in BOOLEAN
               /\ outlived' \in BOOLEAN /\ garbled' \in BOOLEAN /\ short' \in BOOLEAN
          BY <5>1, Zenon
        <5>3. /\ toggles' \in 0 .. MaxToggles /\ kind' \in [Path -> {"none", "file", "dir"}]
               /\ NewPath' \in Path \cup {NoPath} /\ rnfr' \in Path \cup {NoPath}
               /\ pc' \in SessionSteps /\ wpc' \in WriterSteps
               /\ answer' \in {"none", "226", "550"}
               /\ buffer' \in [before : Nat, size : Nat]
               /\ size' \in -1 .. 1 /\ Read' \in -1 .. XferSize /\ disk' \in Nat
          BY <5>1, Zenon
        <5>4. received' \in 0 .. MaxBytes /\ handed' \in 0 .. received'
          BY <5>1
        <5> QED BY <5>2, <5>3, <5>4, Zenon
      <4>2. XferInv'
        BY <3>9 DEF CloseFile
      <4>3. ~ outlived' => FlagInv'
        BY <3>9 DEF CloseFile
      <4>4. ~ outlived' => DataInv'
        BY <3>9 DEF CloseFile
      <4> QED BY <4>1, <4>2, <4>3, <4>4 DEF Inv
    <3>10. CASE Terminate
      BY <3>10 DEF Terminate
    <3> QED BY <2>4, <3>1, <3>2, <3>3, <3>4, <3>5, <3>6, <3>7, <3>8, <3>9, <3>10 DEF Upload
  <2>5. CASE Writer
    <3>1. CASE Start
      BY <3>1 DEF Start
    <3>2. CASE MarkRunning
      BY <3>2 DEF MarkRunning
    <3>3. CASE AskForBytes
      BY <3>3 DEF AskForBytes
    <3>4. CASE TestDone
      BY <3>4 DEF TestDone
    <3>5. CASE TestWaiting
      BY <3>5 DEF TestWaiting
    <3>6. CASE Look
      BY <3>6 DEF Look
    <3>7. CASE Write
      BY <3>7 DEF Write
    <3>8. CASE Leave
      <4>1. TypeOK'
        <5>1. /\ wpc' = "end" /\ loopRunning' = FALSE
              /\ UNCHANGED <<setVars, cmdVars, pc, xferVars, done, buffer, open, outlived,
                             waitingForBytes, fileVars>>
          BY <3>8, Zenon DEF Leave
        <5>2. wpc' \in WriterSteps /\ loopRunning' \in BOOLEAN
          BY <5>1, Zenon
        <5>3. /\ serverOn' \in BOOLEAN /\ isLoggedIn' \in BOOLEAN
              /\ done' \in BOOLEAN /\ waitingForBytes' \in BOOLEAN
              /\ open' \in BOOLEAN /\ outlived' \in BOOLEAN
              /\ garbled' \in BOOLEAN /\ short' \in BOOLEAN
          BY <5>1, Zenon
        <5>4. /\ toggles' \in 0 .. MaxToggles /\ kind' \in [Path -> {"none", "file", "dir"}]
              /\ NewPath' \in Path \cup {NoPath} /\ rnfr' \in Path \cup {NoPath}
              /\ pc' \in SessionSteps /\ answer' \in {"none", "226", "550"}
              /\ buffer' \in [before : Nat, size : Nat]
              /\ size' \in -1 .. 1 /\ Read' \in -1 .. XferSize /\ disk' \in Nat
          BY <5>1, Zenon
        <5>5. received' \in 0 .. MaxBytes /\ handed' \in 0 .. received'
          BY <5>1
        <5> QED BY <5>2, <5>3, <5>4, <5>5, Zenon
      <4>2. XferInv'
        BY <3>8 DEF Leave
      <4>3. ~ outlived' => FlagInv'
        BY <3>8 DEF Leave
      <4>4. ~ outlived' => DataInv'
        BY <3>8 DEF Leave
      <4> QED BY <4>1, <4>2, <4>3, <4>4 DEF Inv
    <3> QED BY <2>5, <3>1, <3>2, <3>3, <3>4, <3>5, <3>6, <3>7, <3>8 DEF Writer
  <2>6. CASE Stray
    <3>1. outlived' /\ outlived
      BY <2>6 DEF Stray
    <3>2. XferInv'
      BY <2>6 DEF Stray
    <3>3. TypeOK'
      <4>1. UNCHANGED <<setVars, cmdVars, xferVars, done, buffer, open, outlived>>
        BY <2>6 DEF Stray
      <4>2. /\ loopRunning' \in BOOLEAN /\ waitingForBytes' \in BOOLEAN
            /\ garbled' \in BOOLEAN /\ short' \in BOOLEAN
        BY <2>6, Zenon DEF Stray
      <4>3. disk' \in Nat
        BY <2>6 DEF Stray
      <4>4. wpc' \in WriterSteps /\ pc' \in SessionSteps
        BY <2>6 DEF Stray
      <4> QED BY <4>1, <4>2, <4>3, <4>4
    <3> QED BY <3>1, <3>2, <3>3
  <2>7. CASE UNCHANGED vars
    BY <2>7 DEF vars
  <2> QED BY <2>1, <2>2, <2>3, <2>4, <2>5, <2>6, <2>7 DEF Next
<1> QED BY <1>1, <1>2, PTL DEF Spec

\* Every variable of the session and of its writer keeps its type.
THEOREM TypeCorrect == Spec => []TypeOK
<1>1. Inv => TypeOK
  BY DEF Inv
<1> QED BY <1>1, Invariance, PTL

\* The two threads never use currentBuffer at the same time, until a thread has
\* outlived its FTPFileWriter (WritesOnlyWhileOpen says which may).
THEOREM OneOwner == Spec => []BufferHasOneOwner
<1>1. Inv => BufferHasOneOwner
  BY DEF Inv, FlagInv, BufferHasOneOwner
<1> QED BY <1>1, Invariance, PTL

\* An upload of any length is stored in order, nothing twice, on the same condition.
THEOREM InOrder == Spec => []StoredInOrder
<1>1. Inv => StoredInOrder
  BY DEF Inv, DataInv, StoredInOrder
<1> QED BY <1>1, Invariance, PTL

\* The command after an upload finds the file complete, on the same condition.
THEOREM Complete == Spec => []StoreIsComplete
<1>1. Inv => StoreIsComplete
  BY DEF Inv, TypeOK, XferInv, FlagInv, DataInv, Stored, StoreIsComplete, Handing, Feeding
<1> QED BY <1>1, Invariance, PTL

\* CThread::Terminate may give up on the writer after half a second, so the first
\* thread to outlive its FTPFileWriter is one of an upload that handed nothing over:
\* any other has left its loop, and written its last, before the file is closed.
THEOREM NoWriteAfterClose == Spec => []WritesOnlyWhileOpen
<1>1. Inv => WritesOnlyWhileOpen
  BY DEF Inv, TypeOK, FlagInv, WritesOnlyWhileOpen, SessionSteps, Feeding, Handing
<1> QED BY <1>1, Invariance, PTL

=============================================================================
