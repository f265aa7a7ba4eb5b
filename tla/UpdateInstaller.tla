--------------------------- MODULE UpdateInstaller ---------------------------
(***************************************************************************)
(* The installer of AutoUpdater.                                           *)
(*                                                                         *)
(* Updates are downloaded into TEMP as zips: the dashboard's, a skin's, a  *)
(* plug-in's.  When the downloads have ended InstallerState = 1 is saved,  *)
(* and at its next start the dashboard runs the installer instead of       *)
(* itself: it backs its own executable up, moves it away, extracts the     *)
(* zips over the game's folder, and restarts with InstallerState = 0.      *)
(* The power may fail between any two of these steps, and the results of   *)
(* CopyFile, rename, _unlink and fwrite are not looked at.  Nor is that of *)
(* fopen_s: the program dies on a file it cannot open, at every start      *)
(* again while the file cannot be opened.                                  *)
(*                                                                         *)
(* The zip holds default.xex; the executable that runs may have another    *)
(* name.  A skin or a plug-in is one file here.  A file is absent, broken, *)
(* or a version of what it should be.                                      *)
(***************************************************************************)
EXTENDS Integers

CONSTANTS Part,         \* what is updated
          MaxUpdates,   \* bound: how many updates are downloaded
          MaxFailures,  \* bound: how many calls fail
          MaxCuts       \* bound: how often the power fails in the installer

ASSUME InstallerAssumption ==
    /\ Part \subseteq {"dash", "skin", "plugin"}
    /\ {MaxUpdates, MaxFailures, MaxCuts} \subseteq Nat

\* The executable, its .old and its .delete_me, default.xex under that name.
Copies == {"exe", "old", "delete_me", "default"}
InPlace == {"exe"} \cup (Part \ {"dash"})
File == Copies \cup InPlace

Absent == 0
Broken == 1
First == 2            \* the version the console starts with
Whole(content) == content > Broken

VARIABLES
    files,      \* what each file holds
    temp,       \* the zips in TEMP: version and quality
    installer,  \* InstallerState, as saved
    target,     \* the file that default.xex is
    font,       \* whether the font's file can be opened
    at,         \* where the program is; "off": it does not run
    todo,       \* RunInstaller's parts: hasDashFile, hasSkinFile, hasPluginFile
    failed,     \* bError
    updates, failures, cuts,  \* how much has happened (bounded)
    wanted,     \* history: the parts of the latest update
    told,       \* history: what the user was told of it
    ignored,    \* history: the failures of it that the code did not see
    excused,    \* history: files the user was told of, or whose loss was not seen
    interrupted \* history: files not whole when the installer stopped at work

disk == <<files, temp, installer, target, font>>
bounds == <<updates, failures, cuts>>
history == <<wanted, told, ignored, excused, interrupted>>
vars == <<disk, at, todo, failed, bounds, history>>

\* Of a zip: every entry is right; an entry is bad; the file of an entry cannot
\* be opened (its folder is missing, or it is in use); it does not even open.
Quality == {"good", "bad", "stuck", "cut"}
NoZip == [ver |-> Absent, is |-> "cut"]
HasZip(p) == temp[p].ver # Absent
Found == {p \in Part : HasZip(p)}

Init ==
    /\ files = [f \in File |-> IF f \in InPlace THEN First ELSE Absent]
    /\ temp = [p \in Part |-> NoZip]
    /\ installer = 0
    /\ target \in {"exe", "default"}
    /\ font \in BOOLEAN
    /\ at = "off" /\ todo = {} /\ failed = FALSE
    /\ updates = 0 /\ failures = 0 /\ cuts = 0
    /\ wanted = {} /\ told = "nothing" /\ ignored = {} /\ excused = {} /\ interrupted = {}

-----------------------------------------------------------------------------
(* The dashboard, and the user.                                            *)

\* The program starts, if there is one: the installer, or the dashboard.
Boot ==
    /\ at = "off"
    /\ Whole(files["exe"])
    /\ at' = IF installer > 0 THEN "font" ELSE "dash"
    /\ UNCHANGED <<disk, todo, failed, bounds, history>>

\* The downloads into TEMP have ended: InitializeInstaller.
Schedule(parts, quality) ==
    /\ at = "dash"
    /\ updates < MaxUpdates /\ updates' = updates + 1
    /\ temp' = [p \in Part |-> IF p \in parts
                               THEN [ver |-> First + updates', is |-> quality[p]] ELSE temp[p]]
    /\ installer' = 1
    /\ wanted' = parts /\ told' = "nothing" /\ ignored' = {}
    /\ UNCHANGED <<files, target, font, at, todo, failed, failures, cuts, excused, interrupted>>

\* What is in place and broken or absent.
Lost == {f \in InPlace : ~ Whole(files[f])}
GoesOff == at' = "off" /\ todo' = {} /\ failed' = FALSE

\* The dashboard is left, or the power fails while the installer runs.
PowerOff ==
    /\ at # "off"
    /\ IF at = "dash" THEN UNCHANGED <<cuts, interrupted>>
       ELSE cuts < MaxCuts /\ cuts' = cuts + 1 /\ interrupted' = interrupted \cup Lost
    /\ GoesOff
    /\ UNCHANGED <<disk, updates, failures, wanted, told, ignored, excused>>

\* "Please update manually": the user puts the latest executable where it was.
Repair ==
    /\ at = "off"
    /\ ~ Whole(files["exe"])
    /\ files' = [files EXCEPT !["exe"] = First + updates]
    /\ ignored' = ignored \cup {"repair"}
    /\ excused' = excused \ {"exe"}
    /\ UNCHANGED <<temp, installer, target, font, at, todo, failed, bounds, wanted, told, interrupted>>

-----------------------------------------------------------------------------
(* RunInstaller.                                                           *)

Fails == failures < MaxFailures /\ failures' = failures + 1
Writes(f, content) == files' = [files EXCEPT ![f] = content]
\* The dashboard is first, the plug-in is last.
Current == IF "dash" \in todo THEN "dash" ELSE IF "skin" \in todo THEN "skin" ELSE "plugin"

\* A failed call that is not looked at.
Ignores(kind) == Fails /\ ignored' = ignored \cup {kind}

FirstStep(parts) == IF parts = {} THEN "done" ELSE IF "dash" \in parts THEN "copy" ELSE "open"
Goto(step) == at' = step /\ UNCHANGED <<todo, failed>>

\* Mutant: only the last part's result counts.
LastResult(ok) ==
    /\ todo' = todo \ {Current}
    /\ failed' = ~ ok
    /\ at' = FirstStep(todo \ {Current})

\* The next part, after this one's result.
Result(ok) ==
    /\ todo' = todo \ {Current}
    /\ failed' = (failed \/ ~ ok)
    /\ at' = FirstStep(todo \ {Current})

\* The font for the installer's screen is taken from the executable.
DumpFont ==
    /\ at = "font"
    /\ font
    /\ Goto("menu")
    /\ UNCHANGED <<disk, bounds, history>>

\* There is none: "Font Not Found - Update Manually", and RestartDashboard.
NoFont ==
    /\ at = "font"
    /\ installer' = 0
    /\ told' = "failed" /\ excused' = excused \cup Lost
    /\ Goto("leave")
    /\ UNCHANGED <<files, temp, target, font, bounds, wanted, ignored, interrupted>>

\* Mutant: the installer is reset when it begins.
BeginAndReset ==
    /\ at = "menu"
    /\ todo' = Found
    /\ at' = FirstStep(Found)
    /\ installer' = 0 /\ interrupted' = {}
    /\ UNCHANGED <<files, temp, target, font, failed, bounds, wanted, told, ignored, excused>>

\* Mutant: it installs what was not found, too.
BeginWithAll ==
    /\ at = "menu"
    /\ todo' = Part
    /\ at' = FirstStep(Part)
    /\ interrupted' = {}
    /\ UNCHANGED <<disk, failed, bounds, wanted, told, ignored, excused>>

\* The user presses Y: what was interrupted is begun anew.
Begin ==
    /\ at = "menu"
    /\ todo' = Found
    /\ at' = FirstStep(Found)
    /\ interrupted' = {}
    /\ UNCHANGED <<disk, failed, bounds, wanted, told, ignored, excused>>

\* Mutant: RestartDashboard(console, false).
GiveUpAndKeep ==
    /\ at = "menu"
    /\ told' = "left"
    /\ Goto("leave")
    /\ UNCHANGED <<disk, bounds, wanted, ignored, excused, interrupted>>

\* The user presses Back: RestartDashboard, which says nothing of any file.
GiveUp ==
    /\ at = "menu"
    /\ installer' = 0
    /\ told' = "left"
    /\ Goto("leave")
    /\ UNCHANGED <<files, temp, target, font, bounds, wanted, ignored, excused, interrupted>>

\* All parts are through, and the user presses a key: RestartDashboard.
Finish ==
    /\ at = "done"
    /\ installer' = 0
    /\ told' = IF failed THEN "failed" ELSE "success"
    /\ excused' = IF failed THEN excused \cup Lost ELSE excused
    /\ Goto("leave")
    /\ UNCHANGED <<files, temp, target, font, bounds, wanted, ignored, interrupted>>

\* Restart: without an executable it returns, and keys are waited for again.
Leave ==
    /\ at = "leave"
    /\ files["exe"] # Absent
    /\ GoesOff
    /\ UNCHANGED <<disk, bounds, history>>

-----------------------------------------------------------------------------
(* InstallDashUpdate: what it does before and after the zip.               *)

\* CopyFile(exe, .old).
StartCopy ==
    /\ at = "copy"
    /\ Writes("old", Broken)
    /\ Goto("copying")
    /\ UNCHANGED <<temp, installer, target, font, bounds, history>>

EndCopy ==
    /\ at = "copying"
    /\ Writes("old", files["exe"])
    /\ Goto("rename")
    /\ UNCHANGED <<temp, installer, target, font, bounds, history>>

CopyFails ==
    /\ at \in {"copy", "copying"}
    /\ Ignores("copy")
    /\ Goto("rename")
    /\ UNCHANGED <<disk, updates, cuts, wanted, told, excused, interrupted>>

\* Mutant: the executable is deleted instead.
RenameAway ==
    /\ at = "rename"
    /\ files' = [files EXCEPT !["exe"] = Absent]
    /\ Goto("open")
    /\ UNCHANGED <<temp, installer, target, font, bounds, history>>

\* rename(exe, .delete_me), which fails if there is one.
Rename ==
    /\ at = "rename"
    /\ files["delete_me"] = Absent
    /\ files' = [files EXCEPT !["exe"] = Absent, !["delete_me"] = files["exe"]]
    /\ Goto("open")
    /\ UNCHANGED <<temp, installer, target, font, bounds, history>>

RenameFails ==
    /\ at = "rename"
    /\ IF files["delete_me"] = Absent
         THEN Ignores("rename")
         ELSE ignored' = ignored \cup {"leftover"} /\ UNCHANGED failures
    /\ Goto("open")
    /\ UNCHANGED <<disk, updates, cuts, wanted, told, excused, interrupted>>

\* _unlink(.delete_me), which holds what runs: it may be refused.
Delete(gone) ==
    /\ at = "delete"
    /\ IF gone THEN Writes("delete_me", Absent) ELSE UNCHANGED files
    /\ Goto("swap")
    /\ UNCHANGED <<temp, installer, target, font, bounds, history>>

\* rename(default.xex, exe), which fails if the executable is there.
Swap ==
    /\ at = "swap"
    /\ files' = IF target = "default" /\ files["exe"] = Absent
                THEN [files EXCEPT !["exe"] = files["default"], !["default"] = Absent]
                ELSE files
    /\ Result(TRUE)
    /\ UNCHANGED <<temp, installer, target, font, bounds, history>>

SwapFails ==
    /\ at = "swap"
    /\ target = "default"
    /\ Ignores("swap")
    /\ excused' = excused \cup {"exe"}
    /\ Result(TRUE)
    /\ UNCHANGED <<disk, updates, cuts, wanted, told, interrupted>>

-----------------------------------------------------------------------------
(* The zip of the current part: Open, ExtractAllEntries, _unlink.          *)

Extracted == IF Current = "dash" THEN target ELSE Current

Open ==
    /\ at = "open"
    /\ IF temp[Current].is = "cut" THEN Result(FALSE) ELSE Goto("extract")
    /\ UNCHANGED <<disk, bounds, history>>

\* The file is opened, which empties it, and written.
StartExtract ==
    /\ at = "extract"
    /\ Writes(Extracted, Broken)
    /\ Goto("extracting")
    /\ UNCHANGED <<temp, installer, target, font, bounds, history>>

Extract ==
    /\ at = "extracting"
    /\ temp[Current].is = "good"
    /\ Writes(Extracted, temp[Current].ver)
    /\ excused' = excused \ {Extracted}
    /\ Goto("unlink")
    /\ UNCHANGED <<temp, installer, target, font, bounds, wanted, told, ignored, interrupted>>

\* The CRC is that of what was read: a short write is not seen.
ExtractShort ==
    /\ at = "extracting"
    /\ temp[Current].is = "good"
    /\ Ignores("write")
    /\ excused' = excused \cup {IF Current = "dash" THEN "exe" ELSE Current}
    /\ Goto("unlink")
    /\ UNCHANGED <<disk, updates, cuts, wanted, told, interrupted>>

\* An entry is bad: one before this file's, this file's, or a later one.
ExtractFails ==
    /\ at \in {"extract", "extracting"}
    /\ temp[Current].is = "bad"
    /\ \/ UNCHANGED files
       \/ at = "extracting" /\ Writes(Extracted, temp[Current].ver)
    /\ Result(FALSE)
    /\ UNCHANGED <<temp, installer, target, font, bounds, history>>

\* The zip has done its work.
Unlink ==
    /\ at = "unlink"
    /\ temp' = [temp EXCEPT ![Current] = NoZip]
    /\ IF Current = "dash" THEN Goto("delete") ELSE Result(TRUE)
    /\ UNCHANGED <<files, installer, target, font, bounds, history>>

\* _unlink fails, which is not looked at: the zip will be installed again.
UnlinkFails ==
    /\ at = "unlink"
    /\ Ignores("unlink")
    /\ IF Current = "dash" THEN Goto("delete") ELSE Result(TRUE)
    /\ UNCHANGED <<disk, updates, cuts, wanted, told, excused, interrupted>>

-----------------------------------------------------------------------------
(* A file that cannot be opened: fwrite is given a null FILE.              *)

\* What runs is in use, unless it was renamed away.
InUse == Extracted = "exe" /\ files["exe"] # Absent

\* The font's file; an entry before this file's, this file, or a later entry.
Dies ==
    /\ \/ at = "font" /\ ~ font /\ UNCHANGED files
       \/ at = "extract" /\ (temp[Current].is = "stuck" \/ InUse) /\ UNCHANGED files
       \/ at = "extracting" /\ temp[Current].is = "stuck" /\ Writes(Extracted, temp[Current].ver)
    /\ interrupted' = interrupted \cup Lost
    /\ GoesOff
    /\ UNCHANGED <<temp, installer, target, font, bounds, wanted, told, ignored, excused>>

-----------------------------------------------------------------------------
Installs ==
    \/ StartCopy \/ EndCopy \/ CopyFails \/ Rename \/ RenameFails
    \/ Delete(TRUE) \/ Delete(FALSE) \/ Swap \/ SwapFails
    \/ Open \/ StartExtract \/ Extract \/ ExtractShort \/ ExtractFails \/ Unlink \/ UnlinkFails
    \/ DumpFont \/ NoFont \/ Dies \/ Leave

Presses == Begin \/ GiveUp \/ Finish

Next ==
    \/ Boot \/ PowerOff \/ Repair
    \/ \E parts \in (SUBSET Part) \ {{}} : \E quality \in [parts -> Quality] : Schedule(parts, quality)
    \/ Installs \/ Presses

Spec == Init /\ [][Next]_vars

\* The program goes on; the user answers it, and switches the console on.
Fairness == WF_vars(Installs) /\ WF_vars(Presses) /\ WF_vars(Boot)
LiveSpec == Spec /\ Fairness

-----------------------------------------------------------------------------
(* Properties.                                                             *)

Place == {"off", "font", "menu", "dash", "copy", "copying", "rename", "open", "extract", "extracting",
          "unlink", "delete", "swap", "done", "leave"}

\* Every variable has the values of the code's; a zip is worked on only while
\* it is there, and only the dashboard's has a backup to make.
TypeOK ==
    /\ files \in [File -> Nat]
    /\ temp \in [Part -> [ver : Nat, is : Quality]]
    /\ installer \in {0, 1}
    /\ target \in {"exe", "default"} /\ font \in BOOLEAN
    /\ at \in Place
    /\ todo \subseteq Part
    /\ failed \in BOOLEAN
    /\ updates \in 0 .. MaxUpdates /\ failures \in 0 .. MaxFailures /\ cuts \in 0 .. MaxCuts
    /\ wanted \subseteq Part
    /\ told \in {"nothing", "success", "failed", "left"}
    /\ ignored \subseteq {"copy", "rename", "leftover", "write", "unlink", "swap", "repair"}
    /\ excused \subseteq File /\ interrupted \subseteq File
    /\ at \in {"copy", "copying", "rename", "open", "extract", "extracting", "unlink"}
          => todo # {} /\ HasZip(Current)
    /\ at \in {"copy", "copying", "rename", "delete", "swap"} => "dash" \in todo

\* Whenever the power fails, and whatever is wrong with the zip, a whole copy
\* of the dashboard is on the disk under one of its names, unless the backup
\* was not made and a second failure was not seen either.
ACopySurvives ==
    ("copy" \in ignored => ignored \cap {"rename", "write"} = {}) =>
        \E f \in Copies : Whole(files[f])

\* An update reported as completed is the one that is installed, unless the
\* failure of a call was not seen other than those of the backup and of the
\* deletion of a zip, or the user has put another executable there.
SuccessIsInstalled ==
    told = "success" /\ ignored \subseteq {"copy", "unlink"} =>
        \A p \in wanted : files[IF p = "dash" THEN "exe" ELSE p] = First + updates

\* A file in place that is not whole is one that the installer will write again,
\* one that the user was told to update manually, or one whose short write or
\* rename no result showed.  The only other way to have one: the installer was
\* interrupted at work, and at its next start the user left it with Back, which
\* says nothing of the files (RestartDashboard).
BrokenIsKnown ==
    \A f \in InPlace : ~ Whole(files[f]) =>
        \/ installer = 1
        \/ f \in excused
        \/ f \in interrupted /\ told = "left"

\* What the installer dies of, and is started again to die of.
DiesAtEveryStart ==
    \/ ~ font
    \/ \E p \in Part : temp[p].is = "stuck"
    \/ target = "exe" /\ files["delete_me"] # Absent   \* what runs stays in use

\* The installer does not run at every start for ever: once started it is
\* switched off, or there is no executable to start any more, unless a file
\* cannot be opened.  The power fails MaxCuts times and then no more.
InstallerEnds ==
    at = "font" ~> \/ installer = 0
                   \/ at = "off" /\ ~ Whole(files["exe"])
                   \/ DiesAtEveryStart

=============================================================================
