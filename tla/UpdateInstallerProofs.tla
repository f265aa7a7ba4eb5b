------------------------ MODULE UpdateInstallerProofs ------------------------
(***************************************************************************)
(* Proofs about UpdateInstaller, for any number of updates, failures and   *)
(* power cuts.                                                             *)
(*                                                                         *)
(* No invariant is inductive by itself.  TypeOK needs that every part to   *)
(* do has its zip (ZipInv).  That a copy survives needs which copy it is   *)
(* at each step of InstallDashUpdate (Backup).  That a broken file is      *)
(* known needs which file may be broken at each step without being excused *)
(* (Progress): the ones still to do, and between two starts the ones that  *)
(* were interrupted.  That what is reported is installed needs, of every   *)
(* part of the update and at each step, that its zip is still there, or    *)
(* its file is in place, or is about to be (Installing).                   *)
(***************************************************************************)
EXTENDS UpdateInstaller, FiniteSetTheorems, TLAPS

InZip == {"open", "extract", "extracting"}
AfterZip == {"unlink", "delete", "swap"}
InDash == {"copy", "copying", "rename", "delete", "swap"}
Working == {"copy", "copying", "rename", "done"} \cup InZip \cup AfterZip

\* Zips are whole versions, and every part to do has one; the dashboard's goes first.
ZipInv ==
    /\ \A p \in Part : HasZip(p) => Whole(temp[p].ver)
    /\ \A p \in todo : HasZip(p) \/ (p = "dash" /\ at \in {"delete", "swap"})
    /\ at = "done" => todo = {}
TypeInv == TypeOK /\ ZipInv

\* Which copies InstallDashUpdate can rely on.
Backup ==
    /\ at \in {"dash", "font", "menu", "copy", "copying", "rename"} => Whole(files["exe"])
    /\ files["delete_me"] # Absent => Whole(files["delete_me"])
    /\ "dash" \in todo /\ at \in {"rename"} \cup InZip \cup AfterZip
          => "copy" \in ignored \/ Whole(files["old"])
    /\ "dash" \in todo /\ at \in InZip \cup {"unlink"}
          => "rename" \in ignored \/ files["delete_me"] # Absent
    /\ "dash" \in todo /\ at \in AfterZip
          => "write" \in ignored \/ Whole(files[target])
CopyInv == TypeInv /\ Backup /\ ACopySurvives

\* Which files may be broken at which step, and what will be done about it.
Settled(f) == Whole(files[f]) \/ f \in excused
Progress ==
    /\ at \in {"font", "menu"} \cup Working => installer = 1
    /\ at \notin Working => \A f \in InPlace : Settled(f) \/ f \in interrupted
    /\ target = "default" => files["exe"] = Absent \/ Settled("exe")
    /\ \A p \in Part \ {"dash"} : Settled(p) \/ HasZip(p)
    /\ at = "unlink" /\ Current # "dash" => Settled(Current)
    /\ "dash" \in todo /\ at \in AfterZip => Whole(files[target]) \/ "exe" \in excused
    /\ at \in Working /\ ~ failed
          => \A f \in InPlace : Settled(f) \/ f \in todo \/ (f = "exe" /\ "dash" \in todo)
KnownInv == CopyInv /\ Progress /\ BrokenIsKnown

-----------------------------------------------------------------------------
LEMMA Constants ==
    /\ MaxUpdates \in Nat /\ MaxFailures \in Nat /\ MaxCuts \in Nat
    /\ "exe" \in File /\ "old" \in File /\ "delete_me" \in File /\ "default" \in File
    /\ "dash" \notin File /\ InPlace \subseteq File
    /\ \A p \in Part : p # "dash" => p \in InPlace /\ p \notin Copies
BY InstallerAssumption DEF File, Copies, InPlace

LEMMA CurrentType ==
    ASSUME TypeOK, todo # {}
    PROVE  /\ Current \in todo /\ Current \in Part
           /\ Current = "dash" <=> "dash" \in todo
           /\ Extracted \in File
           /\ Current = "dash" => Extracted = target
           /\ Current # "dash" => Extracted = Current /\ Current \in InPlace /\ Current \notin Copies
<1>1. todo \subseteq Part /\ target \in {"exe", "default"}
  BY DEF TypeOK
<1>2. Current \in todo /\ (Current = "dash" <=> "dash" \in todo)
  BY <1>1, InstallerAssumption DEF Current
<1> QED BY <1>1, <1>2, Constants DEF Extracted

LEMMA FirstStepType ==
    ASSUME NEW parts \in SUBSET Part
    PROVE  /\ FirstStep(parts) \in {"done", "copy", "open"}
           /\ FirstStep(parts) = "copy" <=> "dash" \in parts
           /\ FirstStep(parts) = "open" => parts # {}
           /\ FirstStep(parts) = "done" => parts = {}
BY DEF FirstStep

-----------------------------------------------------------------------------
(* Types.                                                                  *)

LEMMA InitType ==
    ASSUME Init
    PROVE  TypeInv
<1> USE Constants DEF Init, First, Absent, NoZip, HasZip, Whole, Broken
<1>1. files \in [File -> Nat]
  BY DEF File
<1>2. temp \in [Part -> [ver : Nat, is : Quality]] /\ ZipInv
  BY DEF Quality, ZipInv
<1>3. target \in {"exe", "default"} /\ font \in BOOLEAN /\ at \in Place /\ at = "off" /\ failed \in BOOLEAN
  BY Zenon DEF Place
<1>4. todo \subseteq Part /\ wanted \subseteq Part /\ excused \subseteq File /\ interrupted \subseteq File
      /\ told \in {"nothing", "success", "failed", "left"}
      /\ ignored \subseteq {"copy", "rename", "leftover", "write", "unlink", "swap", "repair"}
  OBVIOUS
<1>5. installer \in {0, 1}
      /\ updates \in 0 .. MaxUpdates /\ failures \in 0 .. MaxFailures /\ cuts \in 0 .. MaxCuts
  OBVIOUS
<1> QED BY <1>1, <1>2, <1>3, <1>4, <1>5 DEF TypeOK, TypeInv

\* What Result does to the parts to do, when what is left has its zips.
LEMMA ResultType ==
    ASSUME TypeInv, NEW ok \in BOOLEAN, Result(ok), todo # {},
           \A p \in todo \ {Current} : HasZip(p)'
    PROVE  /\ at' \in {"done", "open"} /\ failed' \in BOOLEAN
           /\ todo' \subseteq Part /\ todo' \subseteq todo /\ "dash" \notin todo'
           /\ todo' = todo \ {Current}
           /\ at' = "open" => todo' # {} /\ HasZip(Current)'
           /\ at' = "done" => todo' = {}
           /\ \A p \in todo' : HasZip(p)'
<1>1. todo' = todo \ {Current} /\ failed' \in BOOLEAN /\ at' = FirstStep(todo')
  BY DEF Result, TypeInv, TypeOK
<1>2. "dash" \notin todo' /\ todo' \subseteq Part /\ todo' \subseteq todo
  BY <1>1, CurrentType DEF TypeInv, TypeOK
<1>3. todo' # {} => Current' \in todo'
  BY <1>2, InstallerAssumption DEF Current
<1> QED BY <1>1, <1>2, <1>3 DEF FirstStep

-----------------------------------------------------------------------------
(* Types.                                                                  *)

LEMMA StepType ==
    ASSUME TypeInv, [Next]_vars
    PROVE  TypeInv'
<1> USE Constants DEF TypeInv
<1>u. CASE UNCHANGED vars
  BY <1>u DEF vars, disk, bounds, history, TypeOK, ZipInv, HasZip, Current
<1>1. CASE Boot
  BY <1>1 DEF Boot, disk, bounds, history, TypeOK, ZipInv, HasZip, Current, Place
<1>2. CASE PowerOff
  <2>1. cuts' \in 0 .. MaxCuts
    BY <1>2 DEF PowerOff, TypeOK
  <2>2. at' = "off" /\ todo' = {} /\ failed' = FALSE
        /\ UNCHANGED <<files, temp, installer, target, font, updates, failures, wanted, told, ignored, excused>>
    BY <1>2 DEF PowerOff, GoesOff, disk
  <2>3. interrupted' \subseteq File
    BY <1>2 DEF PowerOff, Lost, TypeOK
  <2> QED BY <2>1, <2>2, <2>3 DEF TypeOK, ZipInv, HasZip, Place
<1>3. ASSUME NEW parts \in (SUBSET Part) \ {{}}, NEW quality \in [parts -> Quality], Schedule(parts, quality)
      PROVE  TypeInv'
  <2>1. temp' \in [Part -> [ver : Nat, is : Quality]]
    BY <1>3 DEF Schedule, TypeOK, First
  <2>2. \A p \in Part : HasZip(p) => HasZip(p)'
    BY <1>3 DEF Schedule, TypeOK, HasZip, First, Absent
  <2>3. \A p \in Part : HasZip(p)' => Whole(temp'[p].ver)
    BY <1>3 DEF Schedule, TypeOK, ZipInv, HasZip, First, Absent, Whole, Broken
  <2>4. ZipInv'
    BY <1>3, <2>2, <2>3 DEF Schedule, ZipInv, TypeOK
  <2> QED BY <1>3, <2>1, <2>4 DEF Schedule, TypeOK
<1>4. CASE Repair
  <2>1. files' \in [File -> Nat]
    BY <1>4 DEF Repair, TypeOK, First
  <2>2. Current' = Current /\ \A p \in Part : HasZip(p)' = HasZip(p)
    BY <1>4 DEF Repair, Current, HasZip
  <2> QED BY <1>4, <2>1, <2>2 DEF Repair, TypeOK, ZipInv, bounds
<1>5. CASE Begin
  <2>1. todo' \subseteq Part /\ todo' = Found /\ at' = FirstStep(todo') /\ \A p \in todo' : HasZip(p)'
    BY <1>5 DEF Begin, Found, HasZip, disk
  <2>2. todo' # {} => Current' \in todo'
    BY <2>1, InstallerAssumption DEF Current
  <2>3. at' \in {"done", "copy", "open"} /\ (at' = "copy" <=> "dash" \in todo') /\ (at' = "open" => todo' # {})
        /\ (at' = "done" => todo' = {})
    BY <2>1, FirstStepType
  <2> QED BY <1>5, <2>1, <2>2, <2>3 DEF Begin, disk, bounds, TypeOK, ZipInv, HasZip, Place
<1>6. CASE GiveUp
  BY <1>6 DEF GiveUp, Goto, bounds, TypeOK, ZipInv, HasZip, Current, Place, Lost
<1>7. CASE Finish
  BY <1>7 DEF Finish, Goto, bounds, TypeOK, ZipInv, HasZip, Current, Place, Lost
<1>8. CASE Leave
  BY <1>8 DEF Leave, GoesOff, disk, bounds, history, TypeOK, ZipInv, HasZip, Current, Place
<1>9. CASE StartCopy \/ EndCopy
  <2>1. files' \in [File -> Nat]
    BY <1>9 DEF StartCopy, EndCopy, Writes, TypeOK, Broken
  <2> QED BY <1>9, <2>1 DEF StartCopy, EndCopy, Goto, bounds, history, TypeOK, ZipInv, HasZip, Current, Place
<1>10. CASE CopyFails
  BY <1>10 DEF CopyFails, Ignores, Fails, Goto, disk, TypeOK, ZipInv, HasZip, Current, Place
<1>11. CASE Rename
  <2>1. files' \in [File -> Nat]
    BY <1>11 DEF Rename, TypeOK, Absent
  <2> QED BY <1>11, <2>1 DEF Rename, Goto, bounds, history, TypeOK, ZipInv, HasZip, Current, Place
<1>12. CASE RenameFails
  <2>1. failures' \in 0 .. MaxFailures
        /\ ignored' \subseteq {"copy", "rename", "leftover", "write", "unlink", "swap", "repair"}
    <3>1. (failures < MaxFailures /\ failures' = failures + 1) \/ failures' = failures
      BY <1>12 DEF RenameFails, Ignores, Fails
    <3>2. ignored' \subseteq ignored \cup {"rename", "leftover"}
      BY <1>12 DEF RenameFails, Ignores
    <3> QED BY <3>1, <3>2 DEF TypeOK
  <2>2. at = "rename" /\ at' = "open" /\ UNCHANGED <<disk, todo, failed, updates, cuts, wanted, told, excused, interrupted>>
    BY <1>12 DEF RenameFails, Goto
  <2>3. Current' = Current /\ \A p \in Part : HasZip(p)' = HasZip(p)
    BY <2>2 DEF Current, HasZip, disk
  <2> QED BY <2>1, <2>2, <2>3 DEF disk, TypeOK, ZipInv, HasZip, Place
<1>13. ASSUME NEW gone \in BOOLEAN, Delete(gone)
       PROVE  TypeInv'
  <2>1. files' \in [File -> Nat]
    BY <1>13 DEF Delete, Writes, TypeOK, Absent
  <2> QED BY <1>13, <2>1 DEF Delete, Goto, bounds, history, TypeOK, ZipInv, HasZip, Current, Place
<1>14. CASE Swap
  <2>1. files' \in [File -> Nat]
    BY <1>14 DEF Swap, TypeOK, Absent
  <2>2. todo # {} /\ Current = "dash" /\ (\A p \in todo \ {Current} : HasZip(p)') /\ Result(TRUE)
    BY <1>14, CurrentType DEF Swap, TypeOK, ZipInv, HasZip
  <2> QED BY <1>14, <2>1, <2>2, ResultType DEF Swap, bounds, history, TypeOK, ZipInv, HasZip, Place
<1>15. CASE SwapFails
  <2>2. todo # {} /\ Current = "dash" /\ (\A p \in todo \ {Current} : HasZip(p)') /\ Result(TRUE)
    BY <1>15, CurrentType DEF SwapFails, TypeOK, ZipInv, HasZip, disk
  <2>3. failures' \in 0 .. MaxFailures /\ excused' \subseteq File
        /\ ignored' \subseteq {"copy", "rename", "leftover", "write", "unlink", "swap", "repair"}
    BY <1>15 DEF SwapFails, Ignores, Fails, TypeOK
  <2>4. UNCHANGED <<disk, updates, cuts, wanted, told, interrupted>>
    BY <1>15 DEF SwapFails
  <2>5. TypeOK'
    BY <2>2, <2>3, <2>4, ResultType DEF disk, TypeOK, Place
  <2>6. ZipInv'
    BY <2>2, <2>4, ResultType DEF disk, TypeOK, ZipInv, HasZip
  <2> QED BY <2>5, <2>6
<1>16. CASE Open
  <2>1. todo # {} /\ (\A p \in todo : HasZip(p)') /\ UNCHANGED <<disk, bounds, history>>
    BY <1>16 DEF Open, TypeOK, ZipInv, HasZip, disk
  <2>2. CASE Result(FALSE)
    BY <1>16, <2>1, <2>2, ResultType DEF disk, bounds, history, TypeOK, ZipInv, HasZip, Place
  <2>3. CASE Goto("extract")
    BY <1>16, <2>1, <2>3 DEF Open, Goto, disk, bounds, history, TypeOK, ZipInv, HasZip, Current, Place
  <2> QED BY <1>16, <2>2, <2>3 DEF Open
<1>17. CASE StartExtract
  <2>1. files' \in [File -> Nat]
    BY <1>17, CurrentType DEF StartExtract, Writes, TypeOK, Broken
  <2> QED BY <1>17, <2>1 DEF StartExtract, Goto, bounds, history, TypeOK, ZipInv, HasZip, Current, Place
<1>18. CASE Extract
  <2>1. Current \in Part /\ temp[Current].ver \in Nat
    BY <1>18, CurrentType DEF Extract, TypeOK
  <2>2. files' \in [File -> Nat]
    BY <1>18, <2>1, CurrentType DEF Extract, Writes, TypeOK
  <2> QED BY <1>18, <2>2 DEF Extract, Goto, bounds, TypeOK, ZipInv, HasZip, Current, Place
<1>19. CASE ExtractShort
  <2>1. (IF Current = "dash" THEN "exe" ELSE Current) \in File
    BY <1>19, CurrentType DEF ExtractShort, TypeOK
  <2>2. excused' \subseteq File
    BY <1>19, <2>1 DEF ExtractShort, TypeOK
  <2> QED BY <1>19, <2>2 DEF ExtractShort, Ignores, Fails, Goto, disk, TypeOK, ZipInv, HasZip, Current, Place
<1>20. CASE ExtractFails
  <2>1. todo # {} /\ (\A p \in todo : HasZip(p)') /\ Result(FALSE)
    BY <1>20 DEF ExtractFails, TypeOK, ZipInv, HasZip
  <2>2. Current \in Part /\ temp[Current].ver \in Nat
    BY <2>1, CurrentType DEF TypeOK
  <2>3. files' \in [File -> Nat]
    BY <1>20, <2>1, <2>2, CurrentType DEF ExtractFails, Writes, TypeOK
  <2> QED BY <1>20, <2>1, <2>3, ResultType DEF ExtractFails, bounds, history, TypeOK, ZipInv, HasZip, Place
<1>21. CASE Unlink
  <2>1. todo # {} /\ Current \in Part /\ (Current = "dash" <=> "dash" \in todo)
    BY <1>21, CurrentType DEF Unlink, TypeOK
  <2>2. temp' \in [Part -> [ver : Nat, is : Quality]]
    BY <1>21 DEF Unlink, TypeOK, NoZip, Absent, Quality
  <2>3. \A p \in Part \ {Current} : HasZip(p)' = HasZip(p)
    <3>1. temp' = [temp EXCEPT ![Current] = NoZip]
      BY <1>21 DEF Unlink
    <3>2. PICK c \in Part : c = Current
      BY <2>1
    <3>3. \A p \in Part \ {c} : temp'[p] = temp[p]
      BY <3>1, <3>2 DEF TypeOK
    <3> QED BY <3>2, <3>3 DEF HasZip
  <2>4. \A p \in Part : HasZip(p)' => Whole(temp'[p].ver)
    BY <1>21, <2>1 DEF Unlink, ZipInv, TypeOK, HasZip, NoZip, Absent
  <2>5. \A p \in todo \ {Current} : HasZip(p)'
    BY <1>21, <2>1, <2>3 DEF Unlink, ZipInv, TypeOK
  <2>6. CASE Current = "dash"
    <3>1. Goto("delete")
      BY <1>21, <2>6 DEF Unlink
    <3> QED BY <1>21, <2>1, <2>2, <2>4, <2>5, <2>6, <3>1 DEF Unlink, Goto, bounds, history, TypeOK, ZipInv, Place
  <2>7. CASE Current # "dash"
    <3>1. Result(TRUE)
      BY <1>21, <2>7 DEF Unlink
    <3> QED BY <1>21, <2>1, <2>2, <2>4, <2>5, <3>1, ResultType DEF Unlink, bounds, history, TypeOK, ZipInv, Place
  <2> QED BY <2>6, <2>7
<1>22. CASE UnlinkFails
  <2>1. todo # {} /\ (Current = "dash" <=> "dash" \in todo) /\ (\A p \in todo : HasZip(p)')
        /\ UNCHANGED <<disk, updates, cuts, wanted, told, excused, interrupted>>
    BY <1>22, CurrentType DEF UnlinkFails, TypeOK, ZipInv, HasZip, disk
  <2>2. failures' \in 0 .. MaxFailures
        /\ ignored' \subseteq {"copy", "rename", "leftover", "write", "unlink", "swap", "repair"}
    BY <1>22 DEF UnlinkFails, Ignores, Fails, TypeOK
  <2>3. CASE Goto("delete") /\ Current = "dash"
    BY <2>1, <2>2, <2>3 DEF Goto, disk, TypeOK, ZipInv, HasZip, Place
  <2>4. CASE Result(TRUE)
    BY <2>1, <2>2, <2>4, ResultType DEF disk, TypeOK, ZipInv, HasZip, Place
  <2> QED BY <1>22, <2>3, <2>4 DEF UnlinkFails
<1>23. CASE DumpFont
  BY <1>23 DEF DumpFont, Goto, disk, bounds, history, TypeOK, ZipInv, HasZip, Current, Place
<1>24. CASE NoFont
  BY <1>24 DEF NoFont, Goto, bounds, TypeOK, ZipInv, HasZip, Current, Place, Lost
<1>25. CASE Dies
  <2>1. at' = "off" /\ todo' = {} /\ failed' = FALSE /\ interrupted' = interrupted \cup Lost
        /\ UNCHANGED <<temp, installer, target, font, bounds, wanted, told, ignored, excused>>
    BY <1>25 DEF Dies, GoesOff
  <2>2. files' \in [File -> Nat]
    <3>1. CASE UNCHANGED files
      BY <3>1 DEF TypeOK
    <3>2. CASE at = "extracting" /\ Writes(Extracted, temp[Current].ver)
      <4>1. Current \in Part
        BY <3>2, CurrentType DEF TypeOK
      <4> QED BY <3>2, <4>1 DEF Writes, TypeOK
    <3> QED BY <1>25, <3>1, <3>2 DEF Dies
  <2>3. interrupted' \subseteq File
    BY <2>1 DEF Lost, TypeOK
  <2> QED BY <2>1, <2>2, <2>3 DEF bounds, TypeOK, ZipInv, HasZip, Place
<1> QED BY <1>u, <1>1, <1>2, <1>3, <1>4, <1>5, <1>6, <1>7, <1>8, <1>9, <1>10, <1>11, <1>12, <1>13, <1>14,
           <1>15, <1>16, <1>17, <1>18, <1>19, <1>20, <1>21, <1>22, <1>23, <1>24, <1>25
       DEF Next, Installs, Presses

\* Of the installer's places, files and zips: every zip that is worked on is
\* there, whatever was interrupted before.
THEOREM TypeCorrect == Spec => []TypeOK
<1>1. Init => TypeInv
  BY InitType
<1>2. TypeInv /\ [Next]_vars => TypeInv'
  BY StepType
<1>3. TypeInv => TypeOK
  BY DEF TypeInv
<1> QED BY <1>1, <1>2, <1>3, PTL DEF Spec

-----------------------------------------------------------------------------
(* A copy survives.                                                        *)

LEMMA InitCopy ==
    ASSUME Init
    PROVE  CopyInv
<1>1. TypeInv
  BY InitType
<1>2. Backup /\ Whole(files["exe"])
  BY Constants DEF Init, Backup, Whole, First, Broken, Absent, File, InPlace, Copies
<1> QED BY <1>1, <1>2 DEF CopyInv, ACopySurvives, Copies

\* What Result leaves of Backup: the dashboard is through.
LEMMA ResultBackup ==
    ASSUME TypeInv, NEW ok \in BOOLEAN, Result(ok), todo # {}
    PROVE  "dash" \notin todo' /\ at' \in {"done", "open"}
<1>1. todo' = todo \ {Current} /\ at' = FirstStep(todo')
  BY DEF Result
<1>2. "dash" \notin todo' /\ todo' \subseteq Part
  BY <1>1, CurrentType DEF TypeInv, TypeOK
<1> QED BY <1>1, <1>2 DEF FirstStep

LEMMA StepCopy ==
    ASSUME CopyInv, TypeInv', [Next]_vars
    PROVE  CopyInv'
<1> USE Constants DEF CopyInv, TypeInv, InZip, AfterZip
<1>u. CASE UNCHANGED vars
  BY <1>u DEF vars, disk, bounds, history, Backup, ACopySurvives
<1>1. CASE Boot
  BY <1>1 DEF Boot, disk, bounds, history, Backup, ACopySurvives
<1>2. CASE PowerOff
  BY <1>2 DEF PowerOff, GoesOff, disk, Backup, ACopySurvives
<1>3. ASSUME NEW parts \in (SUBSET Part) \ {{}}, NEW quality \in [parts -> Quality], Schedule(parts, quality)
      PROVE  CopyInv'
  <2>1. Whole(files["exe"]) /\ at = "dash"
    BY <1>3 DEF Schedule, Backup
  <2> QED BY <1>3, <2>1 DEF Schedule, Backup, ACopySurvives, Copies
<1>4. CASE Repair
  <2>1. Whole(files'["exe"]) /\ files'["delete_me"] = files["delete_me"] /\ at' = "off"
    BY <1>4 DEF Repair, TypeOK, Whole, First, Broken
  <2> QED BY <2>1 DEF Backup, ACopySurvives, Copies
<1>5. CASE Begin
  <2>1. at' \in {"done", "copy", "open"} /\ (at' = "open" => "dash" \notin todo')
    BY <1>5, FirstStepType DEF Begin, Found, FirstStep
  <2> QED BY <1>5, <2>1 DEF Begin, disk, bounds, history, Backup, ACopySurvives
<1>6. CASE GiveUp
  BY <1>6 DEF GiveUp, Goto, Backup, ACopySurvives
<1>7. CASE Finish
  BY <1>7 DEF Finish, Goto, Backup, ACopySurvives
<1>8. CASE Leave
  BY <1>8 DEF Leave, GoesOff, disk, bounds, history, Backup, ACopySurvives
<1>9. CASE StartCopy \/ EndCopy
  <2>1. files' \in [File -> Nat] /\ \A f \in File \ {"old"} : files'[f] = files[f]
    BY <1>9 DEF StartCopy, EndCopy, Writes, TypeOK
  <2>2. Whole(files'["exe"]) /\ files'["exe"] = files["exe"] /\ files'["delete_me"] = files["delete_me"]
    BY <1>9, <2>1 DEF StartCopy, EndCopy, Backup
  <2>3. EndCopy => Whole(files'["old"])
    BY <2>2 DEF EndCopy, Writes, TypeOK
  <2>4. Backup'
    BY <1>9, <2>2, <2>3 DEF StartCopy, EndCopy, Goto, Backup
  <2> QED BY <2>2, <2>4 DEF ACopySurvives, Copies
<1>10. CASE CopyFails
  <2>1. Whole(files'["exe"])
    BY <1>10 DEF CopyFails, disk, Backup
  <2> QED BY <1>10, <2>1 DEF CopyFails, Ignores, Goto, disk, Backup, ACopySurvives, Copies
<1>11. CASE Rename
  <2>1. files'["delete_me"] = files["exe"] /\ files'["old"] = files["old"] /\ Whole(files["exe"])
    BY <1>11 DEF Rename, TypeOK, Backup
  <2>2. Whole(files'["delete_me"]) /\ files'["delete_me"] # Absent
    BY <2>1 DEF Whole, Absent, Broken
  <2>3. at = "rename" /\ at' = "open" /\ UNCHANGED <<todo, ignored>>
    BY <1>11 DEF Rename, Goto, history
  <2> QED BY <2>1, <2>2, <2>3 DEF Backup, ACopySurvives, Copies
<1>12. CASE RenameFails
  <2>1. Whole(files'["exe"])
    BY <1>12 DEF RenameFails, disk, Backup
  <2>2. at = "rename" /\ at' = "open" /\ UNCHANGED <<files, target, todo>> /\ ignored \subseteq ignored'
        /\ (files["delete_me"] # Absent \/ "rename" \in ignored')
    BY <1>12 DEF RenameFails, Ignores, Goto, disk
  <2> QED BY <2>1, <2>2 DEF Backup, ACopySurvives, Copies
<1>13. ASSUME NEW gone \in BOOLEAN, Delete(gone)
       PROVE  CopyInv'
  <2>1. files' \in [File -> Nat] /\ (\A f \in File \ {"delete_me"} : files'[f] = files[f])
        /\ files'["delete_me"] \in {Absent, files["delete_me"]}
    BY <1>13 DEF Delete, Writes, TypeOK
  <2>2. at = "delete" /\ at' = "swap" /\ "dash" \in todo /\ UNCHANGED <<todo, ignored, target>>
        /\ target \in File \ {"delete_me"}
    BY <1>13 DEF Delete, Goto, history, TypeOK
  <2>3. Backup'
    BY <2>1, <2>2 DEF Backup
  <2>4. ("copy" \notin ignored => Whole(files'["old"])) /\ ("write" \notin ignored => Whole(files'[target]))
    BY <2>1, <2>2 DEF Backup
  <2> QED BY <2>2, <2>3, <2>4 DEF ACopySurvives, Copies, TypeOK
<1>14. CASE Swap
  <2>1. "dash" \notin todo' /\ at' \in {"done", "open"} /\ ignored' = ignored
    BY <1>14, ResultBackup DEF Swap, TypeOK, history
  <2>2. files'["delete_me"] = files["delete_me"] /\ files'["old"] = files["old"]
    BY <1>14 DEF Swap, TypeOK
  <2>3. Whole(files["exe"]) => Whole(files'["exe"])
    BY <1>14 DEF Swap, Whole, Absent, Broken
  <2>4. Whole(files["default"]) => Whole(files'["exe"]) \/ Whole(files'["default"])
    BY <1>14 DEF Swap, TypeOK
  <2> QED BY <2>1, <2>2, <2>3, <2>4 DEF Backup, ACopySurvives, Copies
<1>15. CASE SwapFails
  <2>1. "dash" \notin todo' /\ at' \in {"done", "open"} /\ ignored \subseteq ignored' /\ files' = files
    BY <1>15, ResultBackup DEF SwapFails, TypeOK, disk, Ignores
  <2> QED BY <2>1 DEF Backup, ACopySurvives
<1>16. CASE Open
  <2>1. todo # {} /\ UNCHANGED <<files, target, ignored>>
    BY <1>16 DEF Open, TypeOK, disk, history
  <2>2. CASE Result(FALSE)
    BY <2>1, <2>2, ResultBackup DEF Backup, ACopySurvives
  <2>3. CASE Goto("extract")
    BY <1>16, <2>1, <2>3 DEF Open, Goto, Backup, ACopySurvives
  <2> QED BY <1>16, <2>2, <2>3 DEF Open
<1>17. CASE StartExtract
  <2>1. todo # {} /\ at = "extract" /\ at' = "extracting" /\ UNCHANGED <<todo, target, ignored>>
    BY <1>17 DEF StartExtract, TypeOK, Goto, history
  <2>2. files' \in [File -> Nat] /\ \A f \in File \ {Extracted} : files'[f] = files[f]
    BY <1>17, <2>1, CurrentType DEF StartExtract, Writes, TypeOK
  <2>3. Extracted \notin {"old", "delete_me"}
    BY <2>1, CurrentType DEF TypeOK, Copies
  <2>4. files'["old"] = files["old"] /\ files'["delete_me"] = files["delete_me"]
    BY <2>2, <2>3
  <2>5. Backup'
    BY <2>1, <2>4 DEF Backup
  <2>6. CASE "dash" \in todo
    BY <2>1, <2>4, <2>5, <2>6 DEF Backup, ACopySurvives, Copies
  <2>7. CASE "dash" \notin todo
    <3>1. \A f \in Copies : files'[f] = files[f]
      BY <2>1, <2>2, <2>7, CurrentType DEF File
    <3> QED BY <2>1, <2>5, <3>1 DEF ACopySurvives
  <2> QED BY <2>6, <2>7
<1>18. CASE Extract
  <2>1. todo # {} /\ at = "extracting" /\ at' = "unlink" /\ UNCHANGED <<todo, target, ignored>>
    BY <1>18 DEF Extract, TypeOK, Goto
  <2>2. HasZip(Current) /\ Current \in Part
    BY <1>18, <2>1, CurrentType DEF TypeOK
  <2>3. Whole(temp[Current].ver)
    BY <2>2 DEF ZipInv
  <2>4. (\A f \in File \ {Extracted} : files'[f] = files[f]) /\ Whole(files'[Extracted])
    BY <1>18, <2>1, <2>3, CurrentType DEF Extract, Writes, TypeOK
  <2>5. Extracted \notin {"old", "delete_me"}
    BY <2>1, CurrentType DEF TypeOK, Copies
  <2>6. files'["old"] = files["old"] /\ files'["delete_me"] = files["delete_me"]
    BY <2>4, <2>5
  <2>7. "dash" \in todo => Whole(files'[target])
    BY <2>1, <2>4, CurrentType
  <2>8. Backup'
    BY <2>1, <2>6, <2>7 DEF Backup
  <2>9. \A f \in Copies : Whole(files[f]) => Whole(files'[f])
    BY <2>4 DEF File
  <2> QED BY <2>1, <2>8, <2>9 DEF ACopySurvives
<1>19. CASE ExtractShort
  <2>1. at = "extracting" /\ at' = "unlink" /\ UNCHANGED <<files, todo, target>>
        /\ ignored \subseteq ignored' /\ "write" \in ignored'
    BY <1>19 DEF ExtractShort, Ignores, Goto, disk
  <2> QED BY <2>1 DEF Backup, ACopySurvives
<1>20. CASE ExtractFails
  <2>1. todo # {} /\ Result(FALSE) /\ ignored' = ignored
    BY <1>20 DEF ExtractFails, TypeOK, history
  <2>2. HasZip(Current) /\ Current \in Part
    BY <1>20, <2>1, CurrentType DEF TypeOK, ExtractFails
  <2>3. Whole(temp[Current].ver)
    BY <2>2 DEF ZipInv
  <2>4. Extracted \notin {"old", "delete_me"}
    BY <2>1, CurrentType DEF TypeOK, Copies
  <2>5. files'["delete_me"] = files["delete_me"]
    BY <1>20, <2>4 DEF ExtractFails, Writes, TypeOK
  <2>6. \A f \in Copies : Whole(files[f]) => Whole(files'[f])
    BY <1>20, <2>3 DEF ExtractFails, Writes, TypeOK, File
  <2> QED BY <2>1, <2>5, <2>6, ResultBackup DEF Backup, ACopySurvives
<1>21. CASE Unlink
  <2>1. todo # {} /\ at = "unlink" /\ UNCHANGED <<files, target, ignored>> /\ (Current = "dash" <=> "dash" \in todo)
    BY <1>21, CurrentType DEF Unlink, TypeOK, history
  <2>2. CASE Current = "dash"
    BY <1>21, <2>1, <2>2 DEF Unlink, Goto, Backup, ACopySurvives
  <2>3. CASE Current # "dash"
    <3>1. Result(TRUE)
      BY <1>21, <2>3 DEF Unlink
    <3> QED BY <2>1, <3>1, ResultBackup DEF Backup, ACopySurvives
  <2> QED BY <2>2, <2>3
<1>22. CASE UnlinkFails
  <2>1. todo # {} /\ at = "unlink" /\ UNCHANGED <<files, target>> /\ ignored \subseteq ignored'
        /\ "copy" \notin ignored' \ ignored /\ (Current = "dash" <=> "dash" \in todo)
    BY <1>22, CurrentType DEF UnlinkFails, Ignores, TypeOK, disk
  <2>2. CASE Goto("delete")
    BY <2>1, <2>2 DEF Goto, Backup, ACopySurvives
  <2>3. CASE Result(TRUE)
    BY <2>1, <2>3, ResultBackup DEF Backup, ACopySurvives
  <2> QED BY <1>22, <2>2, <2>3 DEF UnlinkFails
<1>23. CASE DumpFont \/ NoFont
  BY <1>23 DEF DumpFont, NoFont, Goto, disk, history, Backup, ACopySurvives
<1>25. CASE Dies
  <2>1. at' = "off" /\ todo' = {} /\ UNCHANGED <<temp, target, ignored>>
    BY <1>25 DEF Dies, GoesOff
  <2>2. CASE UNCHANGED files
    BY <2>1, <2>2 DEF Backup, ACopySurvives
  <2>3. CASE at = "extracting" /\ Writes(Extracted, temp[Current].ver)
    <3>1. HasZip(Current) /\ Current \in Part /\ todo # {}
      BY <2>3, CurrentType DEF TypeOK
    <3>2. Whole(temp[Current].ver)
      BY <3>1 DEF ZipInv
    <3>3. Extracted # "delete_me"
      BY <3>1, CurrentType DEF TypeOK, Copies
    <3>4. files'["delete_me"] = files["delete_me"] /\ \A f \in Copies : Whole(files[f]) => Whole(files'[f])
      BY <2>3, <3>2, <3>3 DEF Writes, TypeOK, File
    <3> QED BY <2>1, <3>4 DEF Backup, ACopySurvives
  <2> QED BY <1>25, <2>2, <2>3 DEF Dies
<1> QED BY <1>u, <1>1, <1>2, <1>3, <1>4, <1>5, <1>6, <1>7, <1>8, <1>9, <1>10, <1>11, <1>12, <1>13, <1>14,
           <1>15, <1>16, <1>17, <1>18, <1>19, <1>20, <1>21, <1>22, <1>23, <1>25
       DEF Next, Installs, Presses

\* A whole copy of the dashboard is on the disk at every moment of an update,
\* whatever is interrupted and whatever is wrong with the zip, unless the backup
\* and a second call failed unseen.
THEOREM CopySurvives == Spec => []ACopySurvives
<1>1. Init => CopyInv
  BY InitCopy
<1>2. CopyInv /\ [Next]_vars => CopyInv'
  BY StepType, StepCopy DEF CopyInv
<1>3. CopyInv => ACopySurvives
  BY DEF CopyInv
<1> QED BY <1>1, <1>2, <1>3, PTL DEF Spec

-----------------------------------------------------------------------------
(* A broken file is known.                                                 *)

LEMMA InitKnown ==
    ASSUME Init
    PROVE  KnownInv
<1>1. CopyInv
  BY InitCopy
<1>2. \A f \in InPlace : Whole(files[f])
  BY Constants DEF Init, Whole, First, Broken
<1>3. at = "off" /\ todo = {}
  BY DEF Init
<1>4. "exe" \in InPlace /\ \A p \in Part \ {"dash"} : p \in InPlace
  BY DEF InPlace
<1> QED BY <1>1, <1>2, <1>3, <1>4 DEF KnownInv, Progress, Settled, BrokenIsKnown, Working, InZip, AfterZip

\* A step that breaks nothing in place, takes nobody's excuse, and goes on with
\* the same part before its zip is through.
LEMMA KeepsKnown ==
    ASSUME KnownInv, TypeInv',
           \A f \in InPlace : Settled(f) => Settled(f)',
           UNCHANGED <<target, installer, todo, failed>>,
           files["exe"] = Absent => files'["exe"] = Absent \/ Settled("exe")',
           \A p \in Part : HasZip(p) => HasZip(p)',
           at \in Working, at' \in Working \ AfterZip
    PROVE  Progress' /\ BrokenIsKnown'
<1>1. installer' = 1
  BY DEF KnownInv, Progress
<1>2. "exe" \in InPlace /\ \A p \in Part \ {"dash"} : p \in InPlace
  BY DEF InPlace
<1> QED BY <1>1, <1>2 DEF KnownInv, Progress, BrokenIsKnown, AfterZip

\* The result of a part whose file is settled, or of one that failed.
LEMMA ResultKnown ==
    ASSUME KnownInv, NEW ok \in BOOLEAN, Result(ok), todo # {}, at \in Working,
           UNCHANGED <<target, installer>>,
           \A p \in Part \ {"dash"} : Settled(p)' \/ HasZip(p)',
           target = "default" => files'["exe"] = Absent \/ Settled("exe")',
           \A f \in InPlace : Settled(f) => Settled(f)',
           ok => \A f \in InPlace :
                     f = Current \/ (f = "exe" /\ Current = "dash") => Settled(f)'
    PROVE  Progress' /\ BrokenIsKnown'
<1>1. installer' = 1
  BY DEF KnownInv, Progress
<1>2. at' \in {"done", "open"} /\ "dash" \notin todo' /\ todo' = todo \ {Current} /\ failed' = (failed \/ ~ ok)
  BY ResultBackup DEF KnownInv, CopyInv, Result
<1>3. Current \in todo /\ (Current = "dash" <=> "dash" \in todo)
  BY CurrentType DEF KnownInv, CopyInv, TypeInv
<1>4. ASSUME ~ failed', NEW f \in InPlace
      PROVE  Settled(f)' \/ f \in todo'
  <2>1. ~ failed /\ ok
    BY <1>2, <1>4
  <2>4. Settled(f) \/ f \in todo \/ (f = "exe" /\ "dash" \in todo)
    BY <2>1 DEF KnownInv, Progress
  <2>5. CASE Settled(f)
    BY <2>5
  <2>6. CASE f \in todo
    BY <1>2, <2>1, <2>6
  <2>7. CASE f = "exe" /\ "dash" \in todo
    BY <1>3, <2>1, <2>7
  <2> QED BY <2>4, <2>5, <2>6, <2>7
<1> QED BY <1>1, <1>2, <1>4 DEF Progress, BrokenIsKnown, Working, InZip, AfterZip

\* Every step preserves Progress and BrokenIsKnown.
LEMMA StepKnown ==
    ASSUME KnownInv, CopyInv', [Next]_vars
    PROVE  Progress' /\ BrokenIsKnown'
<1> USE Constants DEF KnownInv, CopyInv, TypeInv
<1>e. "exe" \in InPlace /\ \A p \in Part \ {"dash"} : p \in InPlace
  BY DEF InPlace
<1>u. CASE UNCHANGED vars
  BY <1>u DEF vars, disk, bounds, history, Progress, Settled, HasZip, Current, BrokenIsKnown
<1>1. CASE Boot
  BY <1>1 DEF Boot, disk, bounds, history, Progress, Settled, HasZip, Current, BrokenIsKnown,
              Working, InZip, AfterZip, TypeOK
<1>2. CASE PowerOff
  <2>1. at' = "off" /\ todo' = {} /\ UNCHANGED <<files, temp, installer, target, told, excused>>
        /\ interrupted \subseteq interrupted' /\ (at # "dash" => Lost \subseteq interrupted')
    BY <1>2 DEF PowerOff, GoesOff, disk
  <2>2. \A f \in InPlace : Settled(f)' \/ f \in interrupted'
    BY <2>1 DEF Progress, Settled, Lost, Working, InZip, AfterZip
  <2> QED BY <2>1, <2>2 DEF Progress, Settled, HasZip, BrokenIsKnown, Working, InZip, AfterZip
<1>3. ASSUME NEW parts \in (SUBSET Part) \ {{}}, NEW quality \in [parts -> Quality], Schedule(parts, quality)
      PROVE  Progress' /\ BrokenIsKnown'
  <2>1. \A p \in Part : HasZip(p) => HasZip(p)'
    BY <1>3 DEF Schedule, TypeOK, HasZip, First, Absent
  <2>2. at = "dash" /\ at' = "dash" /\ installer' = 1 /\ UNCHANGED <<files, target, excused, interrupted>>
    BY <1>3 DEF Schedule
  <2> QED BY <2>1, <2>2 DEF Progress, Settled, BrokenIsKnown, Working, InZip, AfterZip
<1>4. CASE Repair
  <2>1. (\A f \in File \ {"exe"} : files'[f] = files[f]) /\ Whole(files'["exe"])
    BY <1>4 DEF Repair, TypeOK, Whole, First, Broken
  <2>2. at = "off" /\ at' = "off" /\ UNCHANGED <<temp, installer, target, told, interrupted>>
        /\ excused' = excused \ {"exe"}
    BY <1>4 DEF Repair
  <2>3. \A f \in InPlace : Settled(f) => Settled(f)'
    BY <2>1, <2>2 DEF Settled
  <2>4. "exe" \notin Part
    BY InstallerAssumption
  <2> QED BY <1>e, <2>1, <2>2, <2>3 DEF Progress, Settled, HasZip, BrokenIsKnown, Working, InZip, AfterZip
<1>5. CASE Begin
  <2>1. at = "menu" /\ UNCHANGED <<files, temp, installer, target, excused>> /\ todo' = Found
        /\ at' \in {"done", "copy", "open"}
    BY <1>5, FirstStepType DEF Begin, disk, Found
  <2>2. \A f \in InPlace : Settled(f) \/ f \in todo'
    BY <2>1 DEF Progress, Backup, Settled, Found, InPlace
  <2>3. \A f \in InPlace : Settled(f)' = Settled(f)
    BY <2>1 DEF Settled
  <2> QED BY <1>e, <2>1, <2>2, <2>3 DEF Progress, Settled, HasZip, BrokenIsKnown, Working, InZip, AfterZip
<1>6. CASE GiveUp
  <2>1. at = "menu" /\ at' = "leave" /\ told' = "left"
        /\ UNCHANGED <<files, temp, target, todo, excused, interrupted>>
    BY <1>6 DEF GiveUp, Goto
  <2>2. \A f \in InPlace : Settled(f)' \/ f \in interrupted'
    BY <2>1 DEF Progress, Settled, Working, InZip, AfterZip
  <2> QED BY <1>e, <2>1, <2>2 DEF Progress, Settled, HasZip, BrokenIsKnown, Working, InZip, AfterZip
<1>7. CASE Finish
  <2>1. at = "done" /\ at' = "leave" /\ UNCHANGED <<files, temp, target, todo>> /\ excused \subseteq excused'
        /\ (failed => excused' = excused \cup Lost)
    BY <1>7 DEF Finish, Goto
  <2>2. todo = {}
    BY <2>1 DEF ZipInv
  <2>3. \A f \in InPlace : Settled(f)'
    BY <2>1, <2>2 DEF Progress, Settled, Working, Lost
  <2> QED BY <1>e, <2>1, <2>2, <2>3 DEF Progress, Settled, HasZip, BrokenIsKnown, Working, InZip, AfterZip
<1>8. CASE Leave
  BY <1>8 DEF Leave, GoesOff, disk, bounds, history, Progress, Settled, HasZip, BrokenIsKnown,
              Working, InZip, AfterZip
<1>9. CASE StartCopy \/ EndCopy
  <2>1. (\A f \in InPlace : files'[f] = files[f]) /\ files'["exe"] = files["exe"] /\ excused' = excused
    BY <1>9, InstallerAssumption DEF StartCopy, EndCopy, Writes, TypeOK, history, InPlace
  <2>2. at \in Working /\ at' \in Working \ AfterZip /\ UNCHANGED <<temp, installer, target, todo, failed>>
    BY <1>9 DEF StartCopy, EndCopy, Goto, Working, AfterZip
  <2> QED BY <2>1, <2>2, KeepsKnown DEF Settled, HasZip
<1>10. CASE CopyFails \/ RenameFails
  <2>1. at \in Working /\ at' \in Working \ AfterZip
        /\ UNCHANGED <<files, temp, installer, target, todo, failed, excused>>
    BY <1>10 DEF CopyFails, RenameFails, Goto, Working, InZip, AfterZip, disk
  <2> QED BY <2>1, KeepsKnown DEF Settled, HasZip
<1>11. CASE Rename
  <2>1. at = "rename" /\ at' = "open" /\ UNCHANGED <<temp, installer, target, todo, failed, excused>>
        /\ "dash" \in todo
    BY <1>11 DEF Rename, Goto, history, TypeOK
  <2>2. files'["exe"] = Absent /\ \A f \in File \ {"exe", "delete_me"} : files'[f] = files[f]
    BY <1>11 DEF Rename, TypeOK
  <2>3. \A f \in InPlace \ {"exe"} : Settled(f)' = Settled(f)
    <3>1. \A f \in InPlace \ {"exe"} : f \in File \ {"exe", "delete_me"}
      BY InstallerAssumption DEF InPlace, File, Copies
    <3> QED BY <2>1, <2>2, <3>1 DEF Settled
  <2>4. installer' = 1
    BY <2>1 DEF Progress, Working
  <2>5. \A p \in Part \ {"dash"} : p # "exe"
    BY InstallerAssumption
  <2> QED BY <1>e, <2>1, <2>2, <2>3, <2>4, <2>5 DEF Progress, HasZip, BrokenIsKnown, Working, InZip, AfterZip
<1>13. ASSUME NEW gone \in BOOLEAN, Delete(gone)
       PROVE  Progress' /\ BrokenIsKnown'
  <2>1. at = "delete" /\ at' = "swap" /\ UNCHANGED <<temp, installer, target, todo, failed, excused>>
        /\ target \in {"exe", "default"}
    BY <1>13 DEF Delete, Goto, history, TypeOK
  <2>2. \A f \in File \ {"delete_me"} : files'[f] = files[f]
    BY <1>13 DEF Delete, Writes, TypeOK
  <2>3. \A f \in InPlace : Settled(f)' = Settled(f) /\ files'[f] = files[f]
    BY <2>1, <2>2, InstallerAssumption DEF Settled, InPlace
  <2>4. files'[target] = files[target] /\ files'["exe"] = files["exe"]
    BY <2>1, <2>2
  <2> QED BY <1>e, <2>1, <2>3, <2>4 DEF Progress, Settled, HasZip, BrokenIsKnown, Working, InZip, AfterZip
<1>14. CASE Swap
  <2>1. at = "swap" /\ "dash" \in todo /\ Result(TRUE) /\ UNCHANGED <<temp, installer, target, excused>>
        /\ todo # {} /\ Current = "dash" /\ target \in {"exe", "default"}
    BY <1>14, CurrentType DEF Swap, TypeOK, history
  <2>2. \A f \in InPlace \ {"exe"} : files'[f] = files[f]
    BY <1>14, InstallerAssumption DEF Swap, TypeOK, InPlace
  <2>3. Whole(files[target]) \/ "exe" \in excused
    BY <2>1 DEF Progress, AfterZip
  <2>4. Settled("exe")'
    <3>1. CASE target = "exe"
      BY <1>14, <2>1, <2>3, <3>1 DEF Swap, Settled
    <3>2. CASE target = "default" /\ files["exe"] = Absent
      BY <1>14, <2>1, <2>3, <3>2 DEF Swap, Settled, TypeOK
    <3>3. CASE target = "default" /\ files["exe"] # Absent
      BY <1>14, <2>1, <3>3 DEF Swap, Settled, Progress
    <3> QED BY <2>1, <3>1, <3>2, <3>3
  <2>5. \A f \in InPlace : Settled(f) => Settled(f)'
    BY <2>1, <2>2, <2>4 DEF Settled
  <2>6. \A p \in Part \ {"dash"} : Settled(p)' \/ HasZip(p)'
    BY <1>e, <2>1, <2>5 DEF Progress, HasZip
  <2>7. \A f \in InPlace : f = Current \/ (f = "exe" /\ Current = "dash") => Settled(f)'
    BY <2>1, <2>4
  <2> QED BY <2>1, <2>4, <2>5, <2>6, <2>7, ResultKnown DEF Working, AfterZip
<1>15. CASE SwapFails
  <2>1. at = "swap" /\ "dash" \in todo /\ Result(TRUE) /\ UNCHANGED <<files, temp, installer, target>>
        /\ todo # {} /\ Current = "dash" /\ excused' = excused \cup {"exe"}
    BY <1>15, CurrentType DEF SwapFails, TypeOK, disk
  <2>2. Settled("exe")' /\ \A f \in InPlace : Settled(f) => Settled(f)'
    BY <2>1 DEF Settled
  <2>3. \A p \in Part \ {"dash"} : Settled(p)' \/ HasZip(p)'
    BY <1>e, <2>1, <2>2 DEF Progress, HasZip
  <2>4. \A f \in InPlace : f = Current \/ (f = "exe" /\ Current = "dash") => Settled(f)'
    BY <2>1, <2>2
  <2> QED BY <2>1, <2>2, <2>3, <2>4, ResultKnown DEF Working, AfterZip
<1>16. CASE Open
  <2>1. at = "open" /\ todo # {} /\ UNCHANGED <<files, temp, installer, target, excused>>
    BY <1>16 DEF Open, TypeOK, disk, history
  <2>2. \A f \in File : Settled(f)' = Settled(f)
    BY <2>1 DEF Settled
  <2>3. \A p \in Part \ {"dash"} : Settled(p)' \/ HasZip(p)'
    BY <1>e, <2>1, <2>2 DEF Progress, HasZip
  <2>4. CASE Result(FALSE)
    BY <2>1, <2>2, <2>3, <2>4, ResultKnown DEF Progress, Working, InZip
  <2>5. CASE Goto("extract")
    BY <2>1, <2>2, <2>5, KeepsKnown DEF Goto, Working, InZip, AfterZip, HasZip
  <2> QED BY <1>16, <2>4, <2>5 DEF Open
<1>17. CASE StartExtract
  <2>1. at = "extract" /\ at' = "extracting" /\ todo # {}
        /\ UNCHANGED <<temp, installer, target, todo, failed, excused>>
    BY <1>17 DEF StartExtract, TypeOK, Goto, history
  <2>2. \A f \in File \ {Extracted} : files'[f] = files[f]
    BY <1>17, <2>1, CurrentType DEF StartExtract, Writes, TypeOK
  <2>3. \A f \in InPlace : Settled(f)' = Settled(f) \/ f = Extracted
    BY <2>1, <2>2 DEF Settled
  <2>4. installer' = 1
    BY <2>1 DEF Progress, Working, InZip
  <2>5. \A f \in InPlace : f = Extracted => f \in todo \/ (f = "exe" /\ "dash" \in todo)
    BY <2>1, CurrentType, InstallerAssumption DEF TypeOK, InPlace
  <2>6. \A p \in Part \ {"dash"} : p = Extracted => HasZip(p)
    BY <2>1, CurrentType, InstallerAssumption DEF TypeOK, ZipInv
  <2>7. target = "default" => files'["exe"] = Absent \/ Settled("exe")'
    BY <2>1, <2>2, <1>e, CurrentType DEF Progress, Settled, Copies
  <2> QED BY <1>e, <2>1, <2>3, <2>4, <2>5, <2>6, <2>7
          DEF Progress, HasZip, BrokenIsKnown, Working, InZip, AfterZip
<1>18. CASE Extract
  <2>1. at = "extracting" /\ at' = "unlink" /\ todo # {}
        /\ UNCHANGED <<temp, installer, target, todo, failed>> /\ excused' = excused \ {Extracted}
    BY <1>18 DEF Extract, TypeOK, Goto
  <2>2. HasZip(Current) /\ Current \in Part
    BY <1>18, <2>1, CurrentType DEF TypeOK
  <2>3. Whole(temp[Current].ver)
    BY <2>2 DEF ZipInv
  <2>4. (\A f \in File \ {Extracted} : files'[f] = files[f]) /\ Whole(files'[Extracted])
    BY <1>18, <2>1, <2>3, CurrentType DEF Extract, Writes, TypeOK
  <2>5. \A f \in File : (Settled(f) => Settled(f)') /\ (f = Extracted => Whole(files'[f]))
    BY <2>1, <2>4 DEF Settled
  <2>6. installer' = 1
    BY <2>1 DEF Progress, Working, InZip
  <2>7. target = "default" => files'["exe"] = Absent \/ Settled("exe")'
    BY <2>1, <2>4, <2>5, CurrentType DEF Progress, Copies
  <2>8. "dash" \in todo => Whole(files'[target])
    BY <2>1, <2>4, CurrentType
  <2>9. Current' = Current
    BY <2>1 DEF Current
  <2>10. Current # "dash" => Settled(Current)'
    BY <2>1, <2>4, <2>9, CurrentType DEF Settled
  <2> QED BY <1>e, <2>1, <2>5, <2>6, <2>7, <2>8, <2>9, <2>10
          DEF Progress, HasZip, BrokenIsKnown, Working, InZip, AfterZip
<1>19. CASE ExtractShort
  <2>1. at = "extracting" /\ at' = "unlink" /\ todo # {}
        /\ UNCHANGED <<files, temp, installer, target, todo, failed>>
        /\ excused' = excused \cup {IF Current = "dash" THEN "exe" ELSE Current}
    BY <1>19 DEF ExtractShort, TypeOK, Goto, disk
  <2>2. \A f \in File : Settled(f) => Settled(f)'
    BY <2>1 DEF Settled
  <2>3. installer' = 1
    BY <2>1 DEF Progress, Working, InZip
  <2>4. Current' = Current /\ (Current = "dash" <=> "dash" \in todo)
    BY <2>1, CurrentType DEF Current
  <2>5. (Current = "dash" => "exe" \in excused') /\ (Current # "dash" => Current \in excused')
    BY <2>1
  <2>6. target = "default" => files'["exe"] = Absent \/ Settled("exe")'
    BY <2>1, <2>2 DEF Progress
  <2> QED BY <1>e, <2>1, <2>2, <2>3, <2>4, <2>5, <2>6
          DEF Progress, Settled, HasZip, BrokenIsKnown, Working, InZip, AfterZip
<1>20. CASE ExtractFails
  <2>1. at \in InZip /\ todo # {} /\ Result(FALSE) /\ UNCHANGED <<temp, installer, target, excused>>
    BY <1>20 DEF ExtractFails, TypeOK, history, InZip
  <2>2. HasZip(Current) /\ Current \in Part
    BY <1>20, <2>1, CurrentType DEF TypeOK, ExtractFails
  <2>3. Whole(temp[Current].ver)
    BY <2>2 DEF ZipInv
  <2>4. \A f \in File : Whole(files[f]) => Whole(files'[f])
    BY <1>20, <2>3 DEF ExtractFails, Writes, TypeOK
  <2>5. \A f \in File : Settled(f) => Settled(f)'
    BY <2>1, <2>4 DEF Settled
  <2>6. target = "default" => files'["exe"] = files["exe"]
    BY <1>20, <2>1, CurrentType DEF ExtractFails, Writes, TypeOK, Copies
  <2>7. \A p \in Part \ {"dash"} : Settled(p)' \/ HasZip(p)'
    BY <1>e, <2>1, <2>5 DEF Progress, HasZip
  <2>8. target = "default" => files'["exe"] = Absent \/ Settled("exe")'
    BY <2>5, <2>6 DEF Progress
  <2> QED BY <2>1, <2>5, <2>7, <2>8, ResultKnown DEF Working
<1>21. CASE Unlink
  <2>1. at = "unlink" /\ todo # {} /\ UNCHANGED <<files, installer, target, excused>>
        /\ Current \in Part /\ (Current = "dash" <=> "dash" \in todo)
    BY <1>21, CurrentType DEF Unlink, TypeOK, history
  <2>2. \A f \in File : Settled(f)' = Settled(f)
    BY <2>1 DEF Settled
  <2>3. \A p \in Part : p # Current => HasZip(p)' = HasZip(p)
    BY <1>21 DEF Unlink, TypeOK, HasZip
  <2>4. Current # "dash" => Settled(Current)
    BY <2>1 DEF Progress
  <2>5. \A p \in Part \ {"dash"} : Settled(p)' \/ HasZip(p)'
    <3>1. TAKE p \in Part \ {"dash"}
    <3>2. CASE p = Current
      BY <1>e, <2>2, <2>4, <3>2
    <3>3. CASE p # Current
      BY <1>e, <2>2, <2>3, <3>3 DEF Progress
    <3> QED BY <3>2, <3>3
  <2>6. target = "default" => files'["exe"] = Absent \/ Settled("exe")'
    BY <2>1, <2>2 DEF Progress
  <2>7. CASE Current = "dash"
    <3>1. at' = "delete" /\ UNCHANGED <<todo, failed>>
      BY <1>21, <2>7 DEF Unlink, Goto
    <3>2. installer' = 1
      BY <2>1 DEF Progress, Working, AfterZip
    <3> QED BY <1>e, <2>1, <2>2, <2>5, <2>6, <2>7, <3>1, <3>2 DEF Progress, BrokenIsKnown, Working, AfterZip
  <2>8. CASE Current # "dash"
    <3>1. Result(TRUE)
      BY <1>21, <2>8 DEF Unlink
    <3>2. \A f \in InPlace : f = Current \/ (f = "exe" /\ Current = "dash") => Settled(f)'
      <4>1. TAKE f \in InPlace
      <4> QED BY <2>2, <2>4, <2>8
    <3> QED BY <2>1, <2>2, <2>5, <2>6, <3>1, <3>2, ResultKnown DEF Working, AfterZip
  <2> QED BY <2>7, <2>8
<1>22. CASE UnlinkFails
  <2>1. at = "unlink" /\ todo # {} /\ UNCHANGED <<files, temp, installer, target, excused>>
        /\ (Current = "dash" <=> "dash" \in todo)
    BY <1>22, CurrentType DEF UnlinkFails, TypeOK, disk
  <2>2. \A f \in File : Settled(f)' = Settled(f)
    BY <2>1 DEF Settled
  <2>3. \A p \in Part \ {"dash"} : Settled(p)' \/ HasZip(p)'
    BY <1>e, <2>1, <2>2 DEF Progress, HasZip
  <2>4. target = "default" => files'["exe"] = Absent \/ Settled("exe")'
    BY <2>1, <2>2 DEF Progress
  <2>5. CASE Current = "dash"
    <3>1. at' = "delete" /\ UNCHANGED <<todo, failed>>
      BY <1>22, <2>5 DEF UnlinkFails, Goto
    <3>2. installer' = 1
      BY <2>1 DEF Progress, Working, AfterZip
    <3> QED BY <1>e, <2>1, <2>2, <2>3, <2>4, <2>5, <3>1, <3>2 DEF Progress, BrokenIsKnown, Working, AfterZip
  <2>6. CASE Current # "dash"
    <3>1. Result(TRUE)
      BY <1>22, <2>6 DEF UnlinkFails
    <3>2. \A f \in InPlace : f = Current \/ (f = "exe" /\ Current = "dash") => Settled(f)'
      BY <2>1, <2>2, <2>6 DEF Progress
    <3> QED BY <2>1, <2>2, <2>3, <2>4, <3>1, <3>2, ResultKnown DEF Working, AfterZip
  <2> QED BY <2>5, <2>6
<1>23. CASE DumpFont
  BY <1>23 DEF DumpFont, Goto, disk, history, Progress, Settled, HasZip, BrokenIsKnown, Working, InZip, AfterZip
<1>24. CASE NoFont
  <2>1. at = "font" /\ at' = "leave" /\ excused' = excused \cup Lost
        /\ UNCHANGED <<files, temp, target, todo, interrupted>>
    BY <1>24 DEF NoFont, Goto
  <2>2. \A f \in InPlace : Settled(f)'
    BY <2>1 DEF Settled, Lost
  <2> QED BY <1>e, <2>1, <2>2 DEF Progress, Settled, HasZip, BrokenIsKnown, Working, InZip, AfterZip
<1>25. CASE Dies
  <2>1. /\ at \in {"font", "extract", "extracting"} /\ at' = "off" /\ todo' = {}
        /\ UNCHANGED <<temp, installer, target, told, excused>>
        /\ interrupted' = interrupted \cup Lost
        /\ UNCHANGED files \/ (at = "extracting" /\ Writes(Extracted, temp[Current].ver))
    BY <1>25 DEF Dies, GoesOff
  <2>2. (\A f \in File : Whole(files[f]) => Whole(files'[f]))
        /\ (target = "default" => files'["exe"] = files["exe"])
    <3>1. CASE UNCHANGED files
      BY <3>1
    <3>2. CASE at = "extracting" /\ Writes(Extracted, temp[Current].ver)
      <4>1. HasZip(Current) /\ Current \in Part /\ todo # {}
        BY <3>2, CurrentType DEF TypeOK
      <4>2. Whole(temp[Current].ver)
        BY <4>1 DEF ZipInv
      <4>3. target = "default" => Extracted # "exe"
        BY <4>1, CurrentType DEF Copies
      <4> QED BY <3>2, <4>2, <4>3 DEF Writes, TypeOK
    <3> QED BY <2>1, <3>1, <3>2
  <2>3. installer' = 1
    BY <2>1 DEF Progress, Working, InZip
  <2>4. \A f \in InPlace : Settled(f)' \/ f \in interrupted'
    BY <2>1, <2>2 DEF Settled, Lost
  <2>5. \A f \in InPlace : Settled(f) => Settled(f)'
    BY <2>1, <2>2 DEF Settled
  <2> QED BY <1>e, <2>1, <2>2, <2>3, <2>4, <2>5 DEF Progress, HasZip, BrokenIsKnown, Working, InZip, AfterZip
<1> QED BY <1>u, <1>1, <1>2, <1>3, <1>4, <1>5, <1>6, <1>7, <1>8, <1>9, <1>10, <1>11, <1>13, <1>14,
           <1>15, <1>16, <1>17, <1>18, <1>19, <1>20, <1>21, <1>22, <1>23, <1>24, <1>25
       DEF Next, Installs, Presses

\* A file in place that is not whole is one that the installer will write again,
\* one that the user was told to update manually, or one whose short write or
\* rename no result showed; or the installer was interrupted at work and the
\* user left it with Back at its next start.  There is no other way to forget an
\* update half-way, wherever the power fails or a file cannot be opened.
THEOREM BrokenKnown == Spec => []BrokenIsKnown
<1>1. Init => KnownInv
  BY InitKnown
<1>2. KnownInv /\ [Next]_vars => KnownInv'
  BY StepType, StepCopy, StepKnown DEF KnownInv, CopyInv
<1>3. KnownInv => BrokenIsKnown
  BY DEF KnownInv
<1> QED BY <1>1, <1>2, <1>3, PTL DEF Spec

-----------------------------------------------------------------------------
(* The update that is reported is the one installed.                       *)

\* Of this update only the backup and the deletion of a zip may have failed unseen.
Seen == ignored \subseteq {"copy", "unlink"}
Latest == First + updates
Installed(p) == files[IF p = "dash" THEN "exe" ELSE p] = Latest

\* The dashboard is extracted, and not yet under the name it runs by.
Swapping ==
    /\ "dash" \in todo /\ at \in {"delete", "swap"}
    /\ files[target] = Latest
    /\ target = "default" => files["exe"] = Absent

Installing ==
    /\ installer = 1 =>
          \A p \in wanted : \/ HasZip(p) \/ Installed(p)
                            \/ p = "dash" /\ (Swapping \/ (at = "off" /\ files["exe"] = Absent))
    /\ "dash" \in todo /\ target = "default" /\ at \in InZip \cup {"unlink"} => files["exe"] = Absent
    /\ at = "unlink" /\ Current \in wanted => files[Extracted] = Latest
    /\ "dash" \in todo \cap wanted /\ at \in {"delete", "swap"} => Swapping
    /\ at \in Working /\ ~ failed => \A p \in wanted : p \in todo \/ Installed(p)

UpdateInv ==
    /\ told # "nothing" => installer = 0
    /\ \A p \in wanted : HasZip(p) => temp[p].ver = Latest
    /\ Seen => Installing
SuccessInv == KnownInv /\ UpdateInv /\ SuccessIsInstalled

LEMMA InitInstalled ==
    ASSUME Init
    PROVE  SuccessInv
<1>1. KnownInv
  BY InitKnown
<1>2. told = "nothing" /\ wanted = {} /\ todo = {} /\ at = "off"
  BY DEF Init
<1> QED BY <1>1, <1>2 DEF SuccessInv, UpdateInv, Installing, SuccessIsInstalled, Working, InZip, AfterZip

\* A step of RunInstaller reports nothing: what it leaves to do is Installing.
LEMMA WorkInstalled ==
    ASSUME SuccessInv, at \in Working, UNCHANGED <<installer, told, wanted, updates>>,
           \A p \in Part : HasZip(p)' => HasZip(p) /\ temp'[p] = temp[p],
           Seen' => Installing'
    PROVE  UpdateInv' /\ SuccessIsInstalled'
<1>1. installer = 1 /\ told = "nothing"
  BY DEF SuccessInv, UpdateInv, KnownInv, Progress
<1>2. wanted \subseteq Part
  BY DEF SuccessInv, KnownInv, CopyInv, TypeInv, TypeOK
<1> QED BY <1>1, <1>2 DEF SuccessInv, UpdateInv, SuccessIsInstalled, Latest

\* What is installed stays so while the files in place do.
LEMMA KeepsInstalled ==
    ASSUME SuccessInv, at \in Working, Seen, todo # {},
           at' \in Working \ {"unlink", "delete", "swap"},
           UNCHANGED <<installer, told, wanted, updates, target, temp, todo, failed>>,
           \A f \in InPlace : files'[f] = files[f],
           "dash" \in todo /\ target = "default" /\ at' \in InZip => files'["exe"] = Absent,
           at \in {"copy", "copying", "rename"} \cup InZip
    PROVE  Installing'
<1>1. \A p \in wanted : p = "dash" \/ p \in InPlace
  BY Constants DEF SuccessInv, KnownInv, CopyInv, TypeInv, TypeOK
<1>2. "exe" \in InPlace
  BY DEF InPlace
<1>3. \A p \in wanted : Installed(p) => Installed(p)'
  BY <1>1, <1>2 DEF Installed, Latest
<1>4. at \notin {"delete", "swap", "off"}
  BY DEF InZip
<1> QED BY <1>3, <1>4 DEF SuccessInv, UpdateInv, Installing, Swapping, HasZip

\* A part has its result: it is installed, or it failed and has its zip.
LEMMA ResultInstalled ==
    ASSUME SuccessInv, at \in Working, Seen, NEW ok \in BOOLEAN, Result(ok), todo # {},
           UNCHANGED <<installer, told, wanted, updates, target>>,
           \A p \in wanted : HasZip(p)' \/ Installed(p)',
           ok => \A p \in wanted : p = Current \/ Installed(p) => Installed(p)'
    PROVE  Installing'
<1>1. /\ at' \in {"done", "open"} /\ "dash" \notin todo'
      /\ todo' = todo \ {Current} /\ failed' = (failed \/ ~ ok)
  BY ResultBackup DEF SuccessInv, KnownInv, CopyInv, Result
<1>2. ASSUME ~ failed', NEW p \in wanted
      PROVE  p \in todo' \/ Installed(p)'
  <2>1. ~ failed /\ ok
    BY <1>1, <1>2
  <2>2. p \in todo \/ Installed(p)
    BY <2>1 DEF SuccessInv, UpdateInv, Installing
  <2> QED BY <1>1, <2>1, <2>2
<1> QED BY <1>1, <1>2 DEF Installing

\* A zip is extracted over its own part's file and over no other's.
LEMMA OtherFile ==
    ASSUME TypeOK, todo # {}, NEW p \in Part, p # Current
    PROVE  Extracted # (IF p = "dash" THEN "exe" ELSE p)
<1>1. p # "dash" => p \notin Copies
  BY Constants
<1>2. target \in Copies /\ "exe" \in Copies
  BY DEF TypeOK, Copies
<1> QED BY <1>1, <1>2, CurrentType

\* The zip has done its work, whether it could be deleted or not.
LEMMA ZipDone ==
    ASSUME SuccessInv, at = "unlink", todo # {}, ignored \subseteq ignored',
           UNCHANGED <<files, installer, target, told, wanted, updates>>,
           IF Current = "dash" THEN Goto("delete") ELSE Result(TRUE),
           \A p \in Part : HasZip(p)' => HasZip(p) /\ temp'[p] = temp[p],
           \A p \in Part \ {Current} : HasZip(p)' = HasZip(p)
    PROVE  UpdateInv' /\ SuccessIsInstalled'
<1> USE DEF SuccessInv, KnownInv, CopyInv, TypeInv
<1>1. Current \in Part /\ (Current = "dash" <=> "dash" \in todo) /\ wanted \subseteq Part
      /\ target \in {"exe", "default"}
  BY CurrentType DEF TypeOK
<1>2. installer = 1
  BY DEF Progress, Working, AfterZip
<1>3. \A p \in wanted : Installed(p)' = Installed(p)
  BY DEF Installed, Latest
<1>4. ASSUME Seen
      PROVE  Installing'
  <2>1. \A p \in wanted : p # Current => HasZip(p)' \/ Installed(p)'
    BY <1>1, <1>2, <1>3, <1>4 DEF UpdateInv, Installing, Swapping
  <2>2. Current \in wanted => files[Extracted] = Latest
    BY <1>4 DEF UpdateInv, Installing
  <2>3. CASE Current = "dash"
    <3>1. at' = "delete" /\ UNCHANGED <<todo, failed>>
      BY <2>3 DEF Goto
    <3>2. Extracted = target
      BY <2>3, CurrentType
    <3>3. "dash" \in wanted => Swapping'
      BY <1>1, <1>4, <2>2, <2>3, <3>1, <3>2 DEF Swapping, UpdateInv, Installing, Latest
    <3> QED BY <1>1, <1>3, <1>4, <2>1, <2>3, <3>1, <3>3 DEF UpdateInv, Installing, InZip, Working, AfterZip
  <2>4. CASE Current # "dash"
    <3>1. ASSUME NEW p \in wanted, p = Current
          PROVE  Installed(p)'
      BY <1>3, <2>2, <2>4, <3>1, CurrentType DEF Installed
    <3>2. \A p \in wanted : p = Current \/ Installed(p) => Installed(p)'
      BY <1>3, <3>1
    <3>3. \A p \in wanted : HasZip(p)' \/ Installed(p)'
      BY <2>1, <3>1
    <3> QED BY <1>4, <2>4, <3>2, <3>3, ResultInstalled DEF Working, AfterZip
  <2> QED BY <2>3, <2>4
<1>5. Seen' => Seen
  BY DEF Seen
<1> QED BY <1>4, <1>5, WorkInstalled DEF Working, AfterZip

\* Every step preserves the two: what is wanted is installed, or still to do.
LEMMA StepInstalled ==
    ASSUME SuccessInv, KnownInv', [Next]_vars
    PROVE  UpdateInv' /\ SuccessIsInstalled'
<1> USE Constants DEF SuccessInv, KnownInv, CopyInv, TypeInv
<1>e. "exe" \in InPlace /\ \A p \in Part \ {"dash"} : p \in InPlace
  BY DEF InPlace
<1>w. wanted \subseteq Part /\ todo \subseteq Part /\ target \in {"exe", "default"}
  BY DEF TypeOK
<1>u. CASE UNCHANGED vars
  BY <1>u DEF vars, disk, bounds, history, UpdateInv, Seen, Installing, Installed, Swapping, HasZip,
              Current, Extracted, Latest, SuccessIsInstalled
<1>1. CASE Boot
  <2>1. at = "off" /\ at' \in {"font", "dash"} /\ Whole(files["exe"])
        /\ UNCHANGED <<disk, todo, failed, bounds, history>>
    BY <1>1 DEF Boot
  <2>2. files["exe"] # Absent
    BY <2>1 DEF Whole, Absent, Broken
  <2> QED BY <2>1, <2>2 DEF disk, bounds, history, UpdateInv, Seen, Installing, Installed, Swapping, HasZip,
              Latest, SuccessIsInstalled, Working, InZip, AfterZip
<1>2. CASE PowerOff
  <2>1. at' = "off" /\ todo' = {} /\ UNCHANGED <<files, temp, installer, target, updates, wanted, told, ignored>>
    BY <1>2 DEF PowerOff, GoesOff, disk
  <2>2. ASSUME Swapping
        PROVE  files["exe"] \in {Absent, Latest}
    BY <2>2, <1>w DEF Swapping
  <2>3. ASSUME Seen, installer = 1, NEW p \in wanted
        PROVE  HasZip(p) \/ Installed(p) \/ (p = "dash" /\ files["exe"] = Absent)
    BY <2>2, <2>3 DEF UpdateInv, Installing, Installed
  <2> QED BY <2>1, <2>3 DEF UpdateInv, Seen, Installing, Installed, HasZip,
              Latest, SuccessIsInstalled, Working, InZip, AfterZip
<1>3. ASSUME NEW parts \in (SUBSET Part) \ {{}}, NEW quality \in [parts -> Quality], Schedule(parts, quality)
      PROVE  UpdateInv' /\ SuccessIsInstalled'
  <2>1. at' = "dash" /\ told' = "nothing" /\ wanted' = parts /\ updates' = updates + 1 /\ ignored' = {}
    BY <1>3 DEF Schedule
  <2>2. \A p \in parts : temp'[p].ver = Latest'
    BY <1>3 DEF Schedule, Latest
  <2>3. \A p \in parts : HasZip(p)'
    BY <2>1, <2>2 DEF HasZip, Latest, First, Absent, TypeOK
  <2> QED BY <2>1, <2>2, <2>3 DEF UpdateInv, Installing, SuccessIsInstalled, Working, InZip, AfterZip
<1>4. CASE Repair
  <2>1. ~ Seen' /\ ~ (ignored' \subseteq {"copy", "unlink"})
    BY <1>4 DEF Repair, Seen
  <2>2. UNCHANGED <<temp, installer, told, wanted, updates>>
    BY <1>4 DEF Repair, bounds
  <2> QED BY <2>1, <2>2 DEF UpdateInv, SuccessIsInstalled, HasZip, Latest
<1>5. CASE Begin
  <2>1. at = "menu" /\ UNCHANGED <<files, temp, installer, target, wanted, told, ignored, updates>>
        /\ todo' = Found /\ at' \in {"done", "copy", "open"} /\ (at' = "open" => "dash" \notin todo')
    BY <1>5, FirstStepType DEF Begin, disk, bounds, Found, FirstStep
  <2>2. installer = 1
    BY <2>1 DEF Progress
  <2>3. \A p \in wanted : HasZip(p) => p \in todo'
    BY <1>w, <2>1 DEF Found
  <2> QED BY <2>1, <2>2, <2>3 DEF UpdateInv, Seen, Installing, Installed, Swapping, HasZip,
              Latest, SuccessIsInstalled, InZip
<1>6. CASE GiveUp
  BY <1>6 DEF GiveUp, Goto, bounds, UpdateInv, Seen, Installing, HasZip,
              Latest, SuccessIsInstalled, Working, InZip, AfterZip
<1>7. CASE Finish
  <2>1. at = "done" /\ at' = "leave" /\ installer' = 0 /\ (told' = "success" => ~ failed)
        /\ UNCHANGED <<files, temp, target, todo, wanted, ignored, updates>>
    BY <1>7 DEF Finish, Goto, bounds
  <2>2. todo = {} /\ installer = 1
    BY <2>1 DEF ZipInv, Progress, Working
  <2>3. ASSUME Seen, ~ failed, NEW p \in wanted
        PROVE  Installed(p)
    BY <2>1, <2>2, <2>3 DEF UpdateInv, Installing, Swapping, Working
  <2>4. SuccessIsInstalled'
    BY <2>1, <2>3 DEF SuccessIsInstalled, Seen, Installed, Latest
  <2> QED BY <2>1, <2>4 DEF UpdateInv, Seen, Installing, HasZip, Latest, Working, InZip, AfterZip
<1>8. CASE Leave
  BY <1>8 DEF Leave, GoesOff, disk, bounds, history, UpdateInv, Seen, Installing, Installed, Swapping, HasZip,
              Latest, SuccessIsInstalled, Working, InZip, AfterZip
<1>9. CASE StartCopy \/ EndCopy \/ CopyFails \/ RenameFails
  <2>1. /\ at \in {"copy", "copying", "rename"} /\ at' \in {"copying", "rename", "open"}
        /\ (at' = "open" <=> at = "rename") /\ todo # {}
        /\ UNCHANGED <<installer, told, wanted, updates, target, temp, todo, failed>>
    BY <1>9 DEF StartCopy, EndCopy, CopyFails, RenameFails, Goto, disk, bounds, history, TypeOK
  <2>2. \A f \in InPlace : files'[f] = files[f]
    BY <1>9, InstallerAssumption DEF StartCopy, EndCopy, CopyFails, RenameFails, Writes, TypeOK, disk, InPlace
  <2>3. ignored \subseteq ignored' /\ (at = "rename" => ~ Seen')
    BY <1>9 DEF StartCopy, EndCopy, CopyFails, RenameFails, Ignores, history, Seen
  <2>4. Seen' => Seen /\ at # "rename"
    BY <2>3 DEF Seen
  <2>5. Seen' => Installing'
    BY <2>1, <2>2, <2>4, KeepsInstalled DEF Working, InZip
  <2> QED BY <2>1, <2>5, WorkInstalled DEF Working, InZip, HasZip
<1>11. CASE Rename
  <2>1. at = "rename" /\ at' = "open" /\ "dash" \in todo /\ HasZip(Current)
        /\ UNCHANGED <<temp, installer, target, todo, failed, ignored, told, wanted, updates>>
    BY <1>11 DEF Rename, Goto, history, bounds, TypeOK
  <2>2. files'["exe"] = Absent /\ \A f \in File \ {"exe", "delete_me"} : files'[f] = files[f]
    BY <1>11 DEF Rename, TypeOK
  <2>3. HasZip("dash")
    BY <2>1, CurrentType
  <2>4. \A p \in wanted \ {"dash"} : Installed(p)' = Installed(p)
    BY <1>w, <2>1, <2>2, InstallerAssumption DEF Installed, Latest, InPlace
  <2>5. Seen' => Installing'
    BY <2>1, <2>2, <2>3, <2>4 DEF UpdateInv, Seen, Installing, HasZip, Working, Swapping, InZip
  <2> QED BY <2>1, <2>5, WorkInstalled DEF Working, HasZip
<1>13. ASSUME NEW gone \in BOOLEAN, Delete(gone)
       PROVE  UpdateInv' /\ SuccessIsInstalled'
  <2>1. at = "delete" /\ at' = "swap"
        /\ UNCHANGED <<temp, installer, target, todo, failed, ignored, told, wanted, updates>>
    BY <1>13 DEF Delete, Goto, history, bounds
  <2>2. \A f \in File \ {"delete_me"} : files'[f] = files[f]
    BY <1>13 DEF Delete, Writes, TypeOK
  <2>3. \A p \in wanted : Installed(p)' = Installed(p)
    BY <1>e, <1>w, <2>1, <2>2, InstallerAssumption DEF Installed, Latest
  <2>4. files'[target] = files[target] /\ files'["exe"] = files["exe"]
    BY <1>w, <2>1, <2>2
  <2>5. Swapping => Swapping'
    BY <2>1, <2>4 DEF Swapping, Latest
  <2>6. Seen' => Installing'
    BY <2>1, <2>3, <2>5 DEF UpdateInv, Seen, Installing, HasZip, Working, AfterZip, InZip
  <2> QED BY <2>1, <2>6, WorkInstalled DEF Working, AfterZip, HasZip
<1>14. CASE Swap
  <2>1. at = "swap" /\ "dash" \in todo /\ todo # {} /\ Current = "dash" /\ Result(TRUE)
        /\ UNCHANGED <<temp, installer, target, ignored, told, wanted, updates>>
    BY <1>14, CurrentType DEF Swap, TypeOK, history, bounds
  <2>2. \A f \in File \ {"exe", "default"} : files'[f] = files[f]
    BY <1>14 DEF Swap, TypeOK
  <2>3. \A p \in wanted \ {"dash"} : Installed(p)' = Installed(p)
    BY <1>w, <2>1, <2>2, InstallerAssumption DEF Installed, Latest, InPlace
  <2>4. Swapping => files'["exe"] = Latest
    BY <1>14, <1>w DEF Swap, Swapping, TypeOK
  <2>5. ASSUME Seen, NEW p \in wanted
        PROVE  (HasZip(p)' \/ Installed(p)') /\ (p = Current \/ Installed(p) => Installed(p)')
    <3>1. installer = 1
      BY <2>1 DEF Progress, Working, AfterZip
    <3>2. CASE p = "dash"
      BY <2>1, <2>4, <2>5, <3>2 DEF UpdateInv, Installing, Installed, Latest
    <3>3. CASE p # "dash"
      BY <2>1, <2>3, <2>5, <3>1, <3>3 DEF UpdateInv, Installing, HasZip
    <3> QED BY <3>2, <3>3
  <2>6. Seen' => Installing'
    BY <2>1, <2>5, ResultInstalled DEF Seen, Working, AfterZip
  <2> QED BY <2>1, <2>6, WorkInstalled DEF Working, AfterZip, HasZip
<1>15. CASE SwapFails \/ ExtractShort
  <2>1. at \in {"swap", "extracting"} /\ ~ Seen'
        /\ UNCHANGED <<temp, installer, told, wanted, updates>>
    <3>1. CASE SwapFails
      BY <3>1 DEF SwapFails, Ignores, Seen, disk
    <3>2. CASE ExtractShort
      BY <3>2 DEF ExtractShort, Ignores, Seen, disk
    <3> QED BY <1>15, <3>1, <3>2
  <2> QED BY <2>1, WorkInstalled DEF Working, AfterZip, InZip, HasZip
<1>16. CASE Open
  <2>1. at = "open" /\ todo # {}
        /\ UNCHANGED <<files, temp, installer, target, ignored, told, wanted, updates>>
    BY <1>16 DEF Open, TypeOK, disk, history, bounds
  <2>2. CASE Result(FALSE)
    <3>1. ASSUME Seen, NEW p \in wanted
          PROVE  HasZip(p)' \/ Installed(p)'
      <4>1. installer = 1
        BY <2>1 DEF Progress, Working, InZip
      <4> QED BY <2>1, <3>1, <4>1 DEF UpdateInv, Installing, Installed, HasZip, Latest, Swapping
    <3>2. Seen' => Installing'
      BY <2>1, <2>2, <3>1, ResultInstalled DEF Seen, HasZip, Working, InZip
    <3> QED BY <2>1, <3>2, WorkInstalled DEF Working, InZip, HasZip
  <2>3. CASE Goto("extract")
    <3>1. at' = "extract" /\ UNCHANGED <<todo, failed>>
      BY <2>3 DEF Goto
    <3>2. Seen' => Seen /\ ("dash" \in todo /\ target = "default" => files["exe"] = Absent)
      BY <2>1 DEF Seen, UpdateInv, Installing, InZip
    <3>3. Seen' => Installing'
      BY <2>1, <3>1, <3>2, KeepsInstalled DEF Working, InZip
    <3> QED BY <2>1, <3>3, WorkInstalled DEF Working, InZip, HasZip
  <2> QED BY <1>16, <2>2, <2>3 DEF Open
<1>17. CASE StartExtract
  <2>1. at = "extract" /\ at' = "extracting" /\ todo # {} /\ HasZip(Current) /\ Current \in Part
        /\ UNCHANGED <<temp, installer, target, todo, failed, ignored, told, wanted, updates>>
    BY <1>17, CurrentType DEF StartExtract, TypeOK, Goto, history, bounds
  <2>2. \A f \in File \ {Extracted} : files'[f] = files[f]
    BY <1>17, <2>1, CurrentType DEF StartExtract, Writes, TypeOK
  <2>3. \A p \in wanted : p # Current /\ Installed(p) => Installed(p)'
    BY <1>e, <1>w, <2>1, <2>2, OtherFile DEF Installed, Latest
  <2>4. "dash" \in todo /\ target = "default" => files'["exe"] = files["exe"]
    BY <2>1, <2>2, CurrentType
  <2>5. ASSUME Seen, NEW p \in wanted
        PROVE  HasZip(p) \/ Installed(p)'
    <3>1. installer = 1
      BY <2>1 DEF Progress, Working, InZip
    <3> QED BY <2>1, <2>3, <2>5, <3>1 DEF UpdateInv, Installing, Swapping
  <2>6. Seen' => Installing'
    BY <2>1, <2>3, <2>4, <2>5, CurrentType DEF UpdateInv, Seen, Installing, HasZip, InZip, Working
  <2> QED BY <2>1, <2>6, WorkInstalled DEF Working, InZip, HasZip
<1>18. CASE Extract
  <2>1. at = "extracting" /\ at' = "unlink" /\ todo # {} /\ HasZip(Current) /\ Current \in Part
        /\ UNCHANGED <<temp, installer, target, todo, failed, ignored, told, wanted, updates>>
    BY <1>18, CurrentType DEF Extract, TypeOK, Goto, bounds
  <2>2. (\A f \in File \ {Extracted} : files'[f] = files[f]) /\ files'[Extracted] = temp[Current].ver
    BY <1>18, <2>1, CurrentType DEF Extract, Writes, TypeOK
  <2>3. \A p \in wanted : p # Current /\ Installed(p) => Installed(p)'
    BY <1>e, <1>w, <2>1, <2>2, OtherFile DEF Installed, Latest
  <2>4. "dash" \in todo /\ target = "default" => files'["exe"] = files["exe"]
    BY <2>1, <2>2, CurrentType
  <2>5. ASSUME Seen, NEW p \in wanted
        PROVE  HasZip(p) \/ Installed(p)'
    <3>1. installer = 1
      BY <2>1 DEF Progress, Working, InZip
    <3> QED BY <2>1, <2>3, <2>5, <3>1 DEF UpdateInv, Installing, Swapping
  <2>6. Current' = Current /\ Extracted' = Extracted
    BY <2>1 DEF Current, Extracted
  <2>7. Current \in wanted => files'[Extracted] = Latest'
    BY <2>1, <2>2 DEF UpdateInv, Latest
  <2>8. Seen' => Installing'
    BY <2>1, <2>3, <2>4, <2>5, <2>6, <2>7, CurrentType DEF UpdateInv, Seen, Installing, HasZip, InZip, Working
  <2> QED BY <2>1, <2>8, WorkInstalled DEF Working, InZip, HasZip
<1>20. CASE ExtractFails
  <2>1. at \in InZip /\ todo # {} /\ Result(FALSE) /\ HasZip(Current) /\ Current \in Part
        /\ UNCHANGED <<temp, installer, target, ignored, told, wanted, updates>>
    BY <1>20, CurrentType DEF ExtractFails, TypeOK, history, bounds, InZip
  <2>2. \A f \in File \ {Extracted} : files'[f] = files[f]
    BY <1>20, <2>1, CurrentType DEF ExtractFails, Writes, TypeOK
  <2>3. \A p \in wanted : p # Current /\ Installed(p) => Installed(p)'
    BY <1>e, <1>w, <2>1, <2>2, OtherFile DEF Installed, Latest
  <2>4. ASSUME Seen, NEW p \in wanted
        PROVE  HasZip(p)' \/ Installed(p)'
    <3>1. installer = 1 /\ at \notin {"delete", "swap", "off"}
      BY <2>1 DEF Progress, Working, InZip
    <3> QED BY <2>1, <2>3, <2>4, <3>1 DEF UpdateInv, Installing, Swapping, HasZip
  <2>5. Seen' => Installing'
    BY <2>1, <2>4, ResultInstalled DEF Seen, HasZip, Working
  <2> QED BY <2>1, <2>5, WorkInstalled DEF Working, HasZip
<1>21. CASE Unlink
  <2>1. at = "unlink" /\ todo # {} /\ Current \in todo /\ Current \in Part /\ (Current = "dash" <=> "dash" \in todo)
        /\ UNCHANGED <<files, installer, target, ignored, told, wanted, updates>>
    BY <1>21, CurrentType DEF Unlink, TypeOK, history, bounds
  <2>2. PICK c \in Part : c = Current
    BY <2>1
  <2>3. temp'[c] = NoZip /\ \A p \in Part \ {c} : temp'[p] = temp[p]
    BY <1>21, <2>2 DEF Unlink, TypeOK
  <2>4. (\A p \in Part : HasZip(p)' => p # c /\ HasZip(p) /\ temp'[p] = temp[p])
        /\ \A p \in Part \ {c} : HasZip(p)' = HasZip(p)
    BY <2>3 DEF HasZip, NoZip
  <2>5. \A p \in wanted : Installed(p)' = Installed(p)
    BY <2>1 DEF Installed, Latest
  <2> QED BY <1>21, <2>1, <2>2, <2>4, <2>5, ZipDone DEF Unlink, history
<1>22. CASE UnlinkFails
  <2>1. at = "unlink" /\ todo # {}
        /\ UNCHANGED <<files, temp, installer, target, told, wanted, updates>>
    BY <1>22 DEF UnlinkFails, TypeOK, disk
  <2>2. \A p \in wanted : Installed(p)' = Installed(p)
    BY <2>1 DEF Installed, Latest
  <2>3. ignored \subseteq ignored'
    BY <1>22 DEF UnlinkFails, Ignores
  <2> QED BY <1>22, <2>1, <2>2, <2>3, ZipDone DEF UnlinkFails, HasZip
<1>23. CASE DumpFont
  BY <1>23 DEF DumpFont, Goto, disk, bounds, history, UpdateInv, Seen, Installing, Installed, Swapping, HasZip,
              Latest, SuccessIsInstalled, Working, InZip, AfterZip
<1>24. CASE NoFont
  BY <1>24 DEF NoFont, Goto, bounds, UpdateInv, Seen, Installing, HasZip,
              Latest, SuccessIsInstalled, Working, InZip, AfterZip
<1>25. CASE Dies
  <2>1. at \in {"font", "extract", "extracting"} /\ at' = "off" /\ todo' = {}
        /\ UNCHANGED <<temp, installer, target, updates, wanted, told, ignored>>
        /\ (UNCHANGED files \/ (at = "extracting" /\ Writes(Extracted, temp[Current].ver)))
    BY <1>25 DEF Dies, GoesOff, bounds
  <2>2. ASSUME NEW p \in wanted
        PROVE  (HasZip(p) => HasZip(p)') /\ (~ HasZip(p) /\ Installed(p) => Installed(p)')
    <3>1. CASE UNCHANGED files
      BY <2>1, <3>1 DEF Installed, Latest, HasZip
    <3>2. CASE at = "extracting" /\ Writes(Extracted, temp[Current].ver)
      <4>1. HasZip(Current) /\ Current \in Part /\ todo # {}
        BY <3>2, CurrentType DEF TypeOK
      <4>2. p # Current => Extracted # (IF p = "dash" THEN "exe" ELSE p)
        BY <1>w, <4>1, OtherFile
      <4>3. (IF p = "dash" THEN "exe" ELSE p) \in File
        BY <1>w
      <4> QED BY <2>1, <3>2, <4>1, <4>2, <4>3 DEF Installed, Latest, HasZip, Writes, TypeOK
    <3> QED BY <2>1, <3>1, <3>2
  <2>3. installer = 1 /\ at \notin {"delete", "swap", "off"}
    BY <2>1 DEF Progress, Working, InZip
  <2>4. Seen' => Installing'
    BY <2>1, <2>2, <2>3 DEF Seen, UpdateInv, Installing, Swapping, Working, InZip, AfterZip
  <2> QED BY <2>1, <2>3, <2>4 DEF UpdateInv, SuccessIsInstalled, HasZip, Latest
<1> QED BY <1>u, <1>1, <1>2, <1>3, <1>4, <1>5, <1>6, <1>7, <1>8, <1>9, <1>11, <1>13, <1>14,
           <1>15, <1>16, <1>17, <1>18, <1>20, <1>21, <1>22, <1>23, <1>24, <1>25
       DEF Next, Installs, Presses

\* An update the user is told was completed is on the disk, every part of it
\* and under the name it runs by, whatever interrupted the installer before, if
\* no call but the backup's and the deletion of a zip has failed unseen.
THEOREM UpdateInstalled == Spec => []SuccessIsInstalled
<1>1. Init => SuccessInv
  BY InitInstalled
<1>2. SuccessInv /\ [Next]_vars => SuccessInv'
  BY StepType, StepCopy, StepKnown, StepInstalled DEF SuccessInv, KnownInv, CopyInv
<1>3. SuccessInv => SuccessIsInstalled
  BY DEF SuccessInv
<1> QED BY <1>1, <1>2, <1>3, PTL DEF Spec

-----------------------------------------------------------------------------
(* The installer gets on: what is left to do, as a number.                 *)

\* How far it is from the end of a part, or of the whole when there is none.
Rank(step) ==
    CASE step = "font" -> 49
      [] step = "menu" -> 48
      [] step = "copy" -> 11
      [] step = "copying" -> 10
      [] step = "rename" -> 9
      [] step = "open" -> 8
      [] step = "extract" -> 7
      [] step = "extracting" -> 6
      [] step = "unlink" -> 5
      [] step = "delete" -> 4
      [] step = "swap" -> 3
      [] step = "done" -> 2
      [] step = "leave" -> 1
      [] OTHER -> 0
Left == 12 * Cardinality(todo) + Rank(at)

LEMMA PartsFinite ==
    ASSUME NEW parts \in SUBSET Part
    PROVE  IsFiniteSet(parts) /\ Cardinality(parts) \in 0 .. 3
<1> DEFINE All == (({} \cup {"dash"}) \cup {"skin"}) \cup {"plugin"}
<1>1. IsFiniteSet(All) /\ Cardinality(All) = 3
  <2>1. IsFiniteSet({} \cup {"dash"}) /\ Cardinality({} \cup {"dash"}) = 1
    BY FS_EmptySet, FS_AddElement
  <2>2. IsFiniteSet(({} \cup {"dash"}) \cup {"skin"})
        /\ Cardinality(({} \cup {"dash"}) \cup {"skin"}) = 2
    BY <2>1, FS_AddElement
  <2> QED BY <2>2, FS_AddElement
<1>2. parts \in SUBSET All
  BY InstallerAssumption
<1>3. IsFiniteSet(parts) /\ Cardinality(parts) <= 3
  <2> HIDE DEF All
  <2> QED BY <1>1, <1>2, FS_Subset
<1> QED BY <1>3, FS_CardinalityType

\* A step within a part.
LEMMA GotoAdvances ==
    ASSUME TypeOK, NEW step, Goto(step), Rank(step) < Rank(at), Rank(step) \in Nat, Rank(at) \in Nat
    PROVE  Left' < Left
<1>1. at' = step /\ todo' = todo /\ Cardinality(todo) \in 0 .. 3
  BY PartsFinite DEF Goto, TypeOK
<1>2. Left' = 12 * Cardinality(todo) + Rank(step)
  BY <1>1 DEF Left, Rank
<1> QED BY <1>1, <1>2 DEF Left

\* The end of a part, whatever comes after it.
LEMMA ResultAdvances ==
    ASSUME TypeOK, NEW ok, Result(ok), todo # {}
    PROVE  Left' < Left
<1>1. todo' = todo \ {Current} /\ at' = FirstStep(todo') /\ Current \in todo
  BY CurrentType DEF Result
<1>2. Cardinality(todo) \in 0 .. 3 /\ Cardinality(todo') = Cardinality(todo) - 1
  BY <1>1, PartsFinite, FS_RemoveElement DEF TypeOK
<1>3. Rank(at)' \in 0 .. 11
  BY <1>1 DEF FirstStep, Rank
<1>4. Rank(at) \in Nat
  BY DEF Rank
<1> QED BY <1>2, <1>3, <1>4 DEF Left

LEMMA StepAdvances ==
    ASSUME TypeOK, Installs \/ Presses
    PROVE  Left' < Left
<1>0. at \in {"copy", "copying", "rename", "delete", "swap", "open", "extract", "extracting", "unlink"}
        => todo # {}
  BY DEF TypeOK
<1>1. CASE StartCopy
  BY <1>1, GotoAdvances DEF StartCopy, Rank
<1>2. CASE EndCopy
  BY <1>2, GotoAdvances DEF EndCopy, Rank
<1>3. CASE CopyFails
  BY <1>3, GotoAdvances DEF CopyFails, Rank
<1>4. CASE Rename
  BY <1>4, GotoAdvances DEF Rename, Rank
<1>5. CASE RenameFails
  BY <1>5, GotoAdvances DEF RenameFails, Rank
<1>6. CASE Delete(TRUE) \/ Delete(FALSE)
  BY <1>6, GotoAdvances DEF Delete, Rank
<1>7. CASE Swap \/ SwapFails
  BY <1>0, <1>7, ResultAdvances DEF Swap, SwapFails
<1>8. CASE Open
  <2>1. at = "open" /\ (Result(FALSE) \/ Goto("extract"))
    BY <1>8 DEF Open
  <2>2. CASE Result(FALSE)
    BY <1>0, <2>1, <2>2, ResultAdvances
  <2>3. CASE Goto("extract")
    BY <2>1, <2>3, GotoAdvances DEF Rank
  <2> QED BY <2>1, <2>2, <2>3
<1>9. CASE StartExtract
  BY <1>9, GotoAdvances DEF StartExtract, Rank
<1>10. CASE Extract \/ ExtractShort
  BY <1>10, GotoAdvances DEF Extract, ExtractShort, Rank
<1>11. CASE ExtractFails
  BY <1>0, <1>11, ResultAdvances DEF ExtractFails
<1>12. CASE Unlink
  <2>1. at = "unlink" /\ (Result(TRUE) \/ Goto("delete"))
    BY <1>12 DEF Unlink
  <2>2. CASE Result(TRUE)
    BY <1>0, <2>1, <2>2, ResultAdvances
  <2>3. CASE Goto("delete")
    BY <2>1, <2>3, GotoAdvances DEF Rank
  <2> QED BY <2>1, <2>2, <2>3
<1>16. CASE UnlinkFails
  <2>1. at = "unlink" /\ (Result(TRUE) \/ Goto("delete"))
    BY <1>16 DEF UnlinkFails
  <2>2. CASE Result(TRUE)
    BY <1>0, <2>1, <2>2, ResultAdvances
  <2>3. CASE Goto("delete")
    BY <2>1, <2>3, GotoAdvances DEF Rank
  <2> QED BY <2>1, <2>2, <2>3
<1>17. CASE DumpFont \/ NoFont
  BY <1>17, GotoAdvances DEF DumpFont, NoFont, Rank
<1>13. CASE Leave \/ Dies
  <2>1. todo' = {} /\ Rank(at)' = 0 /\ Rank(at) \in Nat \ {0}
    BY <1>13 DEF Leave, Dies, GoesOff, Rank
  <2>2. Cardinality(todo') = 0 /\ Cardinality(todo) \in 0 .. 3
    BY <2>1, PartsFinite, FS_EmptySet DEF TypeOK
  <2> QED BY <2>1, <2>2 DEF Left
<1>14. CASE Begin
  <2>1. todo' = Found /\ at' = FirstStep(Found) /\ Found \subseteq Part /\ Rank(at) = 48
    BY <1>14 DEF Begin, Found, Rank
  <2>2. Rank(at)' \in 0 .. 11
    BY <2>1 DEF FirstStep, Rank
  <2>3. Cardinality(todo') \in 0 .. 3 /\ Cardinality(todo) \in 0 .. 3
    BY <2>1, PartsFinite DEF TypeOK
  <2> QED BY <2>1, <2>2, <2>3 DEF Left
<1>15. CASE GiveUp \/ Finish
  BY <1>15, GotoAdvances DEF GiveUp, Finish, Rank
<1> QED BY <1>1, <1>2, <1>3, <1>4, <1>5, <1>6, <1>7, <1>8, <1>9, <1>10, <1>11, <1>12, <1>13,
           <1>14, <1>15, <1>16, <1>17 DEF Installs, Presses

\* From the menu on, every step of RunInstaller and every key the user presses
\* brings its end nearer, for any zips and failures: a part that failed is not
\* tried again.  Only a new start can set it back.
THEOREM InstallerAdvances == Spec => [][Installs \/ Presses => Left' < Left]_vars
<1>1. TypeOK /\ [Next]_vars => [Installs \/ Presses => Left' < Left]_vars
  BY StepAdvances
<1> QED BY <1>1, TypeCorrect, PTL DEF Spec

=============================================================================
