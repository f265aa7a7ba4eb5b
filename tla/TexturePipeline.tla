--------------------------- MODULE TexturePipeline ---------------------------
(***************************************************************************)
(* The pictures of the game list.                                          *)
(*                                                                         *)
(* A TextureItem is filled by workers: its file is read, a texture is made *)
(* of the file's data, and a brush is attached to the texture.  Four       *)
(* queues, each with a dispatcher and workers, do this:                    *)
(*   FileQueue and TextureQueue   the first load of a box art or banner    *)
(*                                (an icon, in memory, needs the second),  *)
(*   FileTexQueue                 screenshots, and refreshed art,          *)
(*   ReleaseQueue                 frees what a screenshot holds.           *)
(* Two more threads use the items: the loader's, which asks for the art of *)
(* the list (LoaderCallback), and the screen's, which moves the selection. *)
(*                                                                         *)
(* A call of a TextureItem's method is one step, but AddRef and Release:   *)
(* m_dwReferenceCount is tested, read and written, without a lock.         *)
(* A dispatcher and a free worker meet in one step; that of FileTexQueue,  *)
(* which tests the count of what it pops, holds it until a worker is free. *)
(***************************************************************************)
EXTENDS Integers, Sequences, SequencesExt, FiniteSets

CONSTANTS Art, Icon, Shot,                  \* the items, by how they are loaded
          Bare,                             \* the shots of games without an asset
          FileW, TextureW, FileTexW, ReleaseW, \* the workers
          Loader, Screen,                   \* the two other threads
          None,                             \* no item
          Budget,                           \* bound: the <<l, m, f>> for which the loader asks
                                            \* l times, the screen m, and f steps may fail
          Hasty                             \* bound: what is asked for while busy

Tex == Art \cup Icon \cup Shot
LoadW == FileW \cup TextureW \cup FileTexW
Thread == LoadW \cup ReleaseW \cup {Loader, Screen}

ASSUME TextureAssumption ==
    /\ Bare \subseteq Shot /\ Hasty \subseteq Tex
    /\ None \notin Tex
    /\ <<0, 0, 0>> \in Budget
    /\ IsFiniteSet(LoadW)
    /\ Art \cap Icon = {} /\ Shot \cap (Art \cup Icon) = {}
    /\ FileW \cap (TextureW \cup FileTexW \cup ReleaseW \cup {Loader, Screen}) = {}
    /\ TextureW \cap (FileTexW \cup ReleaseW \cup {Loader, Screen}) = {}
    /\ FileTexW \cap (ReleaseW \cup {Loader, Screen}) = {}
    /\ ReleaseW \cap {Loader, Screen} = {}
    /\ Loader # Screen

VARIABLES
    item,      \* the TextureItems
    heap,      \* what is allocated for each: buffers, textures, brushes
    made,      \* how much was ever allocated for each
    th,        \* the threads: where each is, its item, its locals
    fileQ, texQ, fileTexQ, relQ,
    loaderQ,   \* the items whose LoadAssets message the loader has not handled
    hand,      \* what the FileTexQueue's dispatcher has popped
    selected,  \* m_sListState.CurrentGame's shot
    spent,     \* of the Budget
    owned,     \* history: the references to each of the list's or the selection's
    faults     \* history: what has happened to each that the code does not expect

queues == <<fileQ, texQ, fileTexQ, relQ, loaderQ, hand>>
vars == <<item, heap, made, th, queues, selected, spent, owned, faults>>

Idle == [at |-> "idle", tex |-> None, seen |-> 0, data |-> 0]

\* What can go wrong with an item (faults):
\*   overlap  asked for while a load or a release of it was under way,
\*   torn     two threads changed its count at once, and one change was lost,
\*   late     its last reference went between a worker's test and its AddRef,
\*   early    an update of it was handled before its LoadAssets message,
\*   empty    its file (or its icon) was there and had no bytes,
\*   brush    no brush could be attached.
Fault == {"overlap", "torn", "late", "early", "empty", "brush"}

\* An icon's data belongs to its ContentItem (m_bRetainSource): resource 1.
Init ==
    /\ item = [t \in Tex |-> [file |-> "inactive", tex |-> "inactive",
                              brush |-> "loading", refs |-> 0, ptr |-> 0, t |-> 0, b |-> 0]]
    /\ heap = [t \in Tex |-> IF t \in Icon THEN {1} ELSE {}]
    /\ made = [t \in Tex |-> IF t \in Icon THEN 1 ELSE 0]
    /\ th = [w \in Thread |-> Idle]
    /\ fileQ = <<>> /\ texQ = <<>> /\ fileTexQ = <<>> /\ relQ = <<>>
    /\ loaderQ = Art \cup Icon /\ hand = None
    /\ selected = None
    /\ spent = <<0, 0, 0>>
    /\ owned = [t \in Tex |-> 0]
    /\ faults = [t \in Tex |-> {}]

-----------------------------------------------------------------------------
(* The methods of TextureItem: what each makes of an item.                 *)

SetTextureInfo(it) ==
    [it EXCEPT !.file = "ready", !.tex = "ready", !.brush = "loading"]
SetTextureInfoMemory(it) == [SetTextureInfo(it) EXCEPT !.brush = "ready"]

\* ReleaseBrush and ReleaseTexture forget the handle whatever the count is,
\* and destroy only if it is 0.  ReleaseFilePointer does not ask for it.
FreedBrush(it) == IF it.refs = 0 THEN {it.b} ELSE {}
\* Mutant: the brush is destroyed, and its state still says it is loaded.
ReleaseBrushOnly(it) == [it EXCEPT !.b = 0]

ReleaseBrush(it) == [it EXCEPT !.b = 0, !.brush = "ready"]
FreedTexture(it) == IF it.refs = 0 THEN {it.t} ELSE {}
ReleaseTexture(it) == [it EXCEPT !.t = 0, !.tex = "ready"]
\* Mutant: the buffer is forgotten and not freed.
FreedNoFile(t) == {}

FreedFile(t) == IF t \in Icon THEN {} ELSE {item[t].ptr}
ReleaseFilePointer(it) == [it EXCEPT !.ptr = 0, !.file = "ready"]

SetFilePointer(it, n, size) ==
    [it EXCEPT !.ptr = n, !.file = IF size > 0 THEN "loaded" ELSE "ready"]
SetD3DTexture(it, n) == [it EXCEPT !.t = n, !.tex = IF n # 0 THEN "loaded" ELSE "ready"]
SetTextureBrush(it, n) == [it EXCEPT !.b = n, !.brush = "loaded"]

-----------------------------------------------------------------------------
(* Steps of any thread.                                                    *)

Spends(l, m, f) ==
    /\ <<spent[1] + l, spent[2] + m, spent[3] + f>> \in Budget
    /\ spent' = <<spent[1] + l, spent[2] + m, spent[3] + f>>

\* A step of a load fails; a file or an icon is empty.
Fails == Spends(0, 0, 1)
Sized(size) == IF size = 0 THEN Fails ELSE UNCHANGED spent

At(w, pc) == th[w].at = pc
My(w) == th[w].tex
Goto(w, pc) == th' = [th EXCEPT ![w].at = pc]
Done(w) == th' = [th EXCEPT ![w] = Idle]
Becomes(t, it) == item' = [item EXCEPT ![t] = it]
Blame(t, kinds) == faults' = [faults EXCEPT ![t] = @ \cup kinds]

\* A new buffer, texture or brush of t.
New(t) == made[t] + 1
Allocate(t) ==
    /\ made' = [made EXCEPT ![t] = New(t)]
    /\ heap' = [heap EXCEPT ![t] = @ \cup {New(t)}]
Free(t, freed) ==
    /\ heap' = [heap EXCEPT ![t] = @ \ freed]
    /\ UNCHANGED made

\* A load or a release of t is queued or under way.
Busy(t) ==
    \/ \E q \in {fileQ, texQ, fileTexQ, relQ} : t \in ToSet(q)
    \/ hand = t
    \/ \E w \in LoadW \cup ReleaseW : My(w) = t

Overlap(t) == IF Busy(t) THEN {"overlap"} ELSE {}
MayAsk(t) == Busy(t) => t \in Hasty
Torn(w) == IF item[My(w)].refs # th[w].seen THEN {"torn"} ELSE {}

KeepItems == UNCHANGED <<item, heap, made, queues, selected, spent, owned, faults>>

\* Release asks whether there is a reference, and is done if there is none.
TestCount(w) ==
    /\ At(w, "leave")
    /\ Goto(w, IF item[My(w)].refs > 0 THEN "lower" ELSE "spared")
    /\ KeepItems

\* AddRef, and Release after its test: the count is read.
AfterRead == [begin |-> "adding", again |-> "readding", lower |-> "dropping"]
ReadCount(w) ==
    /\ th[w].at \in DOMAIN AfterRead
    /\ th' = [th EXCEPT ![w].at = AfterRead[@], ![w].seen = item[My(w)].refs]
    /\ Blame(My(w), IF w \in FileTexW /\ At(w, "begin") /\ item[My(w)].refs <= 0
                      THEN {"late"} ELSE {})
    /\ UNCHANGED <<item, heap, made, queues, selected, spent, owned>>

Counts(w) == TestCount(w) \/ ReadCount(w)

\* And what was read, plus or minus one, is written.
Added(w) == [item[My(w)] EXCEPT !.refs = th[w].seen + 1]

Leaves(w) == At(w, "dropping") \/ At(w, "spared")
Dropped(w) == IF At(w, "dropping") THEN [item[My(w)] EXCEPT !.refs = th[w].seen - 1]
                                   ELSE item[My(w)]
TornByDrop(w) == IF At(w, "dropping") THEN Torn(w) ELSE {}

\* The list or the selection has one reference of t more, or less.
Owns(t) == owned' = [owned EXCEPT ![t] = @ + 1]
Disowns(t) == owned' = [owned EXCEPT ![t] = IF @ > 0 THEN @ - 1 ELSE 0]

-----------------------------------------------------------------------------
(* The dispatchers.                                                        *)

Take(w, t) == th' = [th EXCEPT ![w] = [Idle EXCEPT !.at = "held", !.tex = t]]

DispatchFile(w) ==
    /\ At(w, "idle") /\ w \in FileW
    /\ fileQ # <<>>
    /\ Take(w, Head(fileQ))
    /\ fileQ' = Tail(fileQ)
    /\ UNCHANGED <<item, heap, made, texQ, fileTexQ, relQ, loaderQ, hand, selected, spent, owned, faults>>

\* The screen bumps the priority of icons only: they overtake.
DispatchTexture(w, i) ==
    /\ At(w, "idle") /\ w \in TextureW
    /\ i \in DOMAIN texQ
    /\ i = 1 \/ texQ[i] \in Icon
    /\ Take(w, texQ[i])
    /\ texQ' = RemoveAt(texQ, i)
    /\ UNCHANGED <<item, heap, made, fileQ, fileTexQ, relQ, loaderQ, hand, selected, spent, owned, faults>>

\* An item nobody refers to any more is passed over, when it is popped.
PopFileTex ==
    /\ hand = None
    /\ fileTexQ # <<>>
    /\ hand' = IF item[Head(fileTexQ)].refs > 0 THEN Head(fileTexQ) ELSE None
    /\ fileTexQ' = Tail(fileTexQ)
    /\ UNCHANGED <<item, heap, made, th, fileQ, texQ, relQ, loaderQ, selected, spent, owned, faults>>

DispatchFileTex(w) ==
    /\ At(w, "idle") /\ w \in FileTexW
    /\ hand # None
    /\ Take(w, hand)
    /\ hand' = None
    /\ UNCHANGED <<item, heap, made, fileQ, texQ, fileTexQ, relQ, loaderQ, selected, spent, owned, faults>>

DispatchRelease(w) ==
    /\ At(w, "idle") /\ w \in ReleaseW
    /\ relQ # <<>>
    /\ Take(w, Head(relQ))
    /\ relQ' = Tail(relQ)
    /\ UNCHANGED <<item, heap, made, fileQ, texQ, fileTexQ, loaderQ, hand, selected, spent, owned, faults>>

-----------------------------------------------------------------------------
(* The workers that load.                                                  *)

\* FileWorker: SetTextureInfo has made every item it is given INITIALIZED.
StartFile(w) ==
    /\ At(w, "held") /\ w \in FileW
    /\ Goto(w, "begin")
    /\ KeepItems

\* TextureWorker keeps the item, and looks busy, until its file is there.
StartTexture(w) ==
    /\ At(w, "held") /\ w \in TextureW
    /\ item[My(w)].tex = "ready" /\ item[My(w)].file = "loaded"
    /\ Goto(w, "begin")
    /\ KeepItems

\* Mutant: it waits for another of the error states.
DropOnTextureError(w) ==
    /\ At(w, "held") /\ w \in TextureW
    /\ item[My(w)].file = "texerror"
    /\ Done(w)
    /\ KeepItems

\* It gives the item up if the file could not be read.
DropTexture(w) ==
    /\ At(w, "held") /\ w \in TextureW
    /\ item[My(w)].file = "error"
    /\ Done(w)
    /\ KeepItems

StartFileTex(w) ==
    /\ At(w, "held") /\ w \in FileTexW
    /\ IF item[My(w)].refs > 0 THEN Goto(w, "begin") ELSE Done(w)
    /\ KeepItems

\* LoadCurrentItem: AddRef, and the brush is being loaded.
AddRef(w) ==
    /\ At(w, "adding") /\ w \in LoadW
    /\ Becomes(My(w), [Added(w) EXCEPT !.brush = "loading"])
    /\ Blame(My(w), Torn(w))
    /\ IF w \in TextureW
         THEN th' = [th EXCEPT ![w].at = "making", ![w].data = item[My(w)].ptr]
         ELSE Goto(w, "loading")
    /\ UNCHANGED <<heap, made, queues, selected, spent, owned>>

AfterLoad(w, loaded) ==
    th' = [th EXCEPT ![w].at = IF w \in FileW THEN "leave"
                               ELSE IF loaded THEN "making" ELSE "ending",
                     ![w].data = IF loaded THEN New(My(w)) ELSE 0]

\* The file is read.  It may be empty: the buffer is there all the same.
Load(w, size) ==
    /\ At(w, "loading")
    /\ Sized(size)
    /\ Allocate(My(w))
    /\ Becomes(My(w), SetFilePointer(item[My(w)], New(My(w)), size))
    /\ AfterLoad(w, size > 0)
    /\ Blame(My(w), IF size = 0 THEN {"empty"} ELSE {})
    /\ UNCHANGED <<queues, selected, owned>>

LoadFails(w) ==
    /\ At(w, "loading")
    /\ Fails
    /\ Becomes(My(w), [item[My(w)] EXCEPT !.ptr = 0, !.file = "error", !.brush = "error"])
    /\ AfterLoad(w, FALSE)
    /\ UNCHANGED <<heap, made, queues, selected, owned, faults>>

\* The texture is made of the data the worker holds.
Make(w) ==
    /\ At(w, "making")
    /\ item[My(w)].file = "loaded"
    /\ Allocate(My(w))
    /\ Becomes(My(w), SetD3DTexture(item[My(w)], New(My(w))))
    /\ Goto(w, "brushing")
    /\ UNCHANGED <<queues, selected, spent, owned, faults>>

\* The FileTexWorker leaves the texture the item has, and attaches a brush to it.
AfterFailure(w, it) == Goto(w, IF it.tex = "loaded" THEN "brushing" ELSE "ending")
MakeFails(w) ==
    /\ At(w, "making")
    /\ item[My(w)].file = "loaded"
    /\ Fails
    /\ LET it == IF w \in FileTexW THEN [item[My(w)] EXCEPT !.file = "texerror"]
                 ELSE [SetD3DTexture(item[My(w)], 0) EXCEPT !.file = "texerror", !.brush = "error"]
       IN  Becomes(My(w), it) /\ AfterFailure(w, it)
    /\ UNCHANGED <<heap, made, queues, selected, owned, faults>>

\* The item was changed meanwhile: it has no file to make a texture of.
MakeNothing(w) ==
    /\ At(w, "making")
    /\ item[My(w)].file # "loaded"
    /\ IF w \in FileTexW THEN Goto(w, "ending") ELSE AfterFailure(w, item[My(w)])
    /\ KeepItems

Attach(w) ==
    /\ At(w, "brushing")
    /\ Allocate(My(w))
    /\ Becomes(My(w), SetTextureBrush(item[My(w)], New(My(w))))
    /\ Goto(w, "ending")
    /\ UNCHANGED <<queues, selected, spent, owned, faults>>

\* TextureWorker forgets the buffer here, before it could be freed.
AttachFails(w) ==
    /\ At(w, "brushing")
    /\ Fails
    /\ Becomes(My(w), [item[My(w)] EXCEPT !.ptr = IF w \in TextureW THEN 0 ELSE @,
                                          !.file = "brusherror"])
    /\ Blame(My(w), {"brush"})
    /\ Goto(w, "ending")
    /\ UNCHANGED <<heap, made, queues, selected, owned>>

FreeData(w) ==
    /\ At(w, "ending")
    /\ Free(My(w), FreedFile(My(w)))
    /\ Becomes(My(w), ReleaseFilePointer(item[My(w)]))
    /\ Goto(w, "leave")
    /\ UNCHANGED <<queues, selected, spent, owned, faults>>

\* Mutant: the worker forgets the reference it took.
ForgetRelease(w) ==
    /\ Leaves(w) /\ w \in LoadW
    /\ Done(w)
    /\ KeepItems

\* Release, and the worker is free again.
Release(w) ==
    /\ Leaves(w) /\ w \in LoadW
    /\ Becomes(My(w), Dropped(w))
    /\ Blame(My(w), TornByDrop(w))
    /\ Done(w)
    /\ UNCHANGED <<heap, made, queues, selected, spent, owned>>

-----------------------------------------------------------------------------
(* ReleaseAll: by a ReleaseWorker once the count is 0, and by a refresh.   *)

\* Mutant: the release does not wait for the last reference.
StartReleaseAtOnce(w) ==
    /\ At(w, "held") /\ w \in ReleaseW
    /\ Goto(w, "brush")
    /\ KeepItems

StartRelease(w) ==
    /\ At(w, "held") /\ w \in ReleaseW
    /\ item[My(w)].refs <= 0
    /\ Goto(w, "brush")
    /\ KeepItems

ReleaseAllBrush(w) ==
    /\ At(w, "brush")
    /\ Free(My(w), FreedBrush(item[My(w)]))
    /\ Becomes(My(w), ReleaseBrush(item[My(w)]))
    /\ Goto(w, "texture")
    /\ UNCHANGED <<queues, selected, spent, owned, faults>>

ReleaseAllTexture(w) ==
    /\ At(w, "texture")
    /\ Free(My(w), FreedTexture(item[My(w)]))
    /\ Becomes(My(w), ReleaseTexture(item[My(w)]))
    /\ Goto(w, "file")
    /\ UNCHANGED <<queues, selected, spent, owned, faults>>

\* A refreshed icon gets the new data of its ContentItem here.
ReleaseAllFile(w, size) ==
    /\ At(w, "file")
    /\ size = 1 \/ (w = Loader /\ My(w) \in Icon)
    /\ Sized(size)
    /\ Free(My(w), FreedFile(My(w)))
    /\ LET it == ReleaseFilePointer(item[My(w)])
       IN  IF w = Loader /\ My(w) \in Icon
             THEN /\ Becomes(My(w), [SetFilePointer(it, 1, size) EXCEPT !.brush = "loading"])
                  /\ Blame(My(w), IF size = 0 THEN {"empty"} ELSE {})
             ELSE Becomes(My(w), it) /\ UNCHANGED faults
    /\ IF w = Loader THEN Goto(w, "again") ELSE Done(w)
    /\ UNCHANGED <<queues, selected, owned>>

-----------------------------------------------------------------------------
(* The loader's thread.                                                    *)

Turns(w, t, pc) == th' = [th EXCEPT ![w] = [Idle EXCEPT !.at = pc, !.tex = t]]

\* OnContentLoadAssets, once for each item of the list.
Info(t) == IF t \in Icon THEN SetTextureInfoMemory(item[t]) ELSE SetTextureInfo(item[t])
LoadAsset(t, size) ==
    /\ At(Loader, "idle")
    /\ t \in loaderQ
    /\ size = 1 \/ t \in Icon
    /\ MayAsk(t)
    /\ Spends(1, 0, 1 - size)
    /\ loaderQ' = loaderQ \ {t}
    /\ Becomes(t, IF t \in Icon THEN [SetFilePointer(Info(t), 1, size) EXCEPT !.brush = "loading"]
                                ELSE Info(t))
    /\ Blame(t, Overlap(t) \cup (IF item[t].tex # "inactive" THEN {"early"} ELSE {})
                           \cup (IF size = 0 THEN {"empty"} ELSE {}))
    /\ Turns(Loader, t, "begin")
    /\ UNCHANGED <<heap, made, fileQ, texQ, fileTexQ, relQ, hand, selected, owned>>

\* The game has no such asset.  AddAsset has set the flag before an update is
\* heard of, but SetIconData does not.
NoAsset(t) ==
    /\ At(Loader, "idle")
    /\ t \in loaderQ
    /\ t \in Icon \/ item[t].tex = "inactive"
    /\ MayAsk(t)
    /\ Spends(1, 0, 0)
    /\ loaderQ' = loaderQ \ {t}
    /\ Becomes(t, [item[t] EXCEPT !.tex = "error", !.brush = "error"])
    /\ Blame(t, Overlap(t))
    /\ UNCHANGED <<heap, made, th, fileQ, texQ, fileTexQ, relQ, hand, selected, owned>>

\* Mutant: the art is given to FileTexQueue too.
QueueAssetTwice ==
    /\ At(Loader, "adding")
    /\ LET t == My(Loader)
       IN  /\ Becomes(t, Added(Loader))
           /\ Blame(t, Torn(Loader))
           /\ fileQ' = IF t \in Icon THEN fileQ ELSE Append(fileQ, t)
           /\ fileTexQ' = IF t \in Icon THEN fileTexQ ELSE Append(fileTexQ, t)
           /\ texQ' = Append(texQ, t)
           /\ Owns(t)
    /\ Done(Loader)
    /\ UNCHANGED <<heap, made, relQ, loaderQ, hand, selected, spent>>

QueueAsset ==
    /\ At(Loader, "adding")
    /\ LET t == My(Loader)
       IN  /\ Becomes(t, Added(Loader))
           /\ Blame(t, Torn(Loader))
           /\ fileQ' = IF t \in Icon THEN fileQ ELSE Append(fileQ, t)
           /\ texQ' = Append(texQ, t)
           /\ Owns(t)
    /\ Done(Loader)
    /\ UNCHANGED <<heap, made, fileTexQ, relQ, loaderQ, hand, selected, spent>>

\* OnContentUpdated: SetTextureInfo, Release, ReleaseAll, AddRef, AddToQueue.
\* The LoadAssets message of the item may still be waiting.
Refresh(t) ==
    /\ At(Loader, "idle")
    /\ MayAsk(t)
    /\ Spends(1, 0, 0)
    /\ Becomes(t, Info(t))
    /\ Blame(t, Overlap(t))
    /\ Turns(Loader, t, "leave")
    /\ UNCHANGED <<heap, made, queues, selected, owned>>

DropRefreshed ==
    /\ Leaves(Loader)
    /\ Becomes(My(Loader), Dropped(Loader))
    /\ Blame(My(Loader), TornByDrop(Loader))
    /\ Disowns(My(Loader))
    /\ Goto(Loader, "brush")
    /\ UNCHANGED <<heap, made, queues, selected, spent>>

QueueRefreshed ==
    /\ At(Loader, "readding")
    /\ LET t == My(Loader)
       IN  /\ Becomes(t, Added(Loader))
           /\ Blame(t, Torn(Loader))
           /\ fileTexQ' = IF t \in Icon THEN fileTexQ ELSE Append(fileTexQ, t)
           /\ texQ' = IF t \in Icon THEN Append(texQ, t) ELSE texQ
           /\ Owns(t)
    /\ Done(Loader)
    /\ UNCHANGED <<heap, made, fileQ, relQ, loaderQ, hand, selected, spent>>

-----------------------------------------------------------------------------
(* The screen's thread: HandleScreenshotTextures, when the selection moves.*)

\* The shot of the game now selected is asked for.
Show(s) ==
    IF s \in Bare
      THEN Done(Screen) /\ UNCHANGED <<item, faults>>
      ELSE /\ Becomes(s, SetTextureInfo(item[s]))
           /\ Blame(s, Overlap(s))
           /\ Turns(Screen, s, "begin")

Select(s) ==
    /\ At(Screen, "idle")
    /\ s # selected
    /\ s \notin Bare => MayAsk(s)
    /\ Spends(0, 1, 0)
    /\ selected' = s
    /\ IF selected = None THEN Show(s)
       ELSE Turns(Screen, selected, "leave") /\ UNCHANGED <<item, faults>>
    /\ UNCHANGED <<heap, made, queues, owned>>

\* Mutant: the one selected before is not queued to be freed.
LeaveUnqueued ==
    /\ Leaves(Screen)
    /\ Becomes(My(Screen), Dropped(Screen))
    /\ Blame(My(Screen), TornByDrop(Screen))
    /\ Disowns(My(Screen))
    /\ Goto(Screen, "show")
    /\ UNCHANGED <<heap, made, queues, selected, spent>>

\* The one selected before is released, and queued to be freed.
Leave ==
    /\ Leaves(Screen)
    /\ Becomes(My(Screen), Dropped(Screen))
    /\ Blame(My(Screen), TornByDrop(Screen))
    /\ Disowns(My(Screen))
    /\ relQ' = Append(relQ, My(Screen))
    /\ Goto(Screen, "show")
    /\ UNCHANGED <<heap, made, fileQ, texQ, fileTexQ, loaderQ, hand, selected, spent>>

ShowNext ==
    /\ At(Screen, "show")
    /\ Show(selected)
    /\ UNCHANGED <<heap, made, queues, selected, spent, owned>>

\* Mutant: the shot is given to the TextureQueue.
QueueShotToTexture ==
    /\ At(Screen, "adding")
    /\ Becomes(My(Screen), Added(Screen))
    /\ Blame(My(Screen), Torn(Screen))
    /\ texQ' = Append(texQ, My(Screen))
    /\ Owns(My(Screen))
    /\ Done(Screen)
    /\ UNCHANGED <<heap, made, fileQ, fileTexQ, relQ, loaderQ, hand, selected, spent>>

QueueShot ==
    /\ At(Screen, "adding")
    /\ Becomes(My(Screen), Added(Screen))
    /\ Blame(My(Screen), Torn(Screen))
    /\ fileTexQ' = Append(fileTexQ, My(Screen))
    /\ Owns(My(Screen))
    /\ Done(Screen)
    /\ UNCHANGED <<heap, made, fileQ, texQ, relQ, loaderQ, hand, selected, spent>>

-----------------------------------------------------------------------------
Dispatch(w) ==
    \/ DispatchFile(w) \/ DispatchFileTex(w) \/ DispatchRelease(w)
    \/ \E i \in DOMAIN texQ : DispatchTexture(w, i)

Start(w) ==
    StartFile(w) \/ StartTexture(w) \/ DropTexture(w) \/ StartFileTex(w) \/ StartRelease(w)

Work(w) ==
    \/ AddRef(w) \/ Release(w) \/ FreeData(w)
    \/ \E size \in {0, 1} : Load(w, size)
    \/ LoadFails(w) \/ Make(w) \/ MakeFails(w) \/ MakeNothing(w) \/ Attach(w) \/ AttachFails(w)

ReleaseAll(w) ==
    \/ ReleaseAllBrush(w) \/ ReleaseAllTexture(w)
    \/ \E size \in {0, 1} : ReleaseAllFile(w, size)

LoaderStep == QueueAsset \/ DropRefreshed \/ QueueRefreshed \/ ReleaseAll(Loader) \/ Counts(Loader)
ScreenStep == Leave \/ ShowNext \/ QueueShot \/ Counts(Screen)
WorkerStep(w) == Start(w) \/ Counts(w) \/ Work(w) \/ ReleaseAll(w)

Request ==
    \/ \E t \in Art \cup Icon : NoAsset(t) \/ Refresh(t) \/ \E size \in {0, 1} : LoadAsset(t, size)
    \/ \E s \in Shot : Select(s)

Next ==
    \/ Request
    \/ LoaderStep
    \/ ScreenStep
    \/ PopFileTex
    \/ \E w \in LoadW \cup ReleaseW : Dispatch(w) \/ WorkerStep(w)

Spec == Init /\ [][Next]_vars

\* Every thread polls: what it can do it does.  Nobody has to ask for more.
Fairness ==
    /\ WF_vars(LoaderStep)
    /\ WF_vars(ScreenStep)
    /\ WF_vars(PopFileTex)
    /\ \A w \in LoadW \cup ReleaseW : WF_vars(Dispatch(w) \/ WorkerStep(w))

LiveSpec == Spec /\ Fairness

-----------------------------------------------------------------------------
(* Properties.                                                             *)

ItemState == [file  : {"inactive", "ready", "loaded", "error", "texerror", "brusherror"},
              tex   : {"inactive", "ready", "loaded", "error"},
              brush : {"loading", "ready", "loaded", "error"},
              refs  : Int, ptr : Nat, t : Nat, b : Nat]

Local == [at : {"idle", "held", "begin", "adding", "loading", "making", "brushing",
                "ending", "brush", "texture", "file", "leave", "lower",
                "spared", "dropping", "again", "readding", "show"},
          tex : Tex \cup {None}, seen : Int, data : Nat]

\* Every variable has the values of the code's; what exists was allocated, and
\* a queue is given only what its workers can load or free.
TypeOK ==
    /\ item \in [Tex -> ItemState]
    /\ made \in [Tex -> Nat]
    /\ heap \in [Tex -> SUBSET Nat]
    /\ \A t \in Tex : heap[t] \subseteq 1 .. made[t]
    /\ th \in [Thread -> Local]
    /\ fileQ \in Seq(Art) /\ texQ \in Seq(Art \cup Icon)
    /\ fileTexQ \in Seq(Art \cup Shot) /\ relQ \in Seq(Shot)
    /\ loaderQ \subseteq Art \cup Icon /\ hand \in Art \cup Shot \cup {None}
    /\ selected \in Shot \cup {None}
    /\ spent \in Budget
    /\ owned \in [Tex -> Nat]
    /\ faults \in [Tex -> SUBSET Fault]

Without(t, kinds) == faults[t] \cap kinds = {}

\* The workers that count in t's references: between AddRef and Release.
UserAt == {"loading", "making", "brushing", "ending", "leave", "lower", "spared", "dropping"}
Users(t) == {w \in LoadW : My(w) = t /\ th[w].at \in UserAt}

\* As long as no two changes of a count collide, the count is the number of
\* the references to the item: those of the list (an update before the first
\* load makes it two) or of the selection, and one of each worker on it.
CountIsRight ==
    \A t \in Tex : Without(t, {"torn"}) =>
        item[t].refs = Cardinality(Users(t)) + owned[t]

\* A worker never makes a texture of a buffer that was freed, nor attaches a
\* brush to a texture that was, unless a fault of the named kinds preceded.
DataInUseIsLive ==
    \A w \in LoadW : My(w) # None /\ Without(My(w), {"overlap", "torn", "late"}) =>
        /\ At(w, "making") => th[w].data \in heap[My(w)]
        /\ At(w, "brushing") => item[My(w)].t \in heap[My(w)]

\* What the screen draws (the brush of an item whose brush is loaded) exists,
\* and so does the texture behind it.
ShownIsLive ==
    \A t \in Tex : item[t].brush = "loaded" /\ Without(t, {"overlap", "torn", "late"}) =>
        {item[t].b, item[t].t} \subseteq heap[t]

\* Nothing is allocated that its item has forgotten.
NothingLeaks ==
    \A t \in Tex : Without(t, {"overlap", "torn", "late", "early", "brush"}) =>
        heap[t] \subseteq {item[t].ptr, item[t].t, item[t].b}
                          \cup (IF t \in Icon THEN {1} ELSE {})

\* A picture on the screen stays until its owner takes it away: no queue and
\* no worker, late as it may be, changes one that is complete.
ShownStaysShown ==
    [][\A t \in Tex :
         /\ owned[t] > 0 /\ item[t].brush = "loaded"
         /\ Without(t, {"overlap"})
         /\ UNCHANGED <<th[Loader], th[Screen], loaderQ>>
         => item'[t] = item[t] \/ (item'[t].brush = "loaded" /\ item'[t].b = item[t].b)]_vars

\* Every load ends, and its worker is free again, unless some item was asked
\* for twice at once or was empty: such a one may keep a TextureWorker.
LoadsEnd ==
    []<>(\/ \E t \in Tex : ~ Without(t, {"overlap", "empty"})
         \/ /\ fileQ = <<>> /\ texQ = <<>> /\ fileTexQ = <<>> /\ hand = None
            /\ \A w \in LoadW : At(w, "idle"))

\* A ReleaseWorker waits until nobody refers to the item it was given, and each
\* time a shot is left it is queued: if it is selected again meanwhile, it keeps
\* a worker.  (So does one whose count was torn, and will never be 0.)
KeepsReleaseWorker(w) ==
    At(w, "held") /\ (My(w) = selected \/ ~ Without(My(w), {"torn"}))

\* A shot that was deselected is freed, unless it is selected again or others
\* that are not to be freed keep every ReleaseWorker.
DeselectedIsFreed ==
    \A s \in Shot :
        []<>(\/ s = selected \/ heap[s] = {}
             \/ ~ Without(s, {"overlap", "torn", "late"})
             \/ \A w \in ReleaseW : KeepsReleaseWorker(w))

=============================================================================
