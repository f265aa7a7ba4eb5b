------------------------ MODULE TexturePipelineProofs ------------------------
(***************************************************************************)
(* Proofs about TexturePipeline, for any items, workers and bounds: every  *)
(* variable keeps its type, and a reference count that was never changed   *)
(* by two threads at once is the number of the item's users.               *)
(*                                                                         *)
(* A Release at 0 does nothing, so the count is right only if nobody       *)
(* releases what has no reference of his.  That is what the invariant is   *)
(* for: an item without a reference of the list's or of the selection's is *)
(* not with any worker either (Loadable), unless it is being refreshed, or *)
(* is a screenshot that was left; and neither is ever released again.      *)
(***************************************************************************)
EXTENDS TexturePipeline, FiniteSetTheorems, SequenceTheorems, TLAPS

Mid == {"brush", "texture", "file", "again", "readding"}

\* The items with a reference of the list's or of the selection's.
Owned == {t \in Tex : owned[t] > 0}

\* What may be in a queue or with a worker that loads.
Loadable ==
    Owned \cup (Shot \ Bare)
          \cup {t \in Art \cup Icon : My(Loader) = t /\ th[Loader].at \in Mid}

LoaderInv ==
    /\ th[Loader].at \in {"idle", "begin", "adding", "leave", "lower", "spared", "dropping"} \cup Mid
    /\ ~ At(Loader, "idle") => My(Loader) \in Art \cup Icon

ScreenInv ==
    /\ th[Screen].at \in {"idle", "leave", "lower", "spared", "dropping", "show", "begin", "adding"}
    /\ \A s \in Shot : owned[s] <= 1
    /\ Owned \cap Bare = {}
    /\ At(Screen, "idle") => /\ Owned \cap Shot \subseteq {selected}
                             /\ selected \in Owned \cup Bare \cup {None}
    /\ ~ At(Screen, "idle") => selected \in Shot /\ My(Screen) \in Shot
    /\ th[Screen].at \in {"leave", "lower", "spared", "dropping"} =>
          /\ Owned \cap Shot \subseteq {My(Screen)}
          /\ My(Screen) \in Owned \cup Bare
    /\ th[Screen].at \in {"show", "begin", "adding"} => Owned \cap Shot = {}
    /\ th[Screen].at \in {"begin", "adding"} =>
          My(Screen) = selected /\ selected \notin Bare

WorkerInv ==
    /\ \A w \in LoadW : /\ th[w].at \in {"idle", "held", "begin", "adding"} \cup UserAt
                        /\ ~ At(w, "idle") => My(w) \in Loadable
    /\ \A w \in ReleaseW : /\ th[w].at \in {"idle", "held", "brush", "texture", "file"}
                           /\ ~ At(w, "idle") => My(w) \in Shot

QueueInv ==
    /\ {fileQ, texQ, fileTexQ} \subseteq Seq(Loadable)
    /\ hand \in Loadable \cup {None}

\* The test of Release finds a reference just if its caller has one.
SeenInv ==
    /\ \A w \in LoadW : Without(My(w), {"torn"}) => ~ At(w, "spared")
    /\ \A x \in {Loader, Screen} : Without(My(x), {"torn"}) =>
          /\ th[x].at \in {"lower", "dropping"} => owned[My(x)] > 0
          /\ At(x, "spared") => owned[My(x)] = 0

Inv == TypeOK /\ LoaderInv /\ ScreenInv /\ WorkerInv /\ QueueInv /\ SeenInv /\ CountIsRight

-----------------------------------------------------------------------------
(* What the steps are made of.                                             *)

\* The methods of a TextureItem make a TextureItem, and leave its count.
LEMMA Methods ==
    ASSUME NEW it \in ItemState
    PROVE  /\ SetTextureInfo(it) \in ItemState /\ SetTextureInfo(it).refs = it.refs
           /\ SetTextureInfoMemory(it) \in ItemState /\ SetTextureInfoMemory(it).refs = it.refs
           /\ ReleaseBrush(it) \in ItemState /\ ReleaseBrush(it).refs = it.refs
           /\ ReleaseTexture(it) \in ItemState /\ ReleaseTexture(it).refs = it.refs
           /\ ReleaseFilePointer(it) \in ItemState /\ ReleaseFilePointer(it).refs = it.refs
           /\ \A n \in Nat : /\ SetD3DTexture(it, n) \in ItemState
                             /\ SetD3DTexture(it, n).refs = it.refs
                             /\ SetTextureBrush(it, n) \in ItemState
                             /\ SetTextureBrush(it, n).refs = it.refs
           /\ \A n \in Nat, size \in {0, 1} :
                 /\ SetFilePointer(it, n, size) \in ItemState
                 /\ SetFilePointer(it, n, size).refs = it.refs
                 /\ SetFilePointer(it, n, size).tex = it.tex
BY DEF ItemState, SetTextureInfo, SetTextureInfoMemory, ReleaseBrush, ReleaseTexture, ReleaseFilePointer,
       SetD3DTexture, SetTextureBrush, SetFilePointer

LEMMA BecomesOne ==
    ASSUME item \in [Tex -> ItemState], NEW t \in Tex, NEW it \in ItemState, Becomes(t, it)
    PROVE  /\ item' \in [Tex -> ItemState]
           /\ item'[t] = it
           /\ \A u \in Tex \ {t} : item'[u] = item[u]
BY DEF Becomes

LEMMA BlameOne ==
    ASSUME faults \in [Tex -> SUBSET Fault], NEW t \in Tex, NEW kinds \in SUBSET Fault,
           Blame(t, kinds)
    PROVE  /\ faults' \in [Tex -> SUBSET Fault]
           /\ \A u \in Tex : faults[u] \subseteq faults'[u]
           /\ faults'[t] = faults[t] \cup kinds
BY DEF Blame

LEMMA AllocateOne ==
    ASSUME TypeOK, NEW t \in Tex, Allocate(t)
    PROVE  /\ made' \in [Tex -> Nat]
           /\ heap' \in [Tex -> SUBSET Nat]
           /\ \A u \in Tex : heap'[u] \subseteq 1 .. made'[u]
<1>1. made' \in [Tex -> Nat] /\ New(t) \in Nat /\ New(t) > made[t] /\ made'[t] = New(t)
  BY DEF TypeOK, Allocate, New
<1>2. heap' \in [Tex -> SUBSET Nat] /\ heap'[t] = heap[t] \cup {New(t)}
  BY <1>1 DEF TypeOK, Allocate
<1>3. \A u \in Tex \ {t} : heap'[u] = heap[u] /\ made'[u] = made[u]
  BY DEF TypeOK, Allocate
<1>4. heap[t] \subseteq 1 .. made[t] /\ made[t] \in Nat
  BY DEF TypeOK
<1>5. heap'[t] \subseteq 1 .. made'[t]
  BY <1>1, <1>2, <1>4, SMT DEF New
<1>6. \A u \in Tex \ {t} : heap'[u] \subseteq 1 .. made'[u]
  BY <1>3 DEF TypeOK
<1> QED BY <1>1, <1>2, <1>5, <1>6

LEMMA FreeOne ==
    ASSUME TypeOK, NEW t \in Tex, NEW freed, Free(t, freed)
    PROVE  /\ made' \in [Tex -> Nat]
           /\ heap' \in [Tex -> SUBSET Nat]
           /\ \A u \in Tex : heap'[u] \subseteq 1 .. made'[u]
<1>1. heap' = [heap EXCEPT ![t] = heap[t] \ freed] /\ made' = made
  BY DEF Free
<1>2. heap' \in [Tex -> SUBSET Nat] /\ \A u \in Tex : heap'[u] \subseteq heap[u]
  BY <1>1 DEF TypeOK
<1> QED BY <1>1, <1>2 DEF TypeOK

\* A thread goes on: only its own state changes.
LEMMA GoesTo ==
    ASSUME th \in [Thread -> Local], NEW w \in Thread,
           NEW r \in Local, th' = [th EXCEPT ![w] = r]
    PROVE  /\ th' \in [Thread -> Local]
           /\ th'[w] = r
           /\ \A u \in Thread \ {w} : th'[u] = th[u]
OBVIOUS

\* Where a thread may be.
Place == {"idle", "held", "begin", "adding", "loading", "making", "brushing",
          "ending", "brush", "texture", "file", "leave", "lower", "spared",
          "dropping", "again", "readding", "show"}

LEMMA GotoOne ==
    ASSUME th \in [Thread -> Local], NEW w \in Thread, NEW pc \in Place, Goto(w, pc)
    PROVE  /\ th' \in [Thread -> Local]
           /\ th'[w].at = pc /\ th'[w].tex = th[w].tex
           /\ th'[w].seen = th[w].seen /\ th'[w].data = th[w].data
           /\ \A u \in Thread \ {w} : th'[u] = th[u]
BY DEF Goto, Local, Place

LEMMA IdleType == Idle \in Local /\ Idle.at = "idle"
BY DEF Idle, Local

LEMMA DoneOne ==
    ASSUME th \in [Thread -> Local], NEW w \in Thread, Done(w)
    PROVE  /\ th' \in [Thread -> Local]
           /\ th'[w].at = "idle"
           /\ \A u \in Thread \ {w} : th'[u] = th[u]
BY DEF Done, Idle, Local

LEMMA TurnsOne ==
    ASSUME th \in [Thread -> Local], NEW w \in Thread, NEW t \in Tex, NEW pc \in Place,
           Turns(w, t, pc)
    PROVE  /\ th' \in [Thread -> Local]
           /\ th'[w].at = pc /\ th'[w].tex = t
           /\ \A u \in Thread \ {w} : th'[u] = th[u]
<1> DEFINE r == [Idle EXCEPT !.at = pc, !.tex = t]
<1>1. r \in Local /\ r.at = pc /\ r.tex = t
  BY IdleType DEF Local, Place
<1>2. th' = [th EXCEPT ![w] = r]
  BY DEF Turns
<1> HIDE DEF r
<1> QED BY <1>1, <1>2, GoesTo

LEMMA TakeOne ==
    ASSUME th \in [Thread -> Local], NEW w \in Thread, NEW t \in Tex, Take(w, t)
    PROVE  /\ th' \in [Thread -> Local]
           /\ th'[w].at = "held" /\ th'[w].tex = t
           /\ \A u \in Thread \ {w} : th'[u] = th[u]
<1> DEFINE r == [Idle EXCEPT !.at = "held", !.tex = t]
<1>1. r \in Local /\ r.at = "held" /\ r.tex = t
  BY IdleType DEF Local
<1>2. th' = [th EXCEPT ![w] = r]
  BY DEF Take
<1> HIDE DEF r
<1> QED BY <1>1, <1>2, GoesTo

LEMMA RemoveKeepsType ==
    ASSUME NEW S, NEW s \in Seq(S), NEW i \in DOMAIN s
    PROVE  s[i] \in S /\ RemoveAt(s, i) \in Seq(S)
<1>1. Len(s) \in Nat /\ DOMAIN s = 1 .. Len(s) /\ i \in 1 .. Len(s)
      /\ \A j \in 1 .. Len(s) : s[j] \in S
  BY LenProperties, ElementOfSeq
<1>2. SubSeq(s, 1, i - 1) \in Seq(S)
  <2>1. \A j \in 1 .. i - 1 : s[j] \in S
    BY <1>1
  <2>2. 1 \in Int /\ i - 1 \in Int
    BY <1>1
  <2> QED BY <2>1, <2>2, SubSeqProperties
<1>3. SubSeq(s, i + 1, Len(s)) \in Seq(S)
  <2>1. \A j \in i + 1 .. Len(s) : s[j] \in S
    BY <1>1
  <2>2. i + 1 \in Int /\ Len(s) \in Int
    BY <1>1
  <2> QED BY <2>1, <2>2, SubSeqProperties
<1> QED BY <1>1, <1>2, <1>3, ConcatProperties DEF RemoveAt

-----------------------------------------------------------------------------
(* What the steps leave alone.                                             *)

LEMMA Threads ==
    /\ LoadW \subseteq Thread /\ ReleaseW \subseteq Thread
    /\ Loader \in Thread /\ Screen \in Thread /\ Loader # Screen
    /\ Loader \notin LoadW \cup ReleaseW /\ Screen \notin LoadW \cup ReleaseW
    /\ LoadW \cap ReleaseW = {}
BY TextureAssumption DEF LoadW, Thread

LEMMA LoadableType ==
    ASSUME TypeOK
    PROVE  Loadable \subseteq Tex /\ Owned \subseteq Loadable
BY DEF Loadable, Owned, TypeOK, Tex

LEMMA HasItem ==
    ASSUME TypeOK, WorkerInv, NEW w \in LoadW, th[w].at # "idle"
    PROVE  My(w) \in Loadable /\ My(w) \in Tex
BY LoadableType DEF WorkerInv, At

\* A step that changes no count, and moves no worker in or out of UserAt.
LEMMA CountKept ==
    ASSUME CountIsRight, UNCHANGED owned,
           \A t \in Tex : item'[t].refs = item[t].refs /\ faults[t] \subseteq faults'[t],
           \A w \in LoadW : \/ th'[w].tex = th[w].tex /\ (th'[w].at \in UserAt <=> th[w].at \in UserAt)
                            \/ th'[w].at \notin UserAt /\ th[w].at \notin UserAt
    PROVE  CountIsRight'
<1> SUFFICES ASSUME NEW t \in Tex, Without(t, {"torn"})'
             PROVE  item'[t].refs = Cardinality(Users(t)') + owned'[t]
  BY DEF CountIsRight
<1>1. Without(t, {"torn"})
  BY DEF Without
<1>2. Users(t)' = Users(t)
  BY DEF Users, My
<1> QED BY <1>1, <1>2 DEF CountIsRight

\* A worker that loads goes on: the others, the list and the screen stay.
LEMMA LoadWorkerMoves ==
    ASSUME TypeOK, LoaderInv, ScreenInv, WorkerInv, NEW w \in LoadW,
           \A u \in Thread \ {w} : th'[u] = th[u],
           th'[w].at \in {"idle", "held", "begin", "adding"} \cup UserAt,
           th'[w].at # "idle" => th'[w].tex \in Loadable,
           UNCHANGED <<selected, owned>>,
           {fileQ', texQ', fileTexQ'} \subseteq Seq(Loadable), hand' \in Loadable \cup {None}
    PROVE  LoaderInv' /\ ScreenInv' /\ WorkerInv' /\ QueueInv'
<1> USE Threads
<1>1. th'[Loader] = th[Loader] /\ th'[Screen] = th[Screen]
  OBVIOUS
<1>2. Loadable' = Loadable
  BY <1>1 DEF Loadable, Owned, My
<1>3. LoaderInv'
  BY <1>1 DEF LoaderInv, My, At, Tex
<1>4. ScreenInv'
  BY <1>1 DEF ScreenInv, Owned, My, At
<1>5. WorkerInv'
  BY <1>2 DEF WorkerInv, My, At
<1>6. QueueInv'
  BY <1>2 DEF QueueInv
<1> QED BY <1>3, <1>4, <1>5, <1>6

\* A worker that releases goes on.
LEMMA ReleaseWorkerMoves ==
    ASSUME TypeOK, LoaderInv, ScreenInv, WorkerInv, QueueInv, NEW w \in ReleaseW,
           \A u \in Thread \ {w} : th'[u] = th[u],
           th'[w].at \in {"idle", "held", "brush", "texture", "file"},
           th'[w].at # "idle" => th'[w].tex \in Shot,
           UNCHANGED <<selected, owned, fileQ, texQ, fileTexQ, hand>>
    PROVE  LoaderInv' /\ ScreenInv' /\ WorkerInv' /\ QueueInv'
<1> USE Threads
<1>1. th'[Loader] = th[Loader] /\ th'[Screen] = th[Screen]
  OBVIOUS
<1>2. Loadable' = Loadable
  BY <1>1 DEF Loadable, Owned, My
<1>3. LoaderInv'
  BY <1>1 DEF LoaderInv, My, At, Tex
<1>4. ScreenInv'
  BY <1>1 DEF ScreenInv, Owned, My, At
<1>5. WorkerInv'
  BY <1>2 DEF WorkerInv, My, At
<1>6. QueueInv'
  BY <1>2 DEF QueueInv
<1> QED BY <1>3, <1>4, <1>5, <1>6

\* A step that does not come to a Release.
LEMMA SeenKept ==
    ASSUME TypeOK, LoaderInv, ScreenInv, WorkerInv, SeenInv,
           \A w \in LoadW : th'[w].at = "spared" => th'[w] = th[w],
           \A x \in {Loader, Screen} : th'[x].at \in {"lower", "spared", "dropping"} =>
               /\ th'[x].tex = th[x].tex
               /\ th'[x].at = th[x].at \/ (th[x].at = "lower" /\ th'[x].at = "dropping")
               /\ owned'[My(x)] = owned[My(x)],
           \A t \in Tex : faults[t] \subseteq faults'[t]
    PROVE  SeenInv'
<1> USE Threads
<1>1. ASSUME NEW w \in LoadW, At(w, "spared")', Without(My(w), {"torn"})'
      PROVE  FALSE
  <2>1. th'[w] = th[w] /\ At(w, "spared")
    BY <1>1 DEF At
  <2>2. My(w) \in Tex
    BY <1>1, <2>1, HasItem DEF At
  <2>3. Without(My(w), {"torn"})
    BY <1>1, <2>1, <2>2 DEF Without, My
  <2> QED BY <2>1, <2>3 DEF SeenInv
<1>2. ASSUME NEW x \in {Loader, Screen}, Without(My(x), {"torn"})',
             th'[x].at \in {"lower", "spared", "dropping"}
      PROVE  /\ th'[x].at \in {"lower", "dropping"} => owned'[My(x)'] > 0
             /\ At(x, "spared")' => owned'[My(x)'] = 0
  <2>1. /\ th[x].at \in {"lower", "spared", "dropping"} /\ My(x)' = My(x)
        /\ th'[x].at \in {"lower", "dropping"} => th[x].at \in {"lower", "dropping"}
        /\ At(x, "spared")' => At(x, "spared")
        /\ owned'[My(x)] = owned[My(x)]
    BY <1>2 DEF My, At
  <2>2. My(x) \in Tex
    BY <2>1 DEF LoaderInv, ScreenInv, At, Tex
  <2>3. Without(My(x), {"torn"})
    BY <1>2, <2>1, <2>2 DEF Without
  <2> QED BY <2>1, <2>3 DEF SeenInv
<1> QED BY <1>1, <1>2 DEF SeenInv, At

-----------------------------------------------------------------------------
(* The dispatchers.                                                        *)

LEMMA DispatchInvariance ==
    ASSUME Inv, NEW w \in LoadW \cup ReleaseW, Dispatch(w)
    PROVE  Inv'
<1> USE Threads DEF Inv
<1>t. Loadable \subseteq Tex /\ w \in Thread /\ th \in [Thread -> Local]
  BY LoadableType DEF TypeOK
<1>1. CASE DispatchFile(w)
  <2>1. w \in LoadW /\ Head(fileQ) \in Art /\ Head(fileQ) \in Loadable
        /\ Tail(fileQ) \in Seq(Art) /\ Tail(fileQ) \in Seq(Loadable)
    BY <1>1, HeadTailProperties DEF DispatchFile, TypeOK, QueueInv, LoadW
  <2>2. /\ th' \in [Thread -> Local]
        /\ th'[w].at = "held" /\ th'[w].tex = Head(fileQ)
        /\ \A u \in Thread \ {w} : th'[u] = th[u]
    BY <1>1, <1>t, <2>1, TakeOne DEF DispatchFile
  <2>3. TypeOK'
    BY <1>1, <2>1, <2>2 DEF DispatchFile, TypeOK
  <2>4. LoaderInv' /\ ScreenInv' /\ WorkerInv' /\ QueueInv'
    BY <1>1, <2>1, <2>2, LoadWorkerMoves DEF DispatchFile, QueueInv
  <2>5. CountIsRight'
    BY <1>1, <2>1, <2>2, CountKept DEF DispatchFile, UserAt, At
  <2>6. SeenInv'
    BY <1>1, <2>1, <2>2, SeenKept DEF DispatchFile, At
  <2> QED BY <2>3, <2>4, <2>5, <2>6
<1>2. ASSUME NEW i \in DOMAIN texQ, DispatchTexture(w, i) PROVE Inv'
  <2>1. w \in LoadW /\ texQ[i] \in Art \cup Icon /\ texQ[i] \in Loadable
        /\ RemoveAt(texQ, i) \in Seq(Art \cup Icon) /\ RemoveAt(texQ, i) \in Seq(Loadable)
    BY <1>2, RemoveKeepsType DEF DispatchTexture, TypeOK, QueueInv, LoadW
  <2>2. /\ th' \in [Thread -> Local]
        /\ th'[w].at = "held" /\ th'[w].tex = texQ[i]
        /\ \A u \in Thread \ {w} : th'[u] = th[u]
    BY <1>2, <1>t, <2>1, TakeOne DEF DispatchTexture
  <2>3. TypeOK'
    BY <1>2, <2>1, <2>2 DEF DispatchTexture, TypeOK
  <2>4. LoaderInv' /\ ScreenInv' /\ WorkerInv' /\ QueueInv'
    BY <1>2, <2>1, <2>2, LoadWorkerMoves DEF DispatchTexture, QueueInv
  <2>5. CountIsRight'
    BY <1>2, <2>1, <2>2, CountKept DEF DispatchTexture, UserAt, At
  <2>6. SeenInv'
    BY <1>2, <2>1, <2>2, SeenKept DEF DispatchTexture, At
  <2> QED BY <2>3, <2>4, <2>5, <2>6
<1>3. CASE DispatchFileTex(w)
  <2>1. w \in LoadW /\ hand \in Loadable /\ hand \in Tex
    BY <1>3, <1>t DEF DispatchFileTex, QueueInv, LoadW
  <2>2. /\ th' \in [Thread -> Local]
        /\ th'[w].at = "held" /\ th'[w].tex = hand
        /\ \A u \in Thread \ {w} : th'[u] = th[u]
    BY <1>3, <1>t, <2>1, TakeOne DEF DispatchFileTex
  <2>3. TypeOK'
    BY <1>3, <2>1, <2>2 DEF DispatchFileTex, TypeOK
  <2>4. LoaderInv' /\ ScreenInv' /\ WorkerInv' /\ QueueInv'
    BY <1>3, <2>1, <2>2, LoadWorkerMoves DEF DispatchFileTex, QueueInv
  <2>5. CountIsRight'
    BY <1>3, <2>1, <2>2, CountKept DEF DispatchFileTex, UserAt, At
  <2>6. SeenInv'
    BY <1>3, <2>1, <2>2, SeenKept DEF DispatchFileTex, At
  <2> QED BY <2>3, <2>4, <2>5, <2>6
<1>4. CASE DispatchRelease(w)
  <2>1. w \in ReleaseW /\ Head(relQ) \in Shot /\ Tail(relQ) \in Seq(Shot) /\ Shot \subseteq Tex
    BY <1>4, HeadTailProperties DEF DispatchRelease, TypeOK, Tex
  <2>2. /\ th' \in [Thread -> Local]
        /\ th'[w].at = "held" /\ th'[w].tex = Head(relQ)
        /\ \A u \in Thread \ {w} : th'[u] = th[u]
    BY <1>4, <1>t, <2>1, TakeOne DEF DispatchRelease
  <2>3. TypeOK'
    BY <1>4, <2>1, <2>2 DEF DispatchRelease, TypeOK
  <2>4. LoaderInv' /\ ScreenInv' /\ WorkerInv' /\ QueueInv'
    BY <1>4, <2>1, <2>2, ReleaseWorkerMoves DEF DispatchRelease
  <2>5. CountIsRight'
    BY <1>4, <2>1, <2>2, CountKept DEF DispatchRelease, UserAt, At
  <2>6. SeenInv'
    BY <1>4, <2>1, <2>2, SeenKept DEF DispatchRelease, At
  <2> QED BY <2>3, <2>4, <2>5, <2>6
<1> QED BY <1>1, <1>2, <1>3, <1>4 DEF Dispatch

\* FileTexQueue's dispatcher pops an item, or passes it over.
LEMMA PopInvariance ==
    ASSUME Inv, PopFileTex
    PROVE  Inv'
<1> USE DEF Inv
<1>1. /\ Head(fileTexQ) \in Art \cup Shot /\ Head(fileTexQ) \in Loadable
      /\ Tail(fileTexQ) \in Seq(Art \cup Shot) /\ Tail(fileTexQ) \in Seq(Loadable)
  BY HeadTailProperties DEF PopFileTex, TypeOK, QueueInv
<1>2. /\ hand' \in (Art \cup Shot \cup {None}) /\ hand' \in Loadable \cup {None}
      /\ fileTexQ' = Tail(fileTexQ)
      /\ UNCHANGED <<item, heap, made, th, fileQ, texQ, relQ, loaderQ, selected, spent, owned, faults>>
  BY <1>1 DEF PopFileTex
<1>3. TypeOK'
  BY <1>1, <1>2 DEF TypeOK
<1>4. LoaderInv' /\ ScreenInv' /\ Loadable' = Loadable
  BY <1>2 DEF LoaderInv, ScreenInv, Loadable, Owned, At, My
<1>5. WorkerInv' /\ QueueInv'
  BY <1>1, <1>2, <1>4 DEF WorkerInv, QueueInv, At, My
<1>6. CountIsRight'
  BY <1>2, CountKept
<1>7. SeenInv'
  BY <1>2 DEF SeenInv, Without, At, My
<1> QED BY <1>3, <1>4, <1>5, <1>6, <1>7

-----------------------------------------------------------------------------
(* The workers.                                                            *)

\* A worker starts on its item, or gives it up.
LEMMA StartInvariance ==
    ASSUME Inv, NEW w \in LoadW \cup ReleaseW, Start(w)
    PROVE  Inv'
<1> USE Threads DEF Inv
<1>t. Loadable \subseteq Tex /\ w \in Thread /\ th \in [Thread -> Local]
      /\ {"begin", "brush"} \subseteq Place
  BY LoadableType DEF TypeOK, Place
<1>k. KeepItems /\ At(w, "held")
  BY DEF Start, StartFile, StartTexture, DropTexture, StartFileTex, StartRelease
<1>1. CASE w \in LoadW
  <2>0. Goto(w, "begin") \/ Done(w)
    <3>1. w \notin ReleaseW
      BY <1>1
    <3> QED BY <3>1 DEF Start, StartFile, StartTexture, DropTexture, StartFileTex, StartRelease
  <2>1. /\ th' \in [Thread -> Local]
        /\ th'[w].at \in {"begin", "idle"}
        /\ th'[w].at # "idle" => th'[w].tex = th[w].tex
        /\ \A u \in Thread \ {w} : th'[u] = th[u]
    <3>1. CASE Goto(w, "begin")
      BY <1>t, <3>1, GotoOne
    <3>2. CASE Done(w)
      BY <1>t, <3>2, DoneOne
    <3> QED BY <2>0, <3>1, <3>2
  <2>2. TypeOK'
    BY <1>k, <2>1 DEF KeepItems, queues, TypeOK
  <2>3. th'[w].at # "idle" => th'[w].tex \in Loadable
    BY <1>1, <1>k, <2>1 DEF WorkerInv, At, My
  <2>4. LoaderInv' /\ ScreenInv' /\ WorkerInv' /\ QueueInv'
    BY <1>1, <1>k, <2>1, <2>3, LoadWorkerMoves DEF KeepItems, queues, QueueInv
  <2>5. CountIsRight'
    BY <1>1, <1>k, <2>1, CountKept DEF KeepItems, queues, UserAt, At
  <2>6. SeenInv'
    BY <1>1, <1>k, <2>1, SeenKept DEF KeepItems, queues
  <2> QED BY <2>2, <2>4, <2>5, <2>6
<1>2. CASE w \in ReleaseW
  <2>0. Goto(w, "brush")
    <3>1. w \notin FileW \cup TextureW \cup FileTexW
      BY <1>2 DEF LoadW
    <3> QED BY <3>1 DEF Start, StartFile, StartTexture, DropTexture, StartFileTex, StartRelease
  <2>1. /\ th' \in [Thread -> Local]
        /\ th'[w].at = "brush" /\ th'[w].tex = th[w].tex
        /\ \A u \in Thread \ {w} : th'[u] = th[u]
    BY <1>t, <2>0, GotoOne
  <2>2. TypeOK'
    BY <1>k, <2>1 DEF KeepItems, queues, TypeOK
  <2>3. th'[w].tex \in Shot
    BY <1>2, <1>k, <2>1 DEF WorkerInv, At, My
  <2>4. LoaderInv' /\ ScreenInv' /\ WorkerInv' /\ QueueInv'
    BY <1>2, <1>k, <2>1, <2>3, ReleaseWorkerMoves DEF KeepItems, queues
  <2>5. CountIsRight'
    BY <1>2, <1>k, <2>1, CountKept DEF KeepItems, queues
  <2>6. SeenInv'
    BY <1>2, <1>k, <2>1, SeenKept DEF KeepItems, queues
  <2> QED BY <2>2, <2>4, <2>5, <2>6
<1> QED BY <1>1, <1>2

\* A step on t that keeps its count.
LEMMA StepKeeps ==
    ASSUME TypeOK, NEW t \in Tex, NEW it \in ItemState, Becomes(t, it),
           it.refs = item[t].refs
    PROVE  /\ item' \in [Tex -> ItemState]
           /\ \A u \in Tex : item'[u].refs = item[u].refs
BY BecomesOne DEF TypeOK

\* A worker's step in the middle of a load.
LEMMA WorkKeeps ==
    ASSUME Inv, NEW w \in LoadW, th[w].at \in UserAt \ {"spared"},
           NEW it \in ItemState, Becomes(My(w), it), it.refs = item[My(w)].refs,
           th' \in [Thread -> Local], \A u \in Thread \ {w} : th'[u] = th[u],
           th'[w].at \in UserAt \ {"spared"}, th'[w].tex = th[w].tex,
           faults' \in [Tex -> SUBSET Fault], \A t \in Tex : faults[t] \subseteq faults'[t],
           made' \in [Tex -> Nat], heap' \in [Tex -> SUBSET Nat],
           \A t \in Tex : heap'[t] \subseteq 1 .. made'[t],
           spent' \in Budget,
           UNCHANGED <<queues, selected, owned>>
    PROVE  Inv'
<1> USE Threads DEF Inv
<1>1. ~ At(w, "idle") /\ My(w) \in Loadable
  BY HasItem DEF UserAt, At
<1>2. My(w) \in Tex
  BY <1>1, LoadableType
<1>4. /\ item' \in [Tex -> ItemState]
      /\ \A u \in Tex : item'[u].refs = item[u].refs
  BY <1>2, StepKeeps
<1>5. TypeOK'
  BY <1>4 DEF TypeOK, queues
<1>6. LoaderInv' /\ ScreenInv' /\ WorkerInv' /\ QueueInv'
  <2>1. {fileQ', texQ', fileTexQ'} \subseteq Seq(Loadable) /\ hand' \in Loadable \cup {None}
    BY DEF queues, QueueInv
  <2>2. th'[w].tex \in Loadable
    BY <1>1 DEF My
  <2> QED BY <1>4, <2>1, <2>2, LoadWorkerMoves
<1>7. CountIsRight'
  BY <1>4, CountKept
<1>8. SeenInv'
  <2>1. \A x \in {Loader, Screen} : th'[x] = th[x]
    OBVIOUS
  <2>2. \A v \in LoadW : th'[v].at = "spared" => th'[v] = th[v]
    OBVIOUS
  <2> QED BY <2>1, <2>2, SeenKept
<1> QED BY <1>5, <1>6, <1>7, <1>8

\* A worker begins to use an item: the count grows with its users.
LEMMA CountGrows ==
    ASSUME TypeOK, CountIsRight, NEW w \in LoadW, NEW t \in Tex,
           My(w) = t, th[w].at \notin UserAt, th'[w].tex = t, th'[w].at \in UserAt,
           \A u \in LoadW \ {w} : th'[u] = th[u],
           UNCHANGED owned,
           \A u \in Tex \ {t} : item'[u].refs = item[u].refs,
           \A u \in Tex : faults[u] \subseteq faults'[u],
           Without(t, {"torn"})' => item'[t].refs = item[t].refs + 1
    PROVE  CountIsRight'
<1> SUFFICES ASSUME NEW u \in Tex, Without(u, {"torn"})'
             PROVE  item'[u].refs = Cardinality(Users(u)') + owned'[u]
  BY DEF CountIsRight
<1>1. Without(u, {"torn"})
  BY DEF Without
<1>2. IsFiniteSet(Users(u)) /\ Cardinality(Users(u)) \in Nat
  <2>1. Users(u) \subseteq LoadW
    BY DEF Users
  <2> QED BY <2>1, TextureAssumption, FS_Subset, FS_CardinalityType
<1>3. item[u].refs = Cardinality(Users(u)) + owned[u] /\ owned[u] \in Nat
  BY <1>1 DEF CountIsRight, TypeOK
<1>4. CASE u # t
  <2>1. Users(u)' = Users(u)
    BY <1>4 DEF Users, My
  <2> QED BY <1>3, <1>4, <2>1
<1>5. CASE u = t
  <2>1. Users(t)' = Users(t) \cup {w} /\ w \notin Users(t)
    BY DEF Users, My
  <2>2. Cardinality(Users(t)') = Cardinality(Users(t)) + 1
    <3>1. Cardinality(Users(t) \cup {w}) = Cardinality(Users(t)) + 1
      BY <1>2, <1>5, <2>1, FS_AddElement
    <3> QED BY <2>1, <3>1
  <2>3. item'[t].refs = item[t].refs + 1
    BY <1>5
  <2> QED BY <1>2, <1>3, <1>5, <2>2, <2>3
<1> QED BY <1>4, <1>5

\* And it ends.
LEMMA CountShrinks ==
    ASSUME TypeOK, CountIsRight, NEW w \in LoadW, NEW t \in Tex,
           My(w) = t, th[w].at \in UserAt, th'[w].at \notin UserAt,
           \A u \in LoadW \ {w} : th'[u] = th[u],
           UNCHANGED owned,
           \A u \in Tex \ {t} : item'[u].refs = item[u].refs,
           \A u \in Tex : faults[u] \subseteq faults'[u],
           Without(t, {"torn"})' => item'[t].refs = item[t].refs - 1
    PROVE  CountIsRight'
<1> SUFFICES ASSUME NEW u \in Tex, Without(u, {"torn"})'
             PROVE  item'[u].refs = Cardinality(Users(u)') + owned'[u]
  BY DEF CountIsRight
<1>1. Without(u, {"torn"})
  BY DEF Without
<1>2. IsFiniteSet(Users(u)) /\ Cardinality(Users(u)) \in Nat
  <2>1. Users(u) \subseteq LoadW
    BY DEF Users
  <2> QED BY <2>1, TextureAssumption, FS_Subset, FS_CardinalityType
<1>3. item[u].refs = Cardinality(Users(u)) + owned[u] /\ owned[u] \in Nat
  BY <1>1 DEF CountIsRight, TypeOK
<1>4. CASE u # t
  <2>1. Users(u)' = Users(u)
    BY <1>4 DEF Users, My
  <2> QED BY <1>3, <1>4, <2>1
<1>5. CASE u = t
  <2>1. Users(t)' = Users(t) \ {w} /\ w \in Users(t)
    BY DEF Users, My
  <2>2. Cardinality(Users(t)') = Cardinality(Users(t)) - 1
    BY <1>2, <1>5, <2>1, FS_RemoveElement
  <2>3. item'[t].refs = item[t].refs - 1
    BY <1>5
  <2> QED BY <1>2, <1>3, <1>5, <2>2, <2>3
<1> QED BY <1>4, <1>5

\* The steps between AddRef and the reading of the count that Release begins with.
LEMMA MiddleInvariance ==
    ASSUME Inv, NEW w \in LoadW,
           \/ FreeData(w) \/ \E size \in {0, 1} : Load(w, size)
           \/ LoadFails(w) \/ Make(w) \/ MakeFails(w) \/ MakeNothing(w)
           \/ Attach(w) \/ AttachFails(w)
    PROVE  Inv'
<1> USE Threads DEF Inv
<1>a. th[w].at \in {"loading", "making", "brushing", "ending"}
  BY DEF FreeData, Load, LoadFails, Make, MakeFails, MakeNothing, Attach, AttachFails, At
<1>b. My(w) \in Tex /\ w \in Thread /\ th[w].at \in UserAt \ {"spared"}
  BY <1>a, HasItem DEF UserAt
<1>c. /\ item[My(w)] \in ItemState /\ th \in [Thread -> Local] /\ New(My(w)) \in Nat
      /\ faults \in [Tex -> SUBSET Fault] /\ spent \in Budget
      /\ made \in [Tex -> Nat] /\ heap \in [Tex -> SUBSET Nat]
      /\ \A t \in Tex : heap[t] \subseteq 1 .. made[t]
  BY <1>b DEF TypeOK, New
<1>d. Fails => spent' \in Budget
  BY DEF Fails, Spends
<1> DEFINE Goes(pc) == /\ th' \in [Thread -> Local] /\ \A u \in Thread \ {w} : th'[u] = th[u]
                       /\ th'[w].at = pc /\ th'[w].tex = th[w].tex
<1>e. ASSUME NEW pc \in Place, Goto(w, pc) PROVE Goes(pc)
  BY <1>b, <1>c, <1>e, GotoOne
<1>f. ASSUME NEW loaded \in BOOLEAN, AfterLoad(w, loaded)
      PROVE  Goes(IF w \in FileW THEN "leave" ELSE IF loaded THEN "making" ELSE "ending")
  <2> DEFINE pc == IF w \in FileW THEN "leave" ELSE IF loaded THEN "making" ELSE "ending"
             n == IF loaded THEN New(My(w)) ELSE 0
             r == [th[w] EXCEPT !.at = pc, !.data = n]
  <2>1. r \in Local /\ r.at = pc /\ r.tex = th[w].tex
    <3>1. pc \in Place /\ n \in Nat /\ th[w] \in Local
      BY <1>b, <1>c DEF Place
    <3> HIDE DEF pc, n
    <3> QED BY <3>1 DEF Local, Place
  <2>2. th' = [th EXCEPT ![w] = r]
    BY <1>b, <1>c, <1>f DEF AfterLoad, Local
  <2> HIDE DEF r, pc
  <2>3. th' \in [Thread -> Local] /\ th'[w] = r /\ \A u \in Thread \ {w} : th'[u] = th[u]
    BY <1>b, <1>c, <2>1, <2>2, GoesTo
  <2>4. Goes(pc)
    BY <2>1, <2>3
  <2> QED BY <2>4 DEF pc
<1>g. ASSUME NEW it, AfterFailure(w, it)
      PROVE  Goes("brushing") \/ Goes("ending")
  BY <1>e, <1>g DEF AfterFailure, Place
<1>1. CASE FreeData(w)
  <2>1. Goes("leave")
    BY <1>1, <1>e DEF FreeData, Place
  <2>2. /\ made' \in [Tex -> Nat] /\ heap' \in [Tex -> SUBSET Nat]
        /\ \A u \in Tex : heap'[u] \subseteq 1 .. made'[u]
    BY <1>1, <1>b, FreeOne DEF FreeData
  <2>3. /\ ReleaseFilePointer(item[My(w)]) \in ItemState
        /\ ReleaseFilePointer(item[My(w)]).refs = item[My(w)].refs
    BY <1>c, Methods
  <2>4. "leave" \in UserAt \ {"spared"}
    BY DEF UserAt
  <2> QED BY <1>1, <1>b, <1>c, <2>1, <2>2, <2>3, <2>4, WorkKeeps DEF FreeData
<1>2. ASSUME NEW size \in {0, 1}, Load(w, size) PROVE Inv'
  <2> DEFINE it == SetFilePointer(item[My(w)], New(My(w)), size)
  <2>1. Goes("leave") \/ Goes("making") \/ Goes("ending")
    <3>1. (size > 0) \in BOOLEAN
      OBVIOUS
    <3>2. Goes(IF w \in FileW THEN "leave" ELSE IF size > 0 THEN "making" ELSE "ending")
      BY <1>2, <1>f, <3>1 DEF Load
    <3> HIDE DEF Goes
    <3> QED BY <3>2
  <2>2. /\ made' \in [Tex -> Nat] /\ heap' \in [Tex -> SUBSET Nat]
        /\ \A u \in Tex : heap'[u] \subseteq 1 .. made'[u]
    BY <1>2, <1>b, AllocateOne DEF Load
  <2>3. it \in ItemState /\ it.refs = item[My(w)].refs
    BY <1>c, Methods, ZenonT(60)
  <2>4. {"leave", "making", "ending"} \subseteq UserAt \ {"spared"}
    BY DEF UserAt
  <2>5. spent' \in Budget
    BY <1>2, <1>c, <1>d DEF Load, Sized
  <2>6. faults' \in [Tex -> SUBSET Fault] /\ \A t \in Tex : faults[t] \subseteq faults'[t]
    <3>1. (IF size = 0 THEN {"empty"} ELSE {}) \in SUBSET Fault
      BY DEF Fault
    <3> QED BY <1>2, <1>b, <1>c, <3>1, BlameOne DEF Load
  <2>7. Becomes(My(w), it) /\ UNCHANGED <<queues, selected, owned>>
    BY <1>2 DEF Load
  <2> HIDE DEF it
  <2> QED BY <1>b, <2>1, <2>2, <2>3, <2>4, <2>5, <2>6, <2>7, WorkKeeps
<1>3. CASE LoadFails(w)
  <2> DEFINE it == [item[My(w)] EXCEPT !.ptr = 0, !.file = "error", !.brush = "error"]
  <2>1. Goes("leave") \/ Goes("making") \/ Goes("ending")
    BY <1>3, <1>f DEF LoadFails
  <2>3. it \in ItemState /\ it.refs = item[My(w)].refs
    BY <1>c DEF ItemState
  <2>4. {"leave", "making", "ending"} \subseteq UserAt \ {"spared"}
    BY DEF UserAt
  <2>5. spent' \in Budget
    BY <1>3, <1>c, <1>d DEF LoadFails
  <2>7. Becomes(My(w), it) /\ UNCHANGED <<queues, selected, owned, heap, made, faults>>
    BY <1>3 DEF LoadFails
  <2> HIDE DEF it
  <2> QED BY <1>b, <1>c, <2>1, <2>3, <2>4, <2>5, <2>7, WorkKeeps
<1>4. CASE Make(w)
  <2> DEFINE it == SetD3DTexture(item[My(w)], New(My(w)))
  <2>1. Goes("brushing")
    BY <1>4, <1>e DEF Make, Place
  <2>2. /\ made' \in [Tex -> Nat] /\ heap' \in [Tex -> SUBSET Nat]
        /\ \A u \in Tex : heap'[u] \subseteq 1 .. made'[u]
    BY <1>4, <1>b, AllocateOne DEF Make
  <2>3. it \in ItemState /\ it.refs = item[My(w)].refs
    BY <1>c, Methods
  <2>4. "brushing" \in UserAt \ {"spared"}
    BY DEF UserAt
  <2>7. Becomes(My(w), it) /\ UNCHANGED <<queues, selected, spent, owned, faults>>
    BY <1>4 DEF Make
  <2> HIDE DEF it
  <2> QED BY <1>b, <1>c, <2>1, <2>2, <2>3, <2>4, <2>7, WorkKeeps
<1>5. CASE MakeFails(w)
  <2> DEFINE it == IF w \in FileTexW THEN [item[My(w)] EXCEPT !.file = "texerror"]
                   ELSE [SetD3DTexture(item[My(w)], 0) EXCEPT !.file = "texerror", !.brush = "error"]
  <2>1. Goes("brushing") \/ Goes("ending")
    BY <1>5, <1>g DEF MakeFails
  <2>3. it \in ItemState /\ it.refs = item[My(w)].refs
    BY <1>c DEF ItemState, SetD3DTexture
  <2>4. {"brushing", "ending"} \subseteq UserAt \ {"spared"}
    BY DEF UserAt
  <2>5. spent' \in Budget
    BY <1>5, <1>c, <1>d DEF MakeFails
  <2>7. Becomes(My(w), it) /\ UNCHANGED <<queues, selected, owned, heap, made, faults>>
    BY <1>5 DEF MakeFails
  <2> HIDE DEF it
  <2> QED BY <1>b, <1>c, <2>1, <2>3, <2>4, <2>5, <2>7, WorkKeeps
<1>6. CASE Attach(w)
  <2> DEFINE it == SetTextureBrush(item[My(w)], New(My(w)))
  <2>1. Goes("ending")
    BY <1>6, <1>e DEF Attach, Place
  <2>2. /\ made' \in [Tex -> Nat] /\ heap' \in [Tex -> SUBSET Nat]
        /\ \A u \in Tex : heap'[u] \subseteq 1 .. made'[u]
    BY <1>6, <1>b, AllocateOne DEF Attach
  <2>3. it \in ItemState /\ it.refs = item[My(w)].refs
    BY <1>c, Methods
  <2>4. "ending" \in UserAt \ {"spared"}
    BY DEF UserAt
  <2>7. Becomes(My(w), it) /\ UNCHANGED <<queues, selected, spent, owned, faults>>
    BY <1>6 DEF Attach
  <2> HIDE DEF it
  <2> QED BY <1>b, <1>c, <2>1, <2>2, <2>3, <2>4, <2>7, WorkKeeps
<1>7. CASE AttachFails(w)
  <2> DEFINE it == [item[My(w)] EXCEPT !.ptr = IF w \in TextureW THEN 0 ELSE @,
                                       !.file = "brusherror"]
  <2>1. Goes("ending")
    BY <1>7, <1>e DEF AttachFails, Place
  <2>3. it \in ItemState /\ it.refs = item[My(w)].refs
    BY <1>c DEF ItemState
  <2>4. "ending" \in UserAt \ {"spared"}
    BY DEF UserAt
  <2>5. spent' \in Budget
    BY <1>7, <1>c, <1>d DEF AttachFails
  <2>6. faults' \in [Tex -> SUBSET Fault] /\ \A t \in Tex : faults[t] \subseteq faults'[t]
    <3>1. {"brush"} \in SUBSET Fault
      BY DEF Fault
    <3> QED BY <1>7, <1>b, <1>c, <3>1, BlameOne DEF AttachFails
  <2>7. Becomes(My(w), it) /\ UNCHANGED <<queues, selected, owned, heap, made>>
    BY <1>7 DEF AttachFails
  <2> HIDE DEF it
  <2> QED BY <1>b, <1>c, <2>1, <2>3, <2>4, <2>5, <2>6, <2>7, WorkKeeps
<1>8. CASE MakeNothing(w)
  <2>1. Goes("brushing") \/ Goes("ending")
    BY <1>8, <1>e, <1>g DEF MakeNothing, Place
  <2>2. Becomes(My(w), item[My(w)])
    BY <1>8, <1>b DEF MakeNothing, KeepItems, Becomes, TypeOK
  <2>3. {"brushing", "ending"} \subseteq UserAt \ {"spared"}
    BY DEF UserAt
  <2>4. UNCHANGED <<queues, selected, spent, owned, heap, made, faults>>
    BY <1>8 DEF MakeNothing, KeepItems
  <2> QED BY <1>b, <1>c, <2>1, <2>2, <2>3, <2>4, WorkKeeps
<1> QED BY <1>1, <1>2, <1>3, <1>4, <1>5, <1>6, <1>7, <1>8

\* AddRef writes what ReadCount read, plus one; Release, minus one.
LEMMA CountWrites ==
    ASSUME TypeOK, NEW w \in Thread, My(w) \in Tex
    PROVE  /\ Added(w) \in ItemState
           /\ Torn(w) = {} => Added(w).refs = item[My(w)].refs + 1
           /\ Dropped(w) \in ItemState
           /\ At(w, "dropping") /\ TornByDrop(w) = {} => Dropped(w).refs = item[My(w)].refs - 1
           /\ At(w, "spared") => Dropped(w).refs = item[My(w)].refs
           /\ Torn(w) \subseteq {"torn"} /\ TornByDrop(w) \subseteq {"torn"}
           /\ Torn(w) \in SUBSET Fault /\ TornByDrop(w) \in SUBSET Fault
<1>1. item[My(w)] \in ItemState /\ th[w] \in Local
  BY DEF TypeOK
<1>2. item[My(w)].refs \in Int /\ th[w].seen \in Int
  BY <1>1 DEF ItemState, Local
<1>3. Added(w) \in ItemState /\ Added(w).refs = th[w].seen + 1
  BY <1>1, <1>2 DEF Added, ItemState
<1>4. CASE At(w, "dropping")
  <2>1. /\ Dropped(w) \in ItemState /\ Dropped(w).refs = th[w].seen - 1
    BY <1>1, <1>2, <1>4 DEF Dropped, ItemState
  <2> QED BY <1>2, <1>3, <1>4, <2>1 DEF Torn, TornByDrop, Fault, At
<1>5. CASE ~ At(w, "dropping")
  BY <1>1, <1>2, <1>3, <1>5 DEF Dropped, Torn, TornByDrop, Fault
<1> QED BY <1>4, <1>5

LEMMA AddRefInvariance ==
    ASSUME Inv, NEW w \in LoadW, AddRef(w)
    PROVE  Inv'
<1> USE Threads DEF Inv
<1> DEFINE t == My(w)
           it == [Added(w) EXCEPT !.brush = "loading"]
<1>1. /\ th[w].at = "adding" /\ w \in Thread /\ t \in Tex /\ t \in Loadable
      /\ th \in [Thread -> Local] /\ faults \in [Tex -> SUBSET Fault] /\ item[t] \in ItemState
  BY HasItem DEF AddRef, At, TypeOK
<1>2. /\ it \in ItemState /\ it.refs = Added(w).refs
  <2>1. Added(w) \in ItemState
    BY <1>1, CountWrites
  <2> HIDE DEF t
  <2> QED BY <2>1 DEF ItemState
<1>3. /\ item' \in [Tex -> ItemState] /\ item'[t] = it /\ \A u \in Tex \ {t} : item'[u] = item[u]
  <2>1. item \in [Tex -> ItemState] /\ Becomes(t, it)
    BY DEF TypeOK, AddRef
  <2> HIDE DEF t, it
  <2> QED BY <1>1, <1>2, <2>1, BecomesOne
<1>4. /\ th' \in [Thread -> Local] /\ \A u \in Thread \ {w} : th'[u] = th[u]
      /\ th'[w].at \in {"making", "loading"} /\ th'[w].tex = t
  <2>1. CASE w \in TextureW
    <3> DEFINE r == [th[w] EXCEPT !.at = "making", !.data = item[t].ptr]
    <3>1. r \in Local /\ r.at = "making" /\ r.tex = t
      <4>1. th[w] \in Local /\ item[t].ptr \in Nat
        BY <1>1 DEF ItemState
      <4> QED BY <4>1 DEF Local, My
    <3>2. th' = [th EXCEPT ![w] = r]
      BY <1>1, <2>1 DEF AddRef, Local
    <3> HIDE DEF r, t
    <3>3. th' \in [Thread -> Local] /\ th'[w] = r /\ \A u \in Thread \ {w} : th'[u] = th[u]
      BY <1>1, <3>1, <3>2, GoesTo
    <3> QED BY <3>1, <3>3
  <2>2. CASE w \notin TextureW
    <3>1. Goto(w, "loading") /\ "loading" \in Place
      BY <2>2 DEF AddRef, Place
    <3> QED BY <1>1, <3>1, GotoOne DEF My
  <2> QED BY <2>1, <2>2
<1>5. /\ Blame(t, Torn(w)) /\ Torn(w) \in SUBSET Fault /\ Torn(w) \in SUBSET {"torn"}
      /\ faults' \in [Tex -> SUBSET Fault] /\ \A u \in Tex : faults[u] \subseteq faults'[u]
  <2>1. Blame(t, Torn(w)) /\ Torn(w) \in SUBSET Fault /\ Torn(w) \in SUBSET {"torn"}
    BY <1>1, CountWrites DEF AddRef
  <2> HIDE DEF t
  <2> QED BY <1>1, <2>1, BlameOne
<1>u. UNCHANGED <<heap, made, queues, selected, spent, owned>>
  BY DEF AddRef
<1>6. TypeOK'
  BY <1>3, <1>4, <1>5, <1>u DEF TypeOK, queues
<1>7. LoaderInv' /\ ScreenInv' /\ WorkerInv' /\ QueueInv'
  <2>2. th'[w].at \in UserAt
    BY <1>4 DEF UserAt
  <2>3. {fileQ', texQ', fileTexQ'} \subseteq Seq(Loadable) /\ hand' \in Loadable \cup {None}
    BY <1>u DEF QueueInv, queues
  <2> HIDE DEF t
  <2> QED BY <1>1, <1>4, <1>u, <2>2, <2>3, LoadWorkerMoves
<1>8. CountIsRight'
  <2>1. PICK u \in Tex : u = t
    BY <1>1
  <2>2. Without(u, {"torn"})' => item'[u].refs = item[u].refs + 1
    <3> SUFFICES ASSUME Without(u, {"torn"})' PROVE item'[u].refs = item[u].refs + 1
      OBVIOUS
    <3>1. faults'[u] = faults[u] \cup Torn(w)
      BY <1>1, <1>5, <2>1, BlameOne
    <3>2. Torn(w) = {}
      BY <1>5, <3>1 DEF Without
    <3> QED BY <1>1, <1>2, <1>3, <2>1, <3>2, CountWrites
  <2>3. th[w].at \notin UserAt /\ th'[w].at \in UserAt /\ My(w) = u /\ th'[w].tex = u
    BY <1>1, <1>4, <2>1 DEF UserAt
  <2>4. \A v \in Tex \ {u} : item'[v].refs = item[v].refs
    BY <1>3, <2>1
  <2>5. \A v \in LoadW \ {w} : th'[v] = th[v]
    BY <1>4
  <2> HIDE DEF t
  <2> QED BY <1>5, <1>u, <2>2, <2>3, <2>4, <2>5, CountGrows
<1>9. SeenInv'
  <2>1. \A v \in LoadW : th'[v].at = "spared" => th'[v] = th[v]
    BY <1>4
  <2> QED BY <1>4, <1>5, <1>u, <2>1, SeenKept
<1> QED BY <1>6, <1>7, <1>8, <1>9

LEMMA ReleaseInvariance ==
    ASSUME Inv, NEW w \in LoadW, Release(w)
    PROVE  Inv'
<1> USE Threads DEF Inv
<1>1. /\ th[w].at \in {"dropping", "spared"} /\ w \in Thread /\ My(w) \in Tex /\ My(w) \in Loadable
      /\ th \in [Thread -> Local] /\ faults \in [Tex -> SUBSET Fault]
      /\ item \in [Tex -> ItemState]
  BY HasItem DEF Release, Leaves, At, TypeOK
<1>2. PICK t \in Tex : t = My(w)
  BY <1>1
<1>3. /\ Becomes(t, Dropped(w)) /\ Blame(t, TornByDrop(w)) /\ Done(w)
      /\ UNCHANGED <<heap, made, queues, selected, spent, owned>>
  BY <1>2 DEF Release
<1>4. /\ Dropped(w) \in ItemState
      /\ TornByDrop(w) \in SUBSET Fault /\ TornByDrop(w) \subseteq {"torn"}
  BY <1>1, <1>2, CountWrites
<1>5. item' \in [Tex -> ItemState] /\ item'[t] = Dropped(w) /\ \A u \in Tex \ {t} : item'[u] = item[u]
  BY <1>1, <1>3, <1>4, BecomesOne
<1>6. th' \in [Thread -> Local] /\ th'[w].at = "idle" /\ \A u \in Thread \ {w} : th'[u] = th[u]
  BY <1>1, <1>3, DoneOne
<1>7. /\ faults' \in [Tex -> SUBSET Fault] /\ \A u \in Tex : faults[u] \subseteq faults'[u]
      /\ faults'[t] = faults[t] \cup TornByDrop(w)
  BY <1>1, <1>3, <1>4, BlameOne
<1>8. TypeOK'
  BY <1>3, <1>5, <1>6, <1>7 DEF TypeOK, queues
<1>9. LoaderInv' /\ ScreenInv' /\ WorkerInv' /\ QueueInv'
  <2>1. {fileQ', texQ', fileTexQ'} \subseteq Seq(Loadable) /\ hand' \in Loadable \cup {None}
    BY <1>3 DEF QueueInv, queues
  <2> QED BY <1>3, <1>6, <2>1, LoadWorkerMoves
<1>10. CountIsRight'
  <2>1. ASSUME Without(t, {"torn"})' PROVE item'[t].refs = item[t].refs - 1
    <3>1. TornByDrop(w) = {} /\ Without(t, {"torn"})
      BY <1>4, <1>7, <2>1 DEF Without
    <3>2. At(w, "dropping")
      BY <1>1, <1>2, <3>1 DEF SeenInv, At
    <3> QED BY <1>1, <1>2, <1>5, <3>1, <3>2, CountWrites
  <2>2. th[w].at \in UserAt /\ th'[w].at \notin UserAt
    BY <1>1, <1>6 DEF UserAt
  <2>3. \A u \in Tex \ {t} : item'[u].refs = item[u].refs
    BY <1>5
  <2>4. \A u \in LoadW \ {w} : th'[u] = th[u]
    BY <1>6
  <2>5. UNCHANGED owned
    BY <1>3
  <2> QED BY <1>2, <1>7, <2>1, <2>2, <2>3, <2>4, <2>5, CountShrinks
<1>11. SeenInv'
  <2>1. \A v \in LoadW : th'[v].at = "spared" => th'[v] = th[v]
    BY <1>6
  <2> QED BY <1>3, <1>6, <1>7, <2>1, SeenKept
<1> QED BY <1>8, <1>9, <1>10, <1>11

\* Who has a reference, and no count of it was torn, finds the count above 0;
\* the loader and the screen have one, or nobody has.
LEMMA CountRead ==
    ASSUME Inv
    PROVE  /\ \A w \in LoadW : th[w].at \in UserAt /\ Without(My(w), {"torn"}) => item[My(w)].refs > 0
           /\ \A x \in {Loader, Screen} : At(x, "leave") /\ Without(My(x), {"torn"}) =>
                 (item[My(x)].refs > 0 <=> owned[My(x)] > 0)
<1> USE Threads DEF Inv
<1>1. \A t \in Tex : IsFiniteSet(Users(t)) /\ Cardinality(Users(t)) \in Nat
  <2>1. \A t \in Tex : Users(t) \subseteq LoadW
    BY DEF Users
  <2> QED BY <2>1, TextureAssumption, FS_Subset, FS_CardinalityType
<1>2. ASSUME NEW w \in LoadW, th[w].at \in UserAt, Without(My(w), {"torn"})
      PROVE  item[My(w)].refs > 0
  <2>1. My(w) \in Tex
    BY <1>2, HasItem DEF UserAt
  <2>2. w \in Users(My(w))
    BY <1>2 DEF Users
  <2>3. Cardinality(Users(My(w))) > 0
    <3>1. Users(My(w)) # {} /\ IsFiniteSet(Users(My(w))) /\ Cardinality(Users(My(w))) \in Nat
      BY <1>1, <2>1, <2>2
    <3> QED BY <3>1, FS_EmptySet
  <2>4. item[My(w)].refs = Cardinality(Users(My(w))) + owned[My(w)] /\ owned[My(w)] \in Nat
    BY <1>2, <2>1 DEF CountIsRight, TypeOK
  <2> QED BY <1>1, <2>1, <2>3, <2>4
<1>3. ASSUME NEW x \in {Loader, Screen}, At(x, "leave"), Without(My(x), {"torn"})
      PROVE  item[My(x)].refs > 0 <=> owned[My(x)] > 0
  <2>1. My(x) \in Tex
    BY <1>3 DEF LoaderInv, ScreenInv, At, Tex
  <2>2. item[My(x)].refs = Cardinality(Users(My(x))) + owned[My(x)]
    BY <1>3, <2>1 DEF CountIsRight
  <2>3. My(x) \notin Owned => My(x) \notin Loadable
    <3>1. CASE x = Loader
      BY <1>3, <3>1, TextureAssumption DEF LoaderInv, Loadable, At, Mid
    <3>2. CASE x = Screen
      BY <1>3, <3>2, TextureAssumption DEF ScreenInv, Loadable, At, My
    <3> QED BY <3>1, <3>2
  <2>4. My(x) \notin Owned => Users(My(x)) = {}
    BY <2>3, HasItem DEF Users, UserAt
  <2>5. Cardinality({}) = 0
    BY FS_EmptySet
  <2>6. owned[My(x)] \in Nat /\ (My(x) \in Owned <=> owned[My(x)] > 0)
    BY <2>1 DEF Owned, TypeOK
  <2> QED BY <1>1, <2>1, <2>2, <2>4, <2>5, <2>6
<1> QED BY <1>2, <1>3

\* A thread tests or reads the count: it goes on, and remembers what it read.
LEMMA CountsDoes ==
    ASSUME Inv, NEW w \in Thread, Counts(w)
    PROVE  /\ \/ w \in LoadW /\ th[w].at \in {"begin", "leave", "lower"}
              \/ w = Loader /\ th[w].at \in {"begin", "leave", "lower", "again"}
              \/ w = Screen /\ th[w].at \in {"begin", "leave", "lower"}
           /\ My(w) \in Tex
           /\ th' \in [Thread -> Local] /\ \A u \in Thread \ {w} : th'[u] = th[u]
           /\ th'[w].tex = th[w].tex
           /\ \/ At(w, "leave") /\ th'[w].at = (IF item[My(w)].refs > 0 THEN "lower" ELSE "spared")
              \/ ~ At(w, "leave") /\ th'[w].at = AfterRead[th[w].at]
           /\ faults' \in [Tex -> SUBSET Fault] /\ \A u \in Tex : faults[u] \subseteq faults'[u]
           /\ \A u \in Tex : Without(u, {"torn"})' => Without(u, {"torn"})
           /\ UNCHANGED <<item, heap, made, queues, selected, spent, owned>>
<1> USE Threads DEF Inv
<1>1. \/ w \in LoadW /\ th[w].at \in {"begin", "leave", "lower"}
      \/ w = Loader /\ th[w].at \in {"begin", "leave", "lower", "again"}
      \/ w = Screen /\ th[w].at \in {"begin", "leave", "lower"}
  <2>1. th[w].at \in {"begin", "again", "leave", "lower"}
    BY DEF Counts, TestCount, ReadCount, AfterRead, At
  <2>2. CASE w \in LoadW
    BY <2>1, <2>2 DEF WorkerInv, UserAt
  <2>3. CASE w \in ReleaseW
    BY <2>1, <2>3 DEF WorkerInv
  <2>4. CASE w = Loader
    BY <2>1, <2>4 DEF LoaderInv, Mid
  <2>5. CASE w = Screen
    BY <2>1, <2>5 DEF ScreenInv
  <2> QED BY <2>2, <2>3, <2>4, <2>5 DEF Thread
<1>2. My(w) \in Tex /\ th \in [Thread -> Local] /\ faults \in [Tex -> SUBSET Fault]
  <2>1. CASE w \in LoadW
    BY <1>1, <2>1, HasItem DEF TypeOK
  <2>2. CASE w = Loader \/ w = Screen
    BY <1>1, <2>2 DEF LoaderInv, ScreenInv, TypeOK, Tex, At
  <2> QED BY <1>1, <2>1, <2>2
<1>3. CASE TestCount(w)
  <2> DEFINE pc == IF item[My(w)].refs > 0 THEN "lower" ELSE "spared"
  <2>1. pc \in Place /\ Goto(w, pc) /\ At(w, "leave")
    BY <1>3 DEF TestCount, Place
  <2>2. UNCHANGED <<item, heap, made, queues, selected, spent, owned, faults>>
    BY <1>3 DEF TestCount, KeepItems
  <2> HIDE DEF pc
  <2>3. /\ th' \in [Thread -> Local] /\ th'[w].at = pc /\ th'[w].tex = th[w].tex
        /\ \A u \in Thread \ {w} : th'[u] = th[u]
    BY <1>2, <2>1, GotoOne
  <2> QED BY <1>1, <1>2, <2>1, <2>2, <2>3 DEF pc, Without
<1>4. CASE ReadCount(w)
  <2> DEFINE r == [th[w] EXCEPT !.at = AfterRead[th[w].at], !.seen = item[My(w)].refs]
             kinds == IF w \in FileTexW /\ At(w, "begin") /\ item[My(w)].refs <= 0
                        THEN {"late"} ELSE {}
  <2>1. r \in Local /\ r.at = AfterRead[th[w].at] /\ r.tex = th[w].tex /\ ~ At(w, "leave")
    <3>1. th[w] \in Local /\ item[My(w)].refs \in Int
      BY <1>2 DEF TypeOK, ItemState
    <3>2. AfterRead[th[w].at] \in Place /\ ~ At(w, "leave")
      BY <1>1, <1>4 DEF ReadCount, AfterRead, Place, At
    <3> QED BY <3>1, <3>2 DEF Local, Place
  <2>2. th' = [th EXCEPT ![w] = r]
    BY <1>2, <1>4 DEF ReadCount, Local
  <2>3. Blame(My(w), kinds) /\ kinds \in SUBSET Fault
        /\ UNCHANGED <<item, heap, made, queues, selected, spent, owned>>
    BY <1>4 DEF ReadCount, Fault
  <2> HIDE DEF r, kinds
  <2>4. th' \in [Thread -> Local] /\ th'[w] = r /\ \A u \in Thread \ {w} : th'[u] = th[u]
    BY <1>2, <2>1, <2>2, GoesTo
  <2>5. faults' \in [Tex -> SUBSET Fault] /\ \A u \in Tex : faults[u] \subseteq faults'[u]
    <3>1. PICK t \in Tex : t = My(w)
      BY <1>2
    <3> QED BY <1>2, <2>3, <3>1, BlameOne
  <2>6. \A u \in Tex : Without(u, {"torn"})' => Without(u, {"torn"})
    BY <2>5 DEF Without
  <2> QED BY <1>1, <1>2, <2>1, <2>3, <2>4, <2>5, <2>6
<1> QED BY <1>3, <1>4 DEF Counts

LEMMA CountsInvariance ==
    ASSUME Inv, NEW w \in Thread, Counts(w)
    PROVE  Inv'
<1> USE Threads DEF Inv
<1>1. /\ \/ w \in LoadW /\ th[w].at \in {"begin", "leave", "lower"}
         \/ w = Loader /\ th[w].at \in {"begin", "leave", "lower", "again"}
         \/ w = Screen /\ th[w].at \in {"begin", "leave", "lower"}
      /\ My(w) \in Tex
  BY CountsDoes
<1>2. /\ th' \in [Thread -> Local] /\ \A u \in Thread \ {w} : th'[u] = th[u]
      /\ th'[w].tex = th[w].tex
      /\ \/ At(w, "leave") /\ th'[w].at = (IF item[My(w)].refs > 0 THEN "lower" ELSE "spared")
         \/ ~ At(w, "leave") /\ th'[w].at = AfterRead[th[w].at]
  BY CountsDoes
<1>3. th'[w].at = CASE th[w].at = "begin" -> "adding"
                    [] th[w].at = "again" -> "readding"
                    [] th[w].at = "lower" -> "dropping"
                    [] th[w].at = "leave" -> IF item[My(w)].refs > 0 THEN "lower" ELSE "spared"
  BY <1>1, <1>2 DEF AfterRead, At
<1>4. /\ faults' \in [Tex -> SUBSET Fault] /\ \A u \in Tex : faults[u] \subseteq faults'[u]
      /\ \A u \in Tex : Without(u, {"torn"})' => Without(u, {"torn"})
      /\ UNCHANGED <<item, heap, made, queues, selected, spent, owned>>
  BY CountsDoes
<1>5. TypeOK'
  BY <1>2, <1>4 DEF TypeOK, queues
<1>6. CountIsRight'
  <2>1. \A v \in LoadW : th'[v].tex = th[v].tex /\ (th'[v].at \in UserAt <=> th[v].at \in UserAt)
    BY <1>1, <1>2, <1>3 DEF UserAt
  <2> QED BY <1>4, <2>1, CountKept
<1>7. LoaderInv' /\ ScreenInv' /\ WorkerInv' /\ QueueInv'
  <2>1. Loadable' = Loadable
    BY <1>1, <1>2, <1>3, <1>4 DEF Loadable, Owned, My, Mid
  <2>2. CASE w \in LoadW
    <3>1. th'[w].at \in {"idle", "held", "begin", "adding"} \cup UserAt /\ th'[w].tex \in Loadable
      BY <1>1, <1>2, <1>3, <2>2, HasItem DEF UserAt, My
    <3>2. {fileQ', texQ', fileTexQ'} \subseteq Seq(Loadable) /\ hand' \in Loadable \cup {None}
      BY <1>4 DEF QueueInv, queues
    <3> QED BY <1>2, <1>4, <2>2, <3>1, <3>2, LoadWorkerMoves
  <2>3. CASE w = Loader
    <3>1. LoaderInv'
      BY <1>1, <1>2, <1>3, <2>3 DEF LoaderInv, At, My, Mid
    <3>2. ScreenInv'
      BY <1>2, <1>4, <2>3 DEF ScreenInv, Owned, At, My
    <3>3. WorkerInv'
      BY <1>2, <2>1, <2>3 DEF WorkerInv, At, My
    <3> QED BY <1>4, <2>1, <3>1, <3>2, <3>3 DEF QueueInv, queues
  <2>4. CASE w = Screen
    <3>1. LoaderInv'
      BY <1>2, <1>4, <2>4 DEF LoaderInv, At, My
    <3>2. ScreenInv'
      BY <1>1, <1>2, <1>3, <1>4, <2>4 DEF ScreenInv, Owned, At, My
    <3>3. WorkerInv'
      BY <1>2, <2>1, <2>4 DEF WorkerInv, At, My
    <3> QED BY <1>4, <2>1, <3>1, <3>2, <3>3 DEF QueueInv, queues
  <2> QED BY <1>1, <2>2, <2>3, <2>4
<1>8. SeenInv'
  <2>1. ASSUME NEW v \in LoadW, th'[v].at = "spared", faults'[th'[v].tex] \cap {"torn"} = {}
        PROVE  FALSE
    <3>1. My(v) \in Tex /\ th'[v].tex = My(v) /\ th[v].at \in UserAt
      BY <1>1, <1>2, <1>3, <2>1, HasItem DEF My, UserAt
    <3>2. faults[My(v)] \cap {"torn"} = {}
      BY <1>4, <2>1, <3>1
    <3>3. CASE v = w
      <4>1. item[My(w)].refs > 0
        BY <3>1, <3>2, <3>3, CountRead DEF Without
      <4> QED BY <1>1, <1>3, <2>1, <3>3, <4>1
    <3>4. CASE v # w
      BY <1>2, <2>1, <3>2, <3>4 DEF SeenInv, Without, At
    <3> QED BY <3>3, <3>4
  <2>2. ASSUME NEW x \in {Loader, Screen}, th'[x].at \in {"lower", "spared", "dropping"},
               faults'[th'[x].tex] \cap {"torn"} = {}
        PROVE  /\ th'[x].at \in {"lower", "dropping"} => owned'[th'[x].tex] > 0
               /\ th'[x].at = "spared" => owned'[th'[x].tex] = 0
    <3>1. My(x) \in Tex /\ th'[x].tex = My(x)
      <4>1. ~ At(x, "idle")
        BY <1>1, <1>2, <2>2 DEF At
      <4> QED BY <1>2, <4>1 DEF LoaderInv, ScreenInv, My, Tex
    <3>2. faults[My(x)] \cap {"torn"} = {} /\ owned'[My(x)] = owned[My(x)] /\ owned[My(x)] \in Nat
      BY <1>4, <2>2, <3>1 DEF TypeOK
    <3>3. CASE x = w
      <4>1. CASE th[w].at = "leave"
        <5>1. item[My(x)].refs > 0 <=> owned[My(x)] > 0
          BY <3>2, <3>3, <4>1, CountRead DEF Without, At
        <5>2. item[My(x)].refs > 0 => th'[x].at = "lower"
          BY <1>1, <1>3, <3>3, <4>1
        <5>3. ~ (item[My(x)].refs > 0) => th'[x].at = "spared"
          BY <1>1, <1>3, <3>3, <4>1
        <5> QED BY <3>1, <3>2, <5>1, <5>2, <5>3
      <4>2. CASE th[w].at = "lower"
        BY <1>3, <3>1, <3>2, <3>3, <4>2 DEF SeenInv, Without
      <4> QED BY <1>1, <1>3, <2>2, <3>3, <4>1, <4>2
    <3>4. CASE x # w
      BY <1>2, <2>2, <3>1, <3>2, <3>4 DEF SeenInv, Without, At
    <3> QED BY <3>3, <3>4
  <2> QED BY <2>1, <2>2 DEF SeenInv, At, My, Without
<1> QED BY <1>5, <1>6, <1>7, <1>8

-----------------------------------------------------------------------------
(* ReleaseAll, by a ReleaseWorker or by the loader.                        *)

LEMMA ReleaseAllDoes ==
    ASSUME Inv, NEW w \in ReleaseW \cup {Loader}, ReleaseAll(w)
    PROVE  /\ th[w].at \in {"brush", "texture", "file"}
           /\ th' \in [Thread -> Local] /\ \A u \in Thread \ {w} : th'[u] = th[u]
           /\ \/ th'[w].at \in {"texture", "file"} /\ th'[w].tex = th[w].tex
              \/ w = Loader /\ th'[w].at = "again" /\ th'[w].tex = th[w].tex
              \/ w # Loader /\ th'[w].at = "idle"
           /\ item' \in [Tex -> ItemState]
           /\ \A u \in Tex : item'[u].refs = item[u].refs
           /\ made' \in [Tex -> Nat] /\ heap' \in [Tex -> SUBSET Nat]
           /\ \A u \in Tex : heap'[u] \subseteq 1 .. made'[u]
           /\ faults' \in [Tex -> SUBSET Fault] /\ \A u \in Tex : faults[u] \subseteq faults'[u]
           /\ spent' \in Budget
           /\ UNCHANGED <<queues, selected, owned>>
<1> USE Threads DEF Inv
<1>1. th[w].at \in {"brush", "texture", "file"}
  BY DEF ReleaseAll, ReleaseAllBrush, ReleaseAllTexture, ReleaseAllFile, At
<1>2. My(w) \in Tex /\ w \in Thread
  <2>1. CASE w = Loader
    BY <1>1, <2>1 DEF LoaderInv, At, Tex
  <2>2. CASE w \in ReleaseW
    BY <1>1, <2>2, TextureAssumption DEF WorkerInv, At, Tex
  <2> QED BY <2>1, <2>2
<1>3. PICK t \in Tex : t = My(w)
  BY <1>2
<1>4. /\ th \in [Thread -> Local] /\ item \in [Tex -> ItemState] /\ item[t] \in ItemState
      /\ faults \in [Tex -> SUBSET Fault] /\ spent \in Budget
  BY DEF TypeOK
<1>5. ASSUME NEW it \in ItemState, Becomes(t, it), it.refs = item[t].refs
      PROVE  /\ item' \in [Tex -> ItemState]
             /\ \A u \in Tex : item'[u].refs = item[u].refs
  BY <1>2, <1>3, <1>5, StepKeeps
<1>6. CASE ReleaseAllBrush(w)
  <2>1. /\ Free(t, FreedBrush(item[t])) /\ Becomes(t, ReleaseBrush(item[t])) /\ Goto(w, "texture")
        /\ UNCHANGED <<queues, selected, spent, owned, faults>> /\ "texture" \in Place
    BY <1>3, <1>6 DEF ReleaseAllBrush, Place
  <2>2. /\ ReleaseBrush(item[t]) \in ItemState /\ ReleaseBrush(item[t]).refs = item[t].refs
    BY <1>4, Methods
  <2>3. /\ made' \in [Tex -> Nat] /\ heap' \in [Tex -> SUBSET Nat]
        /\ \A u \in Tex : heap'[u] \subseteq 1 .. made'[u]
    BY <2>1, FreeOne
  <2>4. /\ th' \in [Thread -> Local] /\ th'[w].at = "texture" /\ th'[w].tex = th[w].tex
        /\ \A u \in Thread \ {w} : th'[u] = th[u]
    BY <1>2, <1>4, <2>1, GotoOne
  <2> QED BY <1>1, <1>4, <1>5, <2>1, <2>2, <2>3, <2>4
<1>7. CASE ReleaseAllTexture(w)
  <2>1. /\ Free(t, FreedTexture(item[t])) /\ Becomes(t, ReleaseTexture(item[t])) /\ Goto(w, "file")
        /\ UNCHANGED <<queues, selected, spent, owned, faults>> /\ "file" \in Place
    BY <1>3, <1>7 DEF ReleaseAllTexture, Place
  <2>2. /\ ReleaseTexture(item[t]) \in ItemState /\ ReleaseTexture(item[t]).refs = item[t].refs
    BY <1>4, Methods
  <2>3. /\ made' \in [Tex -> Nat] /\ heap' \in [Tex -> SUBSET Nat]
        /\ \A u \in Tex : heap'[u] \subseteq 1 .. made'[u]
    BY <2>1, FreeOne
  <2>4. /\ th' \in [Thread -> Local] /\ th'[w].at = "file" /\ th'[w].tex = th[w].tex
        /\ \A u \in Thread \ {w} : th'[u] = th[u]
    BY <1>2, <1>4, <2>1, GotoOne
  <2> QED BY <1>1, <1>4, <1>5, <2>1, <2>2, <2>3, <2>4
<1>8. ASSUME NEW size \in {0, 1}, ReleaseAllFile(w, size)
      PROVE  /\ th' \in [Thread -> Local] /\ \A u \in Thread \ {w} : th'[u] = th[u]
             /\ \/ w = Loader /\ th'[w].at = "again" /\ th'[w].tex = th[w].tex
                \/ w # Loader /\ th'[w].at = "idle"
             /\ item' \in [Tex -> ItemState]
             /\ \A u \in Tex : item'[u].refs = item[u].refs
             /\ made' \in [Tex -> Nat] /\ heap' \in [Tex -> SUBSET Nat]
             /\ \A u \in Tex : heap'[u] \subseteq 1 .. made'[u]
             /\ faults' \in [Tex -> SUBSET Fault] /\ \A u \in Tex : faults[u] \subseteq faults'[u]
             /\ spent' \in Budget
             /\ UNCHANGED <<queues, selected, owned>>
  <2> DEFINE it == ReleaseFilePointer(item[t])
             new == [SetFilePointer(it, 1, size) EXCEPT !.brush = "loading"]
  <2>1. it \in ItemState /\ it.refs = item[t].refs
    BY <1>4, Methods
  <2>2. new \in ItemState /\ new.refs = item[t].refs
    <3> HIDE DEF it
    <3>1. /\ SetFilePointer(it, 1, size) \in ItemState
          /\ SetFilePointer(it, 1, size).refs = it.refs
      BY <1>8, <2>1, Methods, ZenonT(60)
    <3> QED BY <2>1, <3>1 DEF ItemState
  <2>3. (Becomes(t, new) /\ Blame(t, IF size = 0 THEN {"empty"} ELSE {}))
          \/ (Becomes(t, it) /\ UNCHANGED faults)
    BY <1>3, <1>8 DEF ReleaseAllFile
  <2>4. /\ item' \in [Tex -> ItemState]
        /\ \A u \in Tex : item'[u].refs = item[u].refs
    <3> HIDE DEF it, new
    <3> QED BY <1>5, <2>1, <2>2, <2>3
  <2>5. faults' \in [Tex -> SUBSET Fault] /\ \A u \in Tex : faults[u] \subseteq faults'[u]
    <3>1. (IF size = 0 THEN {"empty"} ELSE {}) \in SUBSET Fault
      BY DEF Fault
    <3>2. CASE Blame(t, IF size = 0 THEN {"empty"} ELSE {})
      BY <1>4, <3>1, <3>2, BlameOne
    <3>3. CASE UNCHANGED faults
      BY <1>4, <3>3
    <3> QED BY <2>3, <3>2, <3>3
  <2>6. spent' \in Budget
    BY <1>4, <1>8 DEF ReleaseAllFile, Sized, Fails, Spends
  <2>7. /\ made' \in [Tex -> Nat] /\ heap' \in [Tex -> SUBSET Nat]
        /\ \A u \in Tex : heap'[u] \subseteq 1 .. made'[u]
    <3>1. Free(t, FreedFile(t))
      BY <1>3, <1>8 DEF ReleaseAllFile
    <3> QED BY <3>1, FreeOne
  <2>8. /\ th' \in [Thread -> Local] /\ \A u \in Thread \ {w} : th'[u] = th[u]
        /\ \/ w = Loader /\ th'[w].at = "again" /\ th'[w].tex = th[w].tex
           \/ w # Loader /\ th'[w].at = "idle"
    <3>1. CASE w = Loader
      <4>1. Goto(w, "again") /\ "again" \in Place
        BY <1>8, <3>1 DEF ReleaseAllFile, Place
      <4> QED BY <1>2, <1>4, <3>1, <4>1, GotoOne
    <3>2. CASE w # Loader
      <4>1. Done(w)
        BY <1>8, <3>2 DEF ReleaseAllFile
      <4> QED BY <1>2, <1>4, <3>2, <4>1, DoneOne
    <3> QED BY <3>1, <3>2
  <2>9. UNCHANGED <<queues, selected, owned>>
    BY <1>8 DEF ReleaseAllFile
  <2> QED BY <2>4, <2>5, <2>6, <2>7, <2>8, <2>9
<1> QED BY <1>1, <1>6, <1>7, <1>8 DEF ReleaseAll

LEMMA ReleaseAllInvariance ==
    ASSUME Inv, NEW w \in ReleaseW \cup {Loader}, ReleaseAll(w)
    PROVE  Inv'
<1> USE Threads DEF Inv
<1>1. /\ th[w].at \in {"brush", "texture", "file"}
      /\ th' \in [Thread -> Local] /\ \A u \in Thread \ {w} : th'[u] = th[u]
      /\ \/ th'[w].at \in {"texture", "file"} /\ th'[w].tex = th[w].tex
         \/ w = Loader /\ th'[w].at = "again" /\ th'[w].tex = th[w].tex
         \/ w # Loader /\ th'[w].at = "idle"
  BY ReleaseAllDoes
<1>2. /\ item' \in [Tex -> ItemState]
      /\ \A u \in Tex : item'[u].refs = item[u].refs
      /\ \A u \in Tex : faults[u] \subseteq faults'[u]
      /\ UNCHANGED <<queues, selected, owned>>
  BY ReleaseAllDoes
<1>3. TypeOK'
  <2>1. /\ made' \in [Tex -> Nat] /\ heap' \in [Tex -> SUBSET Nat]
        /\ \A u \in Tex : heap'[u] \subseteq 1 .. made'[u]
        /\ faults' \in [Tex -> SUBSET Fault] /\ spent' \in Budget
    BY ReleaseAllDoes
  <2> QED BY <1>1, <1>2, <2>1 DEF TypeOK, queues
<1>4. LoaderInv' /\ ScreenInv' /\ WorkerInv' /\ QueueInv'
  <2>1. CASE w \in ReleaseW
    <3>1. My(w) \in Shot
      BY <1>1, <2>1 DEF WorkerInv, At
    <3>2. /\ th'[w].at \in {"idle", "held", "brush", "texture", "file"}
          /\ th'[w].at # "idle" => th'[w].tex \in Shot
      BY <1>1, <2>1, <3>1 DEF My
    <3>3. UNCHANGED <<selected, owned, fileQ, texQ, fileTexQ, hand>>
      BY <1>2 DEF queues
    <3> QED BY <1>1, <1>2, <2>1, <3>2, <3>3, ReleaseWorkerMoves
  <2>2. CASE w = Loader
    <3>1. th[w].at \in Mid /\ th'[w].at \in Mid /\ th'[w].at # "idle" /\ th[w].at # "idle"
          /\ th'[w].tex = th[w].tex
      BY <1>1, <2>2 DEF Mid
    <3>2. Loadable' = Loadable
      BY <1>2, <2>2, <3>1 DEF Loadable, Owned, My
    <3>3. LoaderInv'
      BY <2>2, <3>1 DEF LoaderInv, At, My
    <3>4. ScreenInv'
      BY <1>1, <1>2, <2>2 DEF ScreenInv, Owned, At, My
    <3>5. WorkerInv'
      BY <1>1, <2>2, <3>2 DEF WorkerInv, At, My
    <3> QED BY <1>2, <3>2, <3>3, <3>4, <3>5 DEF QueueInv, queues
  <2> QED BY <2>1, <2>2
<1>5. CountIsRight'
  BY <1>1, <1>2, CountKept
<1>6. SeenInv'
  <2>1. \A v \in LoadW : th'[v].at = "spared" => th'[v] = th[v]
    BY <1>1
  <2>2. \A x \in {Loader, Screen} : th'[x].at \in {"lower", "spared", "dropping"} => th'[x] = th[x]
    BY <1>1
  <2> QED BY <1>2, <2>1, <2>2, SeenKept
<1> QED BY <1>3, <1>4, <1>5, <1>6

LEMMA WorkerInvariance ==
    ASSUME Inv, NEW w \in LoadW \cup ReleaseW, WorkerStep(w)
    PROVE  Inv'
<1> USE Threads
<1>1. CASE w \in LoadW
  <2>1. ~ ReleaseAll(w)
    <3>1. th[w].at \notin {"brush", "texture", "file"}
      BY <1>1 DEF Inv, WorkerInv, UserAt
    <3> QED BY <3>1 DEF ReleaseAll, ReleaseAllBrush, ReleaseAllTexture, ReleaseAllFile, At
  <2> QED BY <1>1, <2>1, StartInvariance, CountsInvariance, AddRefInvariance,
             ReleaseInvariance, MiddleInvariance DEF WorkerStep, Work
<1>2. CASE w \in ReleaseW
  <2>1. ~ Work(w)
    <3>1. th[w].at \in {"idle", "held", "brush", "texture", "file"}
      BY <1>2 DEF Inv, WorkerInv
    <3> QED BY <3>1 DEF Work, AddRef, Release, FreeData, Load, LoadFails, Make, MakeFails,
               MakeNothing, Attach, AttachFails, Leaves, At
  <2> QED BY <1>2, <2>1, StartInvariance, CountsInvariance, ReleaseAllInvariance
          DEF WorkerStep
<1> QED BY <1>1, <1>2

-----------------------------------------------------------------------------
(* The loader and the screen.                                              *)

\* What may be loaded grows: the workers and the queues are as they were.
LEMMA LoadableGrows ==
    ASSUME WorkerInv, QueueInv, Loadable \subseteq Loadable',
           \A w \in LoadW \cup ReleaseW : th'[w] = th[w]
    PROVE  /\ WorkerInv'
           /\ fileQ \in Seq(Loadable') /\ texQ \in Seq(Loadable') /\ fileTexQ \in Seq(Loadable')
           /\ hand \in Loadable' \cup {None}
<1>1. WorkerInv'
  BY DEF WorkerInv, At, My
<1>2. \A q \in Seq(Loadable) : q \in Seq(Loadable')
  BY ElementOfSeq
<1> QED BY <1>1, <1>2 DEF QueueInv

\* A reference of the list's or of the selection's is taken or given back.
LEMMA OwnedCounts ==
    ASSUME TypeOK, CountIsRight, NEW t \in Tex, owned' \in [Tex -> Nat],
           \A w \in LoadW : th'[w] = th[w],
           \A u \in Tex \ {t} : item'[u].refs = item[u].refs /\ owned'[u] = owned[u],
           \A u \in Tex : faults[u] \subseteq faults'[u],
           Without(t, {"torn"})' => item'[t].refs = item[t].refs - owned[t] + owned'[t]
    PROVE  CountIsRight'
<1> SUFFICES ASSUME NEW u \in Tex, Without(u, {"torn"})'
             PROVE  item'[u].refs = Cardinality(Users(u)') + owned'[u]
  BY DEF CountIsRight
<1>1. Without(u, {"torn"})
  BY DEF Without
<1>2. IsFiniteSet(Users(u)) /\ Cardinality(Users(u)) \in Nat
  <2>1. Users(u) \subseteq LoadW
    BY DEF Users
  <2> QED BY <2>1, TextureAssumption, FS_Subset, FS_CardinalityType
<1>3. item[u].refs = Cardinality(Users(u)) + owned[u] /\ owned[u] \in Nat /\ owned'[u] \in Nat
  BY <1>1 DEF CountIsRight, TypeOK
<1>4. Users(u)' = Users(u)
  BY DEF Users, My
<1>5. CASE u # t
  BY <1>3, <1>4, <1>5
<1>6. CASE u = t
  BY <1>2, <1>3, <1>4, <1>6
<1> QED BY <1>5, <1>6

\* What taking and giving back one does to the references.
LEMMA OwnsOne ==
    ASSUME TypeOK, NEW t \in Tex
    PROVE  /\ Owns(t) => /\ owned' \in [Tex -> Nat] /\ owned'[t] = owned[t] + 1
                         /\ \A u \in Tex \ {t} : owned'[u] = owned[u]
                         /\ Owned' = Owned \cup {t}
           /\ Disowns(t) => /\ owned' \in [Tex -> Nat]
                            /\ owned'[t] = IF owned[t] > 0 THEN owned[t] - 1 ELSE 0
                            /\ \A u \in Tex \ {t} : owned'[u] = owned[u]
                            /\ Owned \ {t} \subseteq Owned' /\ Owned' \subseteq Owned
<1>1. owned \in [Tex -> Nat] /\ owned[t] \in Nat
  BY DEF TypeOK
<1>2. ASSUME Owns(t)
      PROVE  /\ owned' \in [Tex -> Nat] /\ owned'[t] = owned[t] + 1
             /\ \A u \in Tex \ {t} : owned'[u] = owned[u]
  BY <1>1, <1>2 DEF Owns
<1>3. ASSUME Disowns(t)
      PROVE  /\ owned' \in [Tex -> Nat] /\ owned'[t] = IF owned[t] > 0 THEN owned[t] - 1 ELSE 0
             /\ \A u \in Tex \ {t} : owned'[u] = owned[u]
  BY <1>1, <1>3 DEF Disowns
<1>4. ASSUME Owns(t) PROVE Owned' = Owned \cup {t}
  BY <1>1, <1>2, <1>4 DEF Owned
<1>5. ASSUME Disowns(t) PROVE Owned \ {t} \subseteq Owned' /\ Owned' \subseteq Owned
  BY <1>1, <1>3, <1>5 DEF Owned
<1> QED BY <1>2, <1>3, <1>4, <1>5

\* The loader's AddRef, and the queues.
LEMMA LoaderQueues ==
    ASSUME Inv, QueueAsset \/ QueueRefreshed
    PROVE  Inv'
<1> USE Threads DEF Inv
<1>1. PICK t \in Art \cup Icon : t = My(Loader)
  BY DEF QueueAsset, QueueRefreshed, LoaderInv, At
<1>2. /\ th[Loader].at \in {"adding", "readding"} /\ t \in Tex
      /\ Becomes(t, Added(Loader)) /\ Blame(t, Torn(Loader)) /\ Owns(t)
      /\ Done(Loader) /\ UNCHANGED <<heap, made, relQ, loaderQ, hand, selected, spent>>
      /\ fileQ' = fileQ \/ (t \in Art /\ fileQ' = Append(fileQ, t))
      /\ texQ' = texQ \/ texQ' = Append(texQ, t)
      /\ fileTexQ' = fileTexQ \/ (t \in Art /\ fileTexQ' = Append(fileTexQ, t))
  BY <1>1 DEF QueueAsset, QueueRefreshed, At, Tex
<1>o. /\ owned' \in [Tex -> Nat] /\ owned'[t] = owned[t] + 1
      /\ \A u \in Tex \ {t} : owned'[u] = owned[u]
      /\ Owned' = Owned \cup {t}
  BY <1>2, OwnsOne
<1>3. /\ th \in [Thread -> Local] /\ item \in [Tex -> ItemState] /\ item[t] \in ItemState
      /\ faults \in [Tex -> SUBSET Fault]
  BY <1>2 DEF TypeOK
<1>4. /\ Added(Loader) \in ItemState
      /\ Torn(Loader) = {} => Added(Loader).refs = item[t].refs + 1
      /\ Torn(Loader) \subseteq {"torn"} /\ Torn(Loader) \in SUBSET Fault
  BY <1>1, <1>2, CountWrites
<1>5. item' \in [Tex -> ItemState] /\ item'[t] = Added(Loader) /\ \A u \in Tex \ {t} : item'[u] = item[u]
  BY <1>2, <1>3, <1>4, BecomesOne
<1>6. /\ th' \in [Thread -> Local] /\ th'[Loader].at = "idle"
      /\ \A u \in Thread \ {Loader} : th'[u] = th[u]
  BY <1>2, <1>3, DoneOne
<1>7. /\ faults' \in [Tex -> SUBSET Fault] /\ \A u \in Tex : faults[u] \subseteq faults'[u]
      /\ faults'[t] = faults[t] \cup Torn(Loader)
  BY <1>2, <1>3, <1>4, BlameOne
<1>8. TypeOK'
  <2>1. fileQ' \in Seq(Art) /\ texQ' \in Seq(Art \cup Icon) /\ fileTexQ' \in Seq(Art \cup Shot)
    <3>1. fileQ \in Seq(Art) /\ texQ \in Seq(Art \cup Icon) /\ fileTexQ \in Seq(Art \cup Shot)
      BY DEF TypeOK
    <3>2. \A q \in Seq(Art) : t \in Art => Append(q, t) \in Seq(Art)
      BY AppendProperties
    <3>3. \A q \in Seq(Art \cup Icon) : Append(q, t) \in Seq(Art \cup Icon)
      BY AppendProperties
    <3>4. \A q \in Seq(Art \cup Shot) : t \in Art => Append(q, t) \in Seq(Art \cup Shot)
      BY AppendProperties
    <3> QED BY <1>2, <3>1, <3>2, <3>3, <3>4
  <2> QED BY <1>2, <1>o, <1>5, <1>6, <1>7, <2>1 DEF TypeOK
<1>9. Loadable \subseteq Loadable' /\ t \in Loadable'
  BY <1>1, <1>2, <1>o, <1>6 DEF Loadable, My
<1>10. WorkerInv' /\ QueueInv'
  <2>1. /\ WorkerInv' /\ hand \in Loadable' \cup {None}
        /\ fileQ \in Seq(Loadable') /\ texQ \in Seq(Loadable') /\ fileTexQ \in Seq(Loadable')
    BY <1>6, <1>9, LoadableGrows
  <2>2. fileQ' \in Seq(Loadable') /\ texQ' \in Seq(Loadable') /\ fileTexQ' \in Seq(Loadable')
    <3>1. \A q \in Seq(Loadable') : Append(q, t) \in Seq(Loadable')
      BY <1>9, AppendProperties
    <3> QED BY <1>2, <2>1, <3>1
  <2> QED BY <1>2, <2>1, <2>2 DEF QueueInv
<1>11. LoaderInv'
  BY <1>6 DEF LoaderInv, At
<1>12. ScreenInv'
  <2>1. t \notin Shot /\ Owned' \cap Shot = Owned \cap Shot /\ Owned' \cap Bare = Owned \cap Bare
    BY <1>o, TextureAssumption
  <2>2. th'[Screen] = th[Screen] /\ selected' = selected /\ Owned \subseteq Owned'
    BY <1>2, <1>o, <1>6
  <2>3. \A s \in Shot : owned'[s] = owned[s]
    BY <1>o, <2>1 DEF Tex
  <2> QED BY <2>1, <2>2, <2>3 DEF ScreenInv, At, My
<1>13. CountIsRight'
  <2>1. ASSUME Without(t, {"torn"})' PROVE item'[t].refs = item[t].refs - owned[t] + owned'[t]
    <3>1. Torn(Loader) = {}
      BY <1>4, <1>7, <2>1 DEF Without
    <3>2. owned[t] \in Nat
      BY <1>2 DEF TypeOK
    <3> QED BY <1>3, <1>4, <1>5, <1>o, <3>1, <3>2 DEF ItemState
  <2> QED BY <1>2, <1>o, <1>5, <1>6, <1>7, <2>1, OwnedCounts
<1>14. SeenInv'
  <2>1. \A x \in {Loader, Screen} : th'[x].at \in {"lower", "spared", "dropping"} =>
            th'[x] = th[x] /\ owned'[My(x)] = owned[My(x)]
    <3>1. th[Screen].at \in {"lower", "spared", "dropping"} => My(Screen) # t /\ My(Screen) \in Tex
      BY <1>1, TextureAssumption DEF ScreenInv, At, Tex
    <3> QED BY <1>o, <1>6, <3>1 DEF At
  <2> QED BY <1>6, <1>7, <2>1, SeenKept
<1> QED BY <1>8, <1>10, <1>11, <1>12, <1>13, <1>14

\* The loader's Release, when it refreshes.
LEMMA LoaderDrops ==
    ASSUME Inv, DropRefreshed
    PROVE  Inv'
<1> USE Threads DEF Inv
<1>1. PICK t \in Art \cup Icon : t = My(Loader)
  BY DEF DropRefreshed, Leaves, LoaderInv, At
<1>2. /\ th[Loader].at \in {"dropping", "spared"} /\ t \in Tex
      /\ Becomes(t, Dropped(Loader)) /\ Blame(t, TornByDrop(Loader)) /\ Disowns(t)
      /\ Goto(Loader, "brush") /\ "brush" \in Place
      /\ UNCHANGED <<heap, made, queues, selected, spent>>
  BY <1>1 DEF DropRefreshed, Leaves, At, Tex, Place
<1>o. /\ owned' \in [Tex -> Nat] /\ owned'[t] = (IF owned[t] > 0 THEN owned[t] - 1 ELSE 0)
      /\ \A u \in Tex \ {t} : owned'[u] = owned[u]
      /\ Owned \ {t} \subseteq Owned' /\ Owned' \subseteq Owned
  BY <1>2, OwnsOne
<1>3. /\ th \in [Thread -> Local] /\ item \in [Tex -> ItemState] /\ item[t] \in ItemState
      /\ faults \in [Tex -> SUBSET Fault]
  BY <1>2 DEF TypeOK
<1>4. /\ Dropped(Loader) \in ItemState
      /\ At(Loader, "dropping") /\ TornByDrop(Loader) = {} => Dropped(Loader).refs = item[t].refs - 1
      /\ At(Loader, "spared") => Dropped(Loader).refs = item[t].refs
      /\ TornByDrop(Loader) \subseteq {"torn"} /\ TornByDrop(Loader) \in SUBSET Fault
  BY <1>1, <1>2, CountWrites
<1>5. item' \in [Tex -> ItemState] /\ item'[t] = Dropped(Loader) /\ \A u \in Tex \ {t} : item'[u] = item[u]
  BY <1>2, <1>3, <1>4, BecomesOne
<1>6. /\ th' \in [Thread -> Local] /\ th'[Loader].at = "brush" /\ th'[Loader].tex = t
      /\ \A u \in Thread \ {Loader} : th'[u] = th[u]
  BY <1>1, <1>2, <1>3, GotoOne DEF My
<1>7. /\ faults' \in [Tex -> SUBSET Fault] /\ \A u \in Tex : faults[u] \subseteq faults'[u]
      /\ faults'[t] = faults[t] \cup TornByDrop(Loader)
  BY <1>2, <1>3, <1>4, BlameOne
<1>8. TypeOK'
  BY <1>2, <1>o, <1>5, <1>6, <1>7 DEF TypeOK, queues
<1>9. Loadable \subseteq Loadable'
  BY <1>1, <1>2, <1>o, <1>6 DEF Loadable, My, Mid
<1>10. WorkerInv' /\ QueueInv'
  BY <1>2, <1>6, <1>9, LoadableGrows DEF queues, QueueInv
<1>11. LoaderInv'
  BY <1>1, <1>6 DEF LoaderInv, At, Mid, My
<1>12. ScreenInv'
  <2>1. t \notin Shot /\ Owned' \cap Shot = Owned \cap Shot /\ Owned' \subseteq Owned
    BY <1>o, TextureAssumption
  <2>2. th'[Screen] = th[Screen] /\ selected' = selected
    BY <1>2, <1>6
  <2>3. \A s \in Shot : (s \in Owned => s \in Owned') /\ owned'[s] = owned[s]
    BY <1>o, <2>1 DEF Tex
  <2>4. selected \in Shot \cup {None}
    BY DEF TypeOK
  <2> QED BY <2>1, <2>2, <2>3, <2>4 DEF ScreenInv, At, My
<1>13. CountIsRight'
  <2>1. ASSUME Without(t, {"torn"})'
        PROVE  item'[t].refs = item[t].refs - owned[t] + owned'[t]
    <3>1. TornByDrop(Loader) = {} /\ Without(t, {"torn"}) /\ owned[t] \in Nat
      BY <1>2, <1>4, <1>7, <2>1 DEF Without, TypeOK
    <3>2. /\ th[Loader].at = "dropping" => owned[t] > 0
          /\ th[Loader].at = "spared" => owned[t] = 0
      BY <1>1, <1>2, <3>1 DEF SeenInv, At
    <3>3. item'[t].refs \in Int /\ item[t].refs \in Int /\ owned'[t] \in Nat
      BY <1>2, <1>3, <1>4, <1>5, <1>o DEF ItemState
    <3>4. CASE th[Loader].at = "dropping"
      <4>1. item'[t].refs = item[t].refs - 1
        BY <1>4, <1>5, <3>1, <3>4 DEF At
      <4> QED BY <1>o, <3>1, <3>2, <3>3, <3>4, <4>1
    <3>5. CASE th[Loader].at = "spared"
      <4>1. item'[t].refs = item[t].refs
        BY <1>4, <1>5, <3>5 DEF At
      <4> QED BY <1>o, <3>1, <3>2, <3>3, <3>5, <4>1
    <3> QED BY <1>2, <3>4, <3>5
  <2> QED BY <1>2, <1>o, <1>5, <1>6, <1>7, <2>1, OwnedCounts
<1>14. SeenInv'
  <2>1. \A x \in {Loader, Screen} : th'[x].at \in {"lower", "spared", "dropping"} =>
            th'[x] = th[x] /\ owned'[My(x)] = owned[My(x)]
    <3>1. th[Screen].at \in {"lower", "spared", "dropping"} => My(Screen) # t /\ My(Screen) \in Tex
      BY <1>1, TextureAssumption DEF ScreenInv, At, Tex
    <3> QED BY <1>o, <1>6, <3>1 DEF At
  <2>2. \A v \in LoadW : th'[v] = th[v]
    BY <1>6
  <2> QED BY <1>7, <2>1, <2>2, SeenKept
<1> QED BY <1>8, <1>10, <1>11, <1>12, <1>13, <1>14

LEMMA LoaderInvariance ==
    ASSUME Inv, LoaderStep
    PROVE  Inv'
BY Threads, LoaderQueues, LoaderDrops, ReleaseAllInvariance, CountsInvariance DEF LoaderStep

\* The screen's AddRef, and FileTexQueue.
LEMMA ScreenQueues ==
    ASSUME Inv, QueueShot
    PROVE  Inv'
<1> USE Threads DEF Inv
<1>1. /\ th[Screen].at = "adding" /\ selected \in Shot \ Bare
      /\ My(Screen) = selected /\ Owned \cap Shot = {}
  BY DEF QueueShot, ScreenInv, At
<1>2. PICK t \in Shot \ Bare : t = selected
  BY <1>1
<1>3. /\ My(Screen) = t /\ t \notin Owned /\ t \in Tex
      /\ Becomes(t, Added(Screen)) /\ Blame(t, Torn(Screen)) /\ Owns(t)
      /\ Done(Screen) /\ fileTexQ' = Append(fileTexQ, t)
      /\ UNCHANGED <<heap, made, fileQ, texQ, relQ, loaderQ, hand, selected, spent>>
  BY <1>1, <1>2 DEF QueueShot, Tex
<1>o. /\ owned' \in [Tex -> Nat] /\ owned'[t] = owned[t] + 1 /\ owned[t] = 0
      /\ \A u \in Tex \ {t} : owned'[u] = owned[u]
      /\ Owned' = Owned \cup {t}
  <2>1. owned[t] \in Nat
    BY <1>3 DEF TypeOK
  <2> QED BY <1>3, <2>1, OwnsOne DEF Owned
<1>4. /\ th \in [Thread -> Local] /\ item \in [Tex -> ItemState] /\ item[t] \in ItemState
      /\ faults \in [Tex -> SUBSET Fault]
  BY <1>3 DEF TypeOK
<1>5. /\ Added(Screen) \in ItemState
      /\ Torn(Screen) = {} => Added(Screen).refs = item[t].refs + 1
      /\ Torn(Screen) \subseteq {"torn"} /\ Torn(Screen) \in SUBSET Fault
  BY <1>3, CountWrites
<1>6. item' \in [Tex -> ItemState] /\ item'[t] = Added(Screen) /\ \A u \in Tex \ {t} : item'[u] = item[u]
  BY <1>3, <1>4, <1>5, BecomesOne
<1>7. /\ th' \in [Thread -> Local] /\ th'[Screen].at = "idle"
      /\ \A u \in Thread \ {Screen} : th'[u] = th[u]
  BY <1>3, <1>4, DoneOne
<1>8. /\ faults' \in [Tex -> SUBSET Fault] /\ \A u \in Tex : faults[u] \subseteq faults'[u]
      /\ faults'[t] = faults[t] \cup Torn(Screen)
  BY <1>3, <1>4, <1>5, BlameOne
<1>9. TypeOK'
  <2>1. fileTexQ' \in Seq(Art \cup Shot)
    BY <1>3, AppendProperties DEF TypeOK
  <2> QED BY <1>3, <1>o, <1>6, <1>7, <1>8, <2>1 DEF TypeOK
<1>10. Loadable \subseteq Loadable' /\ t \in Loadable'
  BY <1>3, <1>o, <1>7 DEF Loadable, My
<1>11. WorkerInv' /\ QueueInv'
  <2>1. /\ WorkerInv' /\ hand \in Loadable' \cup {None}
        /\ fileQ \in Seq(Loadable') /\ texQ \in Seq(Loadable') /\ fileTexQ \in Seq(Loadable')
    BY <1>7, <1>10, LoadableGrows
  <2>2. fileTexQ' \in Seq(Loadable')
    BY <1>3, <1>10, <2>1, AppendProperties
  <2> QED BY <1>3, <2>1, <2>2 DEF QueueInv
<1>12. LoaderInv'
  BY <1>7 DEF LoaderInv, At, My
<1>13. ScreenInv'
  <2>1. \A s \in Shot : owned'[s] <= 1
    BY <1>o DEF ScreenInv, Tex
  <2> QED BY <1>1, <1>2, <1>3, <1>o, <1>7, <2>1 DEF ScreenInv, At
<1>14. CountIsRight'
  <2>1. ASSUME Without(t, {"torn"})' PROVE item'[t].refs = item[t].refs - owned[t] + owned'[t]
    <3>1. Torn(Screen) = {}
      BY <1>5, <1>8, <2>1 DEF Without
    <3> QED BY <1>4, <1>5, <1>6, <1>o, <3>1 DEF ItemState
  <2> QED BY <1>3, <1>o, <1>6, <1>7, <1>8, <2>1, OwnedCounts
<1>15. SeenInv'
  <2>1. th[Loader].at \in {"lower", "spared", "dropping"} => My(Loader) # t /\ My(Loader) \in Tex
    BY <1>2, TextureAssumption DEF LoaderInv, At, Tex
  <2>2. \A x \in {Loader, Screen} : th'[x].at \in {"lower", "spared", "dropping"} =>
            th'[x] = th[x] /\ owned'[My(x)] = owned[My(x)]
    BY <1>o, <1>7, <2>1 DEF At
  <2> QED BY <1>7, <1>8, <2>2, SeenKept
<1> QED BY <1>9, <1>11, <1>12, <1>13, <1>14, <1>15

\* The screen's Release, and ReleaseQueue.
LEMMA ScreenDrops ==
    ASSUME Inv, Leave
    PROVE  Inv'
<1> USE Threads DEF Inv
<1>1. PICK t \in Shot : t = My(Screen)
  BY DEF Leave, Leaves, ScreenInv, At
<1>2. /\ th[Screen].at \in {"dropping", "spared"} /\ t \in Tex /\ selected \in Shot
      /\ Owned \cap Shot \subseteq {t} /\ Owned \cap Bare = {} /\ owned[t] <= 1
      /\ Becomes(t, Dropped(Screen)) /\ Blame(t, TornByDrop(Screen)) /\ Disowns(t)
      /\ Goto(Screen, "show") /\ "show" \in Place /\ relQ' = Append(relQ, t)
      /\ UNCHANGED <<heap, made, fileQ, texQ, fileTexQ, loaderQ, hand, selected, spent>>
  BY <1>1 DEF Leave, Leaves, At, Tex, Place, ScreenInv
<1>o. /\ owned' \in [Tex -> Nat] /\ owned'[t] = (IF owned[t] > 0 THEN owned[t] - 1 ELSE 0)
      /\ \A u \in Tex \ {t} : owned'[u] = owned[u]
      /\ Owned \ {t} \subseteq Owned' /\ Owned' \subseteq Owned /\ t \notin Owned'
  <2>1. owned[t] \in Nat
    BY <1>2 DEF TypeOK
  <2> QED BY <1>2, <2>1, OwnsOne DEF Owned
<1>3. /\ th \in [Thread -> Local] /\ item \in [Tex -> ItemState] /\ item[t] \in ItemState
      /\ faults \in [Tex -> SUBSET Fault]
  BY <1>2 DEF TypeOK
<1>4. /\ Dropped(Screen) \in ItemState
      /\ At(Screen, "dropping") /\ TornByDrop(Screen) = {} => Dropped(Screen).refs = item[t].refs - 1
      /\ At(Screen, "spared") => Dropped(Screen).refs = item[t].refs
      /\ TornByDrop(Screen) \subseteq {"torn"} /\ TornByDrop(Screen) \in SUBSET Fault
  BY <1>1, <1>2, CountWrites
<1>5. item' \in [Tex -> ItemState] /\ item'[t] = Dropped(Screen) /\ \A u \in Tex \ {t} : item'[u] = item[u]
  BY <1>2, <1>3, <1>4, BecomesOne
<1>6. /\ th' \in [Thread -> Local] /\ th'[Screen].at = "show" /\ th'[Screen].tex = t
      /\ \A u \in Thread \ {Screen} : th'[u] = th[u]
  BY <1>1, <1>2, <1>3, GotoOne DEF My
<1>7. /\ faults' \in [Tex -> SUBSET Fault] /\ \A u \in Tex : faults[u] \subseteq faults'[u]
      /\ faults'[t] = faults[t] \cup TornByDrop(Screen)
  BY <1>2, <1>3, <1>4, BlameOne
<1>8. TypeOK'
  <2>1. relQ' \in Seq(Shot)
    BY <1>2, AppendProperties DEF TypeOK
  <2> QED BY <1>2, <1>o, <1>5, <1>6, <1>7, <2>1 DEF TypeOK
<1>9. Loadable \subseteq Loadable'
  <2>1. t \in Owned => t \in Shot \ Bare
    BY <1>2
  <2> QED BY <1>1, <1>2, <1>o, <1>6, <2>1 DEF Loadable, My
<1>10. WorkerInv' /\ QueueInv'
  BY <1>2, <1>6, <1>9, LoadableGrows DEF QueueInv
<1>11. LoaderInv'
  BY <1>6 DEF LoaderInv, At, My
<1>12. ScreenInv'
  <2>1. \A s \in Shot : owned'[s] <= 1
    <3>1. owned[t] \in Nat /\ owned'[t] <= 1
      BY <1>2, <1>o DEF TypeOK
    <3> QED BY <1>o, <3>1 DEF ScreenInv, Tex
  <2>2. Owned' \cap Shot = {} /\ Owned' \cap Bare = {}
    BY <1>2, <1>o, TextureAssumption
  <2> QED BY <1>1, <1>2, <1>6, <2>1, <2>2 DEF ScreenInv, At, My
<1>13. CountIsRight'
  <2>1. ASSUME Without(t, {"torn"})'
        PROVE  item'[t].refs = item[t].refs - owned[t] + owned'[t]
    <3>1. TornByDrop(Screen) = {} /\ Without(t, {"torn"}) /\ owned[t] \in Nat
      BY <1>2, <1>4, <1>7, <2>1 DEF Without, TypeOK
    <3>2. /\ th[Screen].at = "dropping" => owned[t] > 0
          /\ th[Screen].at = "spared" => owned[t] = 0
      BY <1>1, <1>2, <3>1 DEF SeenInv, At
    <3>3. item'[t].refs \in Int /\ item[t].refs \in Int /\ owned'[t] \in Nat
      BY <1>2, <1>3, <1>4, <1>5, <1>o DEF ItemState
    <3>4. CASE th[Screen].at = "dropping"
      <4>1. item'[t].refs = item[t].refs - 1
        BY <1>4, <1>5, <3>1, <3>4 DEF At
      <4> QED BY <1>o, <3>1, <3>2, <3>3, <3>4, <4>1
    <3>5. CASE th[Screen].at = "spared"
      <4>1. item'[t].refs = item[t].refs
        BY <1>4, <1>5, <3>5 DEF At
      <4> QED BY <1>o, <3>1, <3>2, <3>3, <3>5, <4>1
    <3> QED BY <1>2, <3>4, <3>5
  <2> QED BY <1>2, <1>o, <1>5, <1>6, <1>7, <2>1, OwnedCounts
<1>14. SeenInv'
  <2>1. th[Loader].at \in {"lower", "spared", "dropping"} => My(Loader) # t /\ My(Loader) \in Tex
    BY <1>1, TextureAssumption DEF LoaderInv, At, Tex
  <2>2. \A x \in {Loader, Screen} : th'[x].at \in {"lower", "spared", "dropping"} =>
            th'[x] = th[x] /\ owned'[My(x)] = owned[My(x)]
    BY <1>o, <1>6, <2>1 DEF At
  <2>3. \A v \in LoadW : th'[v] = th[v]
    BY <1>6
  <2> QED BY <1>7, <2>2, <2>3, SeenKept
<1> QED BY <1>8, <1>10, <1>11, <1>12, <1>13, <1>14

\* The screen asks for a shot, when no shot has a reference of its.
LEMMA ShowDoes ==
    ASSUME TypeOK, NEW s \in Shot, Show(s)
    PROVE  /\ item' \in [Tex -> ItemState]
           /\ \A u \in Tex : item'[u].refs = item[u].refs
           /\ \A u \in Art \cup Icon : item'[u] = item[u]
           /\ faults' \in [Tex -> SUBSET Fault] /\ \A u \in Tex : faults[u] \subseteq faults'[u]
           /\ th' \in [Thread -> Local] /\ \A u \in Thread \ {Screen} : th'[u] = th[u]
           /\ \/ s \in Bare /\ th'[Screen].at = "idle"
              \/ s \notin Bare /\ th'[Screen].at = "begin" /\ th'[Screen].tex = s
<1> USE Threads
<1>1. /\ s \in Tex /\ s \notin Art \cup Icon /\ item \in [Tex -> ItemState] /\ item[s] \in ItemState
      /\ th \in [Thread -> Local] /\ faults \in [Tex -> SUBSET Fault] /\ Art \cup Icon \subseteq Tex
  BY TextureAssumption DEF TypeOK, Tex
<1>2. CASE s \in Bare
  <2>1. Done(Screen) /\ UNCHANGED <<item, faults>>
    BY <1>2 DEF Show
  <2> QED BY <1>1, <1>2, <2>1, DoneOne
<1>3. CASE s \notin Bare
  <2>1. /\ Becomes(s, SetTextureInfo(item[s])) /\ Blame(s, Overlap(s)) /\ Turns(Screen, s, "begin")
        /\ Overlap(s) \in SUBSET Fault /\ "begin" \in Place
    BY <1>3 DEF Show, Overlap, Fault, Place
  <2>2. SetTextureInfo(item[s]) \in ItemState /\ SetTextureInfo(item[s]).refs = item[s].refs
    BY <1>1, Methods
  <2>3. /\ item' \in [Tex -> ItemState] /\ item'[s] = SetTextureInfo(item[s])
        /\ \A u \in Tex \ {s} : item'[u] = item[u]
    BY <1>1, <2>1, <2>2, BecomesOne
  <2>4. faults' \in [Tex -> SUBSET Fault] /\ \A u \in Tex : faults[u] \subseteq faults'[u]
    BY <1>1, <2>1, BlameOne
  <2>5. /\ th' \in [Thread -> Local] /\ th'[Screen].at = "begin" /\ th'[Screen].tex = s
        /\ \A u \in Thread \ {Screen} : th'[u] = th[u]
    BY <1>1, <2>1, TurnsOne
  <2> QED BY <1>1, <1>3, <2>2, <2>3, <2>4, <2>5
<1> QED BY <1>2, <1>3

\* A step of the screen that leaves the queues, the counts and the references.
LEMMA ScreenMoves ==
    ASSUME Inv, \A u \in Thread \ {Screen} : th'[u] = th[u],
           th'[Screen].at \notin {"lower", "spared", "dropping"},
           \A u \in Tex : item'[u].refs = item[u].refs,
           \A u \in Art \cup Icon : item'[u] = item[u],
           \A u \in Tex : faults[u] \subseteq faults'[u],
           UNCHANGED <<queues, owned>>
    PROVE  LoaderInv' /\ WorkerInv' /\ QueueInv' /\ SeenInv' /\ CountIsRight'
<1> USE Threads DEF Inv
<1>1. th'[Loader] = th[Loader] /\ \A w \in LoadW \cup ReleaseW : th'[w] = th[w]
  OBVIOUS
<1>2. Loadable' = Loadable
  BY <1>1 DEF Loadable, Owned, My
<1>3. WorkerInv' /\ QueueInv'
  BY <1>1, <1>2 DEF WorkerInv, QueueInv, queues, At, My
<1>4. LoaderInv'
  BY <1>1 DEF LoaderInv, At, My
<1>5. CountIsRight'
  BY <1>1, CountKept
<1>6. SeenInv'
  BY <1>1, SeenKept
<1> QED BY <1>3, <1>4, <1>5, <1>6

LEMMA ShowNextInvariance ==
    ASSUME Inv, ShowNext
    PROVE  Inv'
<1> USE DEF Inv
<1>1. /\ th[Screen].at = "show" /\ selected \in Shot /\ Owned \cap Shot = {}
      /\ Show(selected) /\ UNCHANGED <<heap, made, queues, selected, spent, owned>>
  BY DEF ShowNext, ScreenInv, At
<1>2. PICK s \in Shot : s = selected
  BY <1>1
<1>3. /\ item' \in [Tex -> ItemState]
      /\ \A u \in Tex : item'[u].refs = item[u].refs
      /\ \A u \in Art \cup Icon : item'[u] = item[u]
      /\ faults' \in [Tex -> SUBSET Fault] /\ \A u \in Tex : faults[u] \subseteq faults'[u]
      /\ th' \in [Thread -> Local] /\ \A u \in Thread \ {Screen} : th'[u] = th[u]
      /\ \/ s \in Bare /\ th'[Screen].at = "idle"
         \/ s \notin Bare /\ th'[Screen].at = "begin" /\ th'[Screen].tex = s
  BY <1>1, <1>2, ShowDoes
<1>4. TypeOK'
  BY <1>1, <1>3 DEF TypeOK, queues
<1>5. LoaderInv' /\ WorkerInv' /\ QueueInv' /\ SeenInv' /\ CountIsRight'
  BY <1>1, <1>3, ScreenMoves
<1>6. ScreenInv'
  BY <1>1, <1>2, <1>3 DEF ScreenInv, Owned, At, My
<1> QED BY <1>4, <1>5, <1>6

LEMMA SelectInvariance ==
    ASSUME Inv, NEW s \in Shot, Select(s)
    PROVE  Inv'
<1> USE Threads DEF Inv
<1>1. /\ Owned \cap Shot \subseteq {selected} /\ Owned \cap Bare = {} /\ Owned \subseteq Tex
      /\ selected \in Owned \cup Bare \cup {None} /\ selected \in Shot \cup {None}
      /\ selected' = s /\ UNCHANGED <<heap, made, queues, owned>>
      /\ spent' \in Budget
  BY DEF Select, Spends, ScreenInv, TypeOK, Owned
<1>2. CASE selected = None
  <2>1. Show(s)
    BY <1>2 DEF Select
  <2>2. /\ item' \in [Tex -> ItemState]
        /\ \A u \in Tex : item'[u].refs = item[u].refs
        /\ \A u \in Art \cup Icon : item'[u] = item[u]
        /\ faults' \in [Tex -> SUBSET Fault] /\ \A u \in Tex : faults[u] \subseteq faults'[u]
        /\ th' \in [Thread -> Local] /\ \A u \in Thread \ {Screen} : th'[u] = th[u]
        /\ \/ s \in Bare /\ th'[Screen].at = "idle"
           \/ s \notin Bare /\ th'[Screen].at = "begin" /\ th'[Screen].tex = s
    BY <2>1, ShowDoes
  <2>3. TypeOK'
    BY <1>1, <2>2 DEF TypeOK, queues
  <2>4. LoaderInv' /\ WorkerInv' /\ QueueInv' /\ SeenInv' /\ CountIsRight'
    BY <1>1, <2>2, ScreenMoves
  <2>5. ScreenInv'
    <3>1. Owned \cap Shot = {}
      BY <1>1, <1>2, TextureAssumption
    <3> QED BY <1>1, <2>2, <3>1 DEF ScreenInv, Owned, At, My
  <2> QED BY <2>3, <2>4, <2>5
<1>3. CASE selected # None
  <2>1. PICK t \in Shot : t = selected
    BY <1>1, <1>3
  <2>2. Turns(Screen, t, "leave") /\ "leave" \in Place /\ t \in Tex /\ UNCHANGED <<item, faults>>
    BY <1>3, <2>1 DEF Select, Place, Tex
  <2>3. /\ th' \in [Thread -> Local] /\ th'[Screen].at = "leave" /\ th'[Screen].tex = t
        /\ \A u \in Thread \ {Screen} : th'[u] = th[u]
    BY <2>2, TurnsOne DEF TypeOK
  <2>4. TypeOK'
    BY <1>1, <2>2, <2>3 DEF TypeOK, queues
  <2>5. LoaderInv' /\ WorkerInv' /\ QueueInv' /\ SeenInv' /\ CountIsRight'
    BY <1>1, <2>2, <2>3, ScreenMoves
  <2>6. ScreenInv'
    <3>1. t \in Owned \cup Bare /\ Owned \cap Shot \subseteq {t}
      BY <1>1, <1>3, <2>1
    <3> QED BY <1>1, <2>3, <3>1 DEF ScreenInv, Owned, At, My
  <2> QED BY <2>4, <2>5, <2>6
<1> QED BY <1>2, <1>3

LEMMA ScreenInvariance ==
    ASSUME Inv, ScreenStep
    PROVE  Inv'
BY Threads, ScreenQueues, ScreenDrops, ShowNextInvariance, CountsInvariance DEF ScreenStep

\* A step of the loader that leaves the queues, the counts and the references.
LEMMA LoaderMoves ==
    ASSUME Inv, At(Loader, "idle"), NEW t \in Art \cup Icon, NEW it \in ItemState,
           Becomes(t, it), it.refs = item[t].refs,
           NEW kinds \in SUBSET Fault, Blame(t, kinds) \/ (kinds = {} /\ UNCHANGED faults),
           \/ UNCHANGED th
           \/ Turns(Loader, t, "leave")
           \/ Turns(Loader, t, "begin"),
           spent' \in Budget, loaderQ' \subseteq loaderQ,
           UNCHANGED <<heap, made, fileQ, texQ, fileTexQ, relQ, hand, selected, owned>>
    PROVE  Inv'
<1> USE Threads DEF Inv
<1>1. /\ t \in Tex /\ item \in [Tex -> ItemState] /\ th \in [Thread -> Local]
      /\ faults \in [Tex -> SUBSET Fault] /\ {"leave", "begin"} \subseteq Place
      /\ Art \cup Icon \subseteq Tex
  BY DEF TypeOK, Tex, Place
<1>2. item' \in [Tex -> ItemState] /\ item'[t] = it /\ \A u \in Tex \ {t} : item'[u] = item[u]
  BY <1>1, BecomesOne
<1>3. faults' \in [Tex -> SUBSET Fault] /\ \A u \in Tex : faults[u] \subseteq faults'[u]
  <2>1. CASE Blame(t, kinds)
    BY <1>1, <2>1, BlameOne
  <2>2. CASE UNCHANGED faults
    BY <1>1, <2>2
  <2> QED BY <2>1, <2>2
<1>4. /\ th' \in [Thread -> Local] /\ \A u \in Thread \ {Loader} : th'[u] = th[u]
      /\ \/ th'[Loader].at = "idle"
         \/ th'[Loader].at = "leave" /\ th'[Loader].tex = t
         \/ th'[Loader].at = "begin" /\ th'[Loader].tex = t
  <2>1. CASE UNCHANGED th
    BY <1>1, <2>1 DEF At
  <2>2. CASE Turns(Loader, t, "leave")
    BY <1>1, <2>2, TurnsOne
  <2>3. CASE Turns(Loader, t, "begin")
    BY <1>1, <2>3, TurnsOne
  <2> QED BY <2>1, <2>2, <2>3
<1>5. TypeOK'
  BY <1>2, <1>3, <1>4 DEF TypeOK
<1>6. Loadable' = Loadable
  BY <1>4 DEF Loadable, Owned, My, At, Mid
<1>7. WorkerInv' /\ QueueInv'
  BY <1>4, <1>6 DEF WorkerInv, QueueInv, At, My
<1>8. LoaderInv'
  BY <1>4 DEF LoaderInv, At, My
<1>9. ScreenInv'
  BY <1>4 DEF ScreenInv, Owned, At, My
<1>10. CountIsRight'
  BY <1>1, <1>2, <1>3, <1>4, CountKept
<1>11. SeenInv'
  <2>1. \A x \in {Loader, Screen} : th'[x].at \in {"lower", "spared", "dropping"} =>
            th'[x] = th[x] /\ owned'[My(x)] = owned[My(x)]
    BY <1>4
  <2>2. \A v \in LoadW : th'[v] = th[v]
    BY <1>4
  <2> QED BY <1>3, <2>1, <2>2, SeenKept
<1> QED BY <1>5, <1>7, <1>8, <1>9, <1>10, <1>11

LEMMA RequestInvariance ==
    ASSUME Inv, Request
    PROVE  Inv'
<1> USE DEF Inv
<1>1. ASSUME NEW t \in Art \cup Icon
      PROVE  item[t] \in ItemState /\ Info(t) \in ItemState /\ Info(t).refs = item[t].refs
  BY Methods DEF TypeOK, Tex, Info
<1>2. ASSUME NEW t \in Tex PROVE Overlap(t) \in SUBSET Fault
  BY DEF Overlap, Fault
<1>3. ASSUME NEW t \in Art \cup Icon, NoAsset(t) PROVE Inv'
  <2> DEFINE it == [item[t] EXCEPT !.tex = "error", !.brush = "error"]
  <2>1. it \in ItemState /\ it.refs = item[t].refs
    BY <1>1, <1>3 DEF ItemState
  <2>2. /\ Becomes(t, it) /\ At(Loader, "idle") /\ Blame(t, Overlap(t))
        /\ spent' \in Budget /\ loaderQ' \subseteq loaderQ
        /\ UNCHANGED <<heap, made, th, fileQ, texQ, fileTexQ, relQ, hand, selected, owned>>
    BY <1>3 DEF NoAsset, Spends
  <2>3. Overlap(t) \in SUBSET Fault
    BY <1>2 DEF Tex
  <2> HIDE DEF it
  <2> QED BY <1>3, <2>1, <2>2, <2>3, LoaderMoves
<1>4. ASSUME NEW t \in Art \cup Icon, Refresh(t) PROVE Inv'
  <2>1. /\ Becomes(t, Info(t)) /\ At(Loader, "idle")
        /\ Blame(t, Overlap(t)) /\ Turns(Loader, t, "leave")
        /\ spent' \in Budget /\ loaderQ' \subseteq loaderQ
        /\ UNCHANGED <<heap, made, fileQ, texQ, fileTexQ, relQ, hand, selected, owned>>
    BY <1>4 DEF Refresh, Spends, queues
  <2>2. Overlap(t) \in SUBSET Fault
    BY <1>2 DEF Tex
  <2> QED BY <1>1, <1>4, <2>1, <2>2, LoaderMoves
<1>5. ASSUME NEW t \in Art \cup Icon, NEW size \in {0, 1}, LoadAsset(t, size) PROVE Inv'
  <2> DEFINE it == IF t \in Icon THEN [SetFilePointer(Info(t), 1, size) EXCEPT !.brush = "loading"]
                                 ELSE Info(t)
             kinds == Overlap(t) \cup (IF item[t].tex # "inactive" THEN {"early"} ELSE {})
                                 \cup (IF size = 0 THEN {"empty"} ELSE {})
  <2>1. Info(t) \in ItemState /\ Info(t).refs = item[t].refs
    BY <1>1
  <2>2. it \in ItemState /\ it.refs = item[t].refs
    <3>1. /\ SetFilePointer(Info(t), 1, size) \in ItemState
          /\ SetFilePointer(Info(t), 1, size).refs = Info(t).refs
      BY <1>5, <2>1, Methods, ZenonT(60)
    <3> QED BY <2>1, <3>1 DEF ItemState
  <2>3. /\ Becomes(t, it) /\ Blame(t, kinds) /\ Turns(Loader, t, "begin") /\ At(Loader, "idle")
        /\ spent' \in Budget /\ loaderQ' \subseteq loaderQ
        /\ UNCHANGED <<heap, made, fileQ, texQ, fileTexQ, relQ, hand, selected, owned>>
    BY <1>5 DEF LoadAsset, Spends
  <2>4. kinds \in SUBSET Fault
    <3>1. Overlap(t) \in SUBSET Fault
      BY <1>2 DEF Tex
    <3> QED BY <3>1 DEF Fault
  <2> HIDE DEF it, kinds
  <2> QED BY <1>5, <2>2, <2>3, <2>4, LoaderMoves
<1> QED BY <1>3, <1>4, <1>5, SelectInvariance DEF Request

-----------------------------------------------------------------------------
(* The theorems.                                                           *)

LEMMA InitInvariant ==
    ASSUME Init
    PROVE  Inv
<1> USE Threads
<1>1. \A w \in Thread : th[w].at = "idle"
  BY DEF Init, Idle
<1>2. TypeOK
  <2>1. item \in [Tex -> ItemState]
    BY DEF Init, ItemState
  <2>2. made \in [Tex -> Nat] /\ heap \in [Tex -> SUBSET Nat]
        /\ \A t \in Tex : heap[t] \subseteq 1 .. made[t]
    BY DEF Init
  <2>3. th \in [Thread -> Local]
    BY DEF Init, Idle, Local
  <2>4. \A S : <<>> \in Seq(S)
    BY EmptySeq
  <2>5. faults \in [Tex -> SUBSET Fault]
    BY DEF Init
  <2> QED BY <2>1, <2>2, <2>3, <2>4, <2>5, TextureAssumption DEF Init, TypeOK
<1>o. (\A t \in Tex : owned[t] = 0) /\ Owned = {} /\ Shot \subseteq Tex
  BY DEF Init, Owned, Tex
<1>3. LoaderInv
  BY <1>1 DEF LoaderInv, At
<1>4. ScreenInv
  BY <1>1, <1>o DEF ScreenInv, Init, At
<1>5. WorkerInv
  BY <1>1 DEF WorkerInv, At
<1>6. QueueInv
  BY EmptySeq DEF QueueInv, Init
<1>7. SeenInv
  BY <1>1 DEF SeenInv, At
<1>8. CountIsRight
  <2>1. \A t \in Tex : Users(t) = {}
    BY <1>1 DEF Users, UserAt
  <2>2. \A t \in Tex : item[t].refs = 0
    BY DEF Init
  <2>3. Cardinality({}) = 0
    BY FS_EmptySet
  <2>4. \A t \in Tex : item[t].refs = Cardinality(Users(t)) + owned[t]
    BY <1>o, <2>1, <2>2, <2>3, 0 + 0 = 0
  <2> QED BY <2>4 DEF CountIsRight
<1> QED BY <1>2, <1>3, <1>4, <1>5, <1>6, <1>7, <1>8 DEF Inv

LEMMA StutterInvariance ==
    ASSUME Inv, UNCHANGED vars
    PROVE  Inv'
BY DEF vars, queues, Inv, TypeOK, LoaderInv, ScreenInv, WorkerInv, QueueInv, SeenInv, CountIsRight,
       Loadable, Owned, Users, Without, At, My

LEMMA Invariance == Spec => []Inv
<1>1. Init => Inv
  BY InitInvariant
<1>2. Inv /\ [Next]_vars => Inv'
  BY RequestInvariance, LoaderInvariance, ScreenInvariance, PopInvariance, DispatchInvariance,
     WorkerInvariance, StutterInvariance DEF Next
<1> QED BY <1>1, <1>2, PTL DEF Spec

\* The items, the threads and the queues keep their types: in particular each
\* queue holds only what its workers can load, and what exists was allocated.
THEOREM TypeCorrect == Spec => []TypeOK
<1>1. Inv => TypeOK
  BY DEF Inv
<1> QED BY <1>1, Invariance, PTL

\* m_dwReferenceCount is the number of the item's users, as long as no two
\* threads changed it at once (TextureItem.h:55-57 has no lock).
THEOREM CountCorrect == Spec => []CountIsRight
<1>1. Inv => CountIsRight
  BY DEF Inv
<1> QED BY <1>1, Invariance, PTL

=============================================================================
