-------------------------- MODULE TextureDataProofs --------------------------
(***************************************************************************)
(* Proofs about TexturePipeline, for any items, workers and bounds: what   *)
(* the workers and the screen use is allocated, nothing is forgotten, and  *)
(* what is shown stays.                                                    *)
(*                                                                         *)
(* All of it is about one item at a time, and rests on who may be at work  *)
(* on an item (Exclusive): as long as it was not asked for while it was    *)
(* busy, it is in each queue and with each queue's workers at most once;   *)
(* it is not with the workers of a first load and of a refresh at once;    *)
(* the loader, or the screen that asks for it, has it alone; and what has  *)
(* an owner is not being released.  Then each step of a load finds empty   *)
(* what it fills (Loads).  The count enters only where memory is freed: by *)
(* CountIsRight a release finds 0 exactly when nobody uses the item.       *)
(***************************************************************************)
EXTENDS TexturePipelineProofs

Leaving == {"leave", "lower", "spared", "dropping"}
USE DEF Leaving

None3(it) == it.ptr = 0 /\ it.t = 0 /\ it.b = 0
Waits(q, t) == \E i \in DOMAIN q : q[i] = t
Once(q, t) == \A i, j \in DOMAIN q : q[i] = t /\ q[j] = t => i = j
\* What its dispatcher has popped is the first of the FileTexQueue.
Ahead(h, q) == IF h = None THEN q ELSE <<h>> \o q
Handed == Ahead(hand, fileTexQ)
queued == <<fileQ, texQ, Handed, relQ>>

Holds(W, t, places) == \E w \in W : My(w) = t /\ th[w].at \in places

\* How far a load has come: before the file, the texture, the brush is there.
Reading == {"held", "begin", "adding", "loading"}
Making == Reading \cup {"making"}
Brushing == Making \cup {"brushing"}
Freed == {"brush", "texture", "file"}

\* What each kind of worker may have, and do.
KindInv ==
    /\ \A w \in Thread : At(w, "idle") <=> My(w) = None
    /\ \A w \in FileW : /\ My(w) \in Art \cup {None}
                        /\ th[w].at \in {"idle"} \cup Leaving \cup Reading
    /\ \A w \in TextureW : My(w) \in Art \cup Icon \cup {None} /\ ~ At(w, "loading")
    /\ \A w \in FileTexW : My(w) \in Art \cup (Shot \ Bare) \cup {None}

\* An item's handles are its own, and different.
Pointers(t) ==
    LET it == item[t] IN
    /\ {it.ptr, it.t, it.b} \subseteq heap[t] \cup {0}
    /\ it.ptr # 0 => it.ptr # it.t /\ it.ptr # it.b
    /\ it.t # 0 => it.t # it.b
    /\ t \in Icon => 1 \in heap[t] /\ it.ptr \in {0, 1} /\ it.t # 1 /\ it.b # 1
    /\ it.file = "loaded" => it.ptr # 0
    /\ it.tex = "loaded" => it.t # 0

-----------------------------------------------------------------------------
(* Who is at work on an item.                                              *)

Alone(q, W, t) ==
    /\ Once(q, t)
    /\ \A v, w \in W : My(v) = t /\ My(w) = t => v = w
    /\ Waits(q, t) => \A w \in W : My(w) # t

FirstLoad(t) == Waits(fileQ, t) \/ Waits(texQ, t) \/ \E w \in FileW \cup TextureW : My(w) = t
Reload(t) == Waits(Handed, t) \/ \E w \in FileTexW : My(w) = t
Freeing(t) == Waits(relQ, t) \/ \E w \in ReleaseW : My(w) = t
Asking(t) == My(Loader) = t \/ (My(Screen) = t /\ th[Screen].at \in {"begin", "adding"})

\* A FileWorker will read its file, or it is about to be given to one.
ToRead(t) ==
    \/ Waits(fileQ, t) \/ Holds(FileW, t, Reading)
    \/ t \in Art /\ My(Loader) = t /\ th[Loader].at \in {"begin", "adding"}

\* No brush has been made of what was asked for.
ToBrush(t) ==
    \/ Waits(fileQ, t) \/ Waits(texQ, t) \/ Waits(Handed, t) \/ Asking(t)
    \/ Holds(LoadW, t, Brushing)

Exclusive(t) ==
    /\ Alone(fileQ, FileW, t) /\ Alone(texQ, TextureW, t) /\ Alone(Handed, FileTexW, t)
    /\ ~ (FirstLoad(t) /\ Reload(t))
    /\ Asking(t) => ~ FirstLoad(t) /\ ~ Reload(t) /\ ~ Freeing(t)
    /\ t \in Owned => ~ Freeing(t)
    /\ ToRead(t) => item[t].file = "ready" /\ \A w \in TextureW : My(w) = t => At(w, "held")
    /\ ToBrush(t) => item[t].brush # "loaded"

-----------------------------------------------------------------------------
(* What each step of a load, and of a release, finds.                      *)

\* Nothing is left of what was loaded before: it may be loaded.
Readied(t) ==
    \/ My(Screen) = t /\ th[Screen].at \in {"begin", "adding"}
    \/ My(Loader) = t /\ th[Loader].at \in {"begin", "adding", "again", "readding"}

ToLoad(t) ==
    \/ ToRead(t) \/ Waits(Handed, t) \/ Holds(FileTexW, t, Reading)
    \/ Readied(t) /\ t \notin Icon

ToMake(t) ==
    \/ Waits(fileQ, t) \/ Waits(texQ, t) \/ Waits(Handed, t) \/ Readied(t)
    \/ Holds(LoadW, t, Making)

Loads(t) ==
    /\ "early" \notin faults[t] =>
          /\ ToLoad(t) => item[t].ptr = 0
          /\ ToMake(t) => item[t].t = 0 /\ item[t].b = 0
    /\ \A w \in LoadW : My(w) = t =>
          /\ At(w, "brushing") =>
                /\ item[t].tex = "loaded"
                /\ "early" \notin faults[t] => item[t].b = 0
          /\ At(w, "making") => item[t].file = "loaded" /\ th[w].data = item[t].ptr
          /\ w \in TextureW /\ th[w].at \in {"begin", "adding"} => item[t].file = "loaded"
          /\ w \in FileTexW /\ At(w, "adding") => th[w].seen > 0

Used(t) == Holds(LoadW, t, UserAt)

Releases(t) ==
    /\ \A w \in ReleaseW \cup {Loader} : My(w) = t =>
          /\ At(w, "texture") => item[t].b = 0 /\ item[t].brush # "loaded"
          /\ At(w, "file") => item[t].b = 0 /\ item[t].t = 0 /\ item[t].brush # "loaded"
    /\ t \notin Bare /\ Holds(ReleaseW, t, Freed) => ~ Used(t)
    /\ t \in Shot /\ t \notin Owned /\ ~ Freeing(t) => None3(item[t]) /\ ~ Used(t)
    /\ t \in Bare => None3(item[t]) /\ item[t].brush # "loaded"

Shown(t) == item[t].brush = "loaded" => item[t].b # 0 /\ item[t].t # 0

Kept(t) ==
    "brush" \notin faults[t] /\ "early" \notin faults[t] =>
        heap[t] \subseteq {item[t].ptr, item[t].t, item[t].b} \cup (IF t \in Icon THEN {1} ELSE {})

\* The list's items: one that was not asked for yet has nothing, and one that
\* was not updated before has at most one reference of the list's.
Listed(t) ==
    t \notin Shot =>
        /\ item[t].tex = "inactive" => owned[t] = 0 /\ My(Loader) # t /\ None3(item[t])
        /\ "early" \notin faults[t] =>
              /\ owned[t] <= 1
              /\ My(Loader) = t /\ th[Loader].at \in {"begin", "adding"} \cup Mid => owned[t] = 0

Calm(t) == Without(t, {"overlap", "torn", "late"})

Good(t) ==
    /\ Pointers(t)
    /\ Listed(t)
    /\ Without(t, {"overlap"}) => Exclusive(t)
    /\ Calm(t) => Loads(t) /\ Releases(t) /\ Shown(t) /\ Kept(t)

DataInv == KindInv /\ \A t \in Tex : Good(t)

\* What ShownStaysShown says of one item.
Stays(t) ==
    /\ t \in Owned /\ item[t].brush = "loaded"
    /\ Without(t, {"overlap"})
    /\ UNCHANGED <<th[Loader], th[Screen], loaderQ>>
    => item'[t] = item[t] \/ (item'[t].brush = "loaded" /\ item'[t].b = item[t].b)

-----------------------------------------------------------------------------
(* The queues.                                                             *)

\* What becomes of an item's places when the queue q becomes r.
Same(q, r, t) == (Waits(r, t) <=> Waits(q, t)) /\ (Once(q, t) => Once(r, t))
Loses(q, r, t) == Waits(q, t) /\ (Once(q, t) => ~ Waits(r, t) /\ Once(r, t))
Gains(q, r, t) == Waits(r, t) /\ (~ Waits(q, t) => Once(r, t))

\* An element leaves: the others keep their order.
LEMMA RemovedOne ==
    ASSUME NEW S, NEW q \in Seq(S), NEW i \in DOMAIN q, NEW r,
           DOMAIN r = 1 .. Len(q) - 1,
           \A j \in DOMAIN r : r[j] = IF j < i THEN q[j] ELSE q[j + 1]
    PROVE  Loses(q, r, q[i]) /\ \A t : t # q[i] => Same(q, r, t)
<1>1. Len(q) \in Nat /\ DOMAIN q = 1 .. Len(q) /\ i \in 1 .. Len(q)
  BY LenProperties
<1> DEFINE n == Len(q)
           Old(j) == IF j < i THEN j ELSE j + 1
<1> HIDE DEF n
<1>2. n \in Nat /\ DOMAIN q = 1 .. n /\ i \in 1 .. n /\ DOMAIN r = 1 .. n - 1
  BY <1>1 DEF n
<1>3. \A j \in 1 .. n - 1 : Old(j) \in 1 .. n /\ Old(j) # i /\ r[j] = q[Old(j)]
  BY <1>2
<1>4. \A j, k \in 1 .. n - 1 : Old(j) = Old(k) => j = k
  BY <1>2
<1>5. \A k \in 1 .. n : k # i => \E j \in 1 .. n - 1 : Old(j) = k
  <2> SUFFICES ASSUME NEW k \in 1 .. n, k # i PROVE \E j \in 1 .. n - 1 : Old(j) = k
    OBVIOUS
  <2>1. CASE k < i
    <3>1. k \in 1 .. n - 1 /\ Old(k) = k
      BY <1>2, <2>1
    <3> QED BY <3>1
  <2>2. CASE k > i
    <3>1. k - 1 \in 1 .. n - 1 /\ Old(k - 1) = k
      BY <1>2, <2>2
    <3> QED BY <3>1
  <2> QED BY <1>2, <2>1, <2>2
<1> HIDE DEF Old
<1>6. \A t : Once(q, t) => Once(r, t)
  BY <1>2, <1>3, <1>4 DEF Once
<1>7. \A t : Waits(r, t) => Waits(q, t)
  BY <1>2, <1>3 DEF Waits
<1>8. \A t : t # q[i] /\ Waits(q, t) => Waits(r, t)
  <2> SUFFICES ASSUME NEW t, t # q[i], NEW k \in DOMAIN q, q[k] = t
               PROVE  \E j \in DOMAIN r : r[j] = t
    BY DEF Waits
  <2>1. PICK j \in 1 .. n - 1 : Old(j) = k
    BY <1>2, <1>5
  <2>2. r[j] = q[k]
    BY <1>3, <2>1
  <2> QED BY <1>2, <2>2
<1>9. Waits(q, q[i]) /\ (Once(q, q[i]) => ~ Waits(r, q[i]))
  BY <1>2, <1>3 DEF Waits, Once
<1> QED BY <1>6, <1>7, <1>8, <1>9 DEF Loses, Same

LEMMA TailLoses ==
    ASSUME NEW S, NEW q \in Seq(S), q # <<>>
    PROVE  Loses(q, Tail(q), Head(q)) /\ \A t : t # Head(q) => Same(q, Tail(q), t)
<1>1. Len(q) \in Nat /\ DOMAIN q = 1 .. Len(q) /\ Len(q) > 0
  BY LenProperties, EmptySeq
<1>2. /\ Head(q) = q[1] /\ Tail(q) \in Seq(S) /\ Len(Tail(q)) = Len(q) - 1
      /\ \A j \in 1 .. Len(Tail(q)) : Tail(q)[j] = q[j + 1]
  BY HeadTailProperties
<1>3. DOMAIN Tail(q) = 1 .. Len(q) - 1
  BY <1>2, LenProperties
<1>4. 1 \in DOMAIN q /\ \A j \in DOMAIN Tail(q) : Tail(q)[j] = IF j < 1 THEN q[j] ELSE q[j + 1]
  BY <1>1, <1>2, <1>3
<1> QED BY <1>2, <1>3, <1>4, RemovedOne

LEMMA RemoveLoses ==
    ASSUME NEW S, NEW q \in Seq(S), NEW i \in DOMAIN q
    PROVE  Loses(q, RemoveAt(q, i), q[i]) /\ \A t : t # q[i] => Same(q, RemoveAt(q, i), t)
<1>1. Len(q) \in Nat /\ DOMAIN q = 1 .. Len(q) /\ i \in 1 .. Len(q)
      /\ \A j \in 1 .. Len(q) : q[j] \in S
  BY LenProperties, ElementOfSeq
<1> DEFINE n == Len(q)
           a == SubSeq(q, 1, i - 1)
           b == SubSeq(q, i + 1, n)
<1>2. /\ a \in Seq(S) /\ Len(a) = i - 1
      /\ \A j \in 1 .. i - 1 : a[j] = q[j]
  <2>1. 1 \in Int /\ i - 1 \in Int /\ \A j \in 1 .. i - 1 : q[j] \in S
    BY <1>1
  <2>2. /\ a \in Seq(S) /\ Len(a) = (IF 1 <= i - 1 THEN i - 1 - 1 + 1 ELSE 0)
        /\ \A j \in 1 .. i - 1 - 1 + 1 : a[j] = q[1 + j - 1]
    BY <2>1, SubSeqProperties
  <2> QED BY <1>1, <2>2
<1>3. /\ b \in Seq(S) /\ Len(b) = n - i
      /\ \A j \in 1 .. n - i : b[j] = q[i + j]
  <2>1. i + 1 \in Int /\ n \in Int /\ \A j \in i + 1 .. n : q[j] \in S
    BY <1>1
  <2>2. /\ b \in Seq(S) /\ Len(b) = (IF i + 1 <= n THEN n - (i + 1) + 1 ELSE 0)
        /\ \A j \in 1 .. n - (i + 1) + 1 : b[j] = q[i + 1 + j - 1]
    BY <2>1, SubSeqProperties
  <2>3. n \in Nat /\ i \in 1 .. n
    BY <1>1
  <2> HIDE DEF n, b
  <2>4. Len(b) = n - i
    BY <2>2, <2>3
  <2>5. ASSUME NEW j \in 1 .. n - i PROVE b[j] = q[i + j]
    <3>1. j \in 1 .. n - (i + 1) + 1 /\ i + 1 + j - 1 = i + j
      BY <2>3
    <3> QED BY <2>2, <3>1
  <2> QED BY <2>2, <2>4, <2>5
<1> HIDE DEF a, b
<1>4. /\ Len(a \o b) = Len(a) + Len(b) /\ a \o b \in Seq(S)
      /\ \A j \in 1 .. Len(a) + Len(b) : (a \o b)[j] = IF j <= Len(a) THEN a[j] ELSE b[j - Len(a)]
  BY <1>2, <1>3, ConcatProperties
<1>5. DOMAIN (a \o b) = 1 .. n - 1
  <2>1. DOMAIN (a \o b) = 1 .. Len(a \o b)
    BY <1>4, LenProperties
  <2>2. Len(a \o b) = n - 1
    BY <1>1, <1>2, <1>3, <1>4
  <2> QED BY <2>1, <2>2
<1>6. \A j \in 1 .. n - 1 : (a \o b)[j] = IF j < i THEN q[j] ELSE q[j + 1]
  <2> SUFFICES ASSUME NEW j \in 1 .. n - 1
               PROVE  (a \o b)[j] = IF j < i THEN q[j] ELSE q[j + 1]
    OBVIOUS
  <2>1. (a \o b)[j] = IF j <= i - 1 THEN a[j] ELSE b[j - (i - 1)]
    <3>1. Len(a) = i - 1 /\ j \in 1 .. Len(a) + Len(b)
      BY <1>1, <1>2, <1>3
    <3> QED BY <1>4, <3>1
  <2>2. CASE j < i
    BY <1>1, <1>2, <2>1, <2>2
  <2>3. CASE ~ (j < i)
    <3>1. j - (i - 1) \in 1 .. n - i /\ i + (j - (i - 1)) = j + 1
      BY <1>1, <2>3
    <3>2. b[j - (i - 1)] = q[i + (j - (i - 1))]
      BY <1>3, <3>1
    <3> QED BY <1>1, <2>1, <2>3, <3>1, <3>2
  <2> QED BY <2>2, <2>3
<1>7. RemoveAt(q, i) = a \o b
  BY DEF RemoveAt, a, b
<1> QED BY <1>5, <1>6, <1>7, RemovedOne

LEMMA AppendGains ==
    ASSUME NEW S, NEW q \in Seq(S), NEW x \in S
    PROVE  Gains(q, Append(q, x), x) /\ \A t : t # x => Same(q, Append(q, x), t)
<1>1. Len(q) \in Nat /\ DOMAIN q = 1 .. Len(q)
  BY LenProperties
<1>2. /\ Append(q, x) \in Seq(S) /\ Len(Append(q, x)) = Len(q) + 1
      /\ \A j \in 1 .. Len(q) : Append(q, x)[j] = q[j]
      /\ Append(q, x)[Len(q) + 1] = x
  BY AppendProperties
<1>3. DOMAIN Append(q, x) = 1 .. Len(q) + 1
  BY <1>2, LenProperties
<1> DEFINE n == Len(q)
           r == Append(q, x)
<1> HIDE DEF n, r
<1>4. /\ n \in Nat /\ DOMAIN q = 1 .. n /\ DOMAIN r = 1 .. n + 1
      /\ (\A j \in 1 .. n : r[j] = q[j]) /\ r[n + 1] = x
  BY <1>1, <1>2, <1>3 DEF n, r
<1>5. Waits(r, x)
  BY <1>4 DEF Waits
<1>6. ~ Waits(q, x) => Once(r, x)
  BY <1>4 DEF Waits, Once
<1>7. \A t : t # x => (Waits(r, t) <=> Waits(q, t)) /\ (Once(q, t) => Once(r, t))
  BY <1>4 DEF Waits, Once
<1> QED BY <1>5, <1>6, <1>7 DEF Gains, Same, r

\* What waits in r is what h holds, and what waits in q.
Joins(h, q, r, t) ==
    /\ Waits(r, t) => h = t \/ Waits(q, t)
    /\ h = t \/ Waits(q, t) => Waits(r, t)
    /\ Once(r, t) => Once(q, t) /\ ~ (h = t /\ Waits(q, t))
    /\ Once(q, t) /\ ~ (h = t /\ Waits(q, t)) => Once(r, t)

\* What the dispatcher holds waits first.
LEMMA AheadHas ==
    ASSUME NEW S, NEW q \in Seq(S), NEW h \in S \cup {None}, NEW t, t # None
    PROVE  Joins(h, q, Ahead(h, q), t)
<1>1. CASE h = None
  BY <1>1 DEF Ahead, Joins
<1>2. CASE h # None
  <2> DEFINE r == Ahead(h, q)
             n == Len(q)
  <2>1. h \in S /\ n \in Nat /\ DOMAIN q = 1 .. n
    BY <1>2, LenProperties
  <2>2. /\ <<h>> \in Seq(S) /\ Len(<<h>>) = 1 /\ <<h>>[1] = h
    BY <2>1
  <2>3. /\ r \in Seq(S) /\ Len(r) = 1 + n
        /\ \A j \in 1 .. 1 + n : r[j] = IF j <= 1 THEN <<h>>[j] ELSE q[j - 1]
    BY <1>2, <2>2, ConcatProperties DEF Ahead
  <2>4. DOMAIN r = 1 .. n + 1
    BY <2>1, <2>3, LenProperties
  <2> HIDE DEF r, n
  <2>5. r[1] = h /\ \A j \in 1 .. n : r[j + 1] = q[j]
    BY <2>1, <2>2, <2>3
  <2>6. \A k \in 1 .. n + 1 : k = 1 \/ \E j \in 1 .. n : k = j + 1
    <3> SUFFICES ASSUME NEW k \in 1 .. n + 1, k # 1 PROVE \E j \in 1 .. n : k = j + 1
      OBVIOUS
    <3>1. k - 1 \in 1 .. n /\ k = (k - 1) + 1
      BY <2>1
    <3> QED BY <3>1
  <2>7. /\ Waits(r, t) => h = t \/ Waits(q, t)
        /\ h = t \/ Waits(q, t) => Waits(r, t)
    <3>1. Waits(r, t) => h = t \/ Waits(q, t)
      <4> SUFFICES ASSUME NEW k \in 1 .. n + 1, r[k] = t PROVE h = t \/ \E j \in 1 .. n : q[j] = t
        BY <2>1, <2>4 DEF Waits
      <4>1. CASE k = 1
        BY <2>5, <4>1
      <4>2. CASE k # 1
        <5>1. PICK j \in 1 .. n : k = j + 1
          BY <2>6, <4>2
        <5> QED BY <2>5, <5>1
      <4> QED BY <4>1, <4>2
    <3>2. h = t => Waits(r, t)
      BY <2>1, <2>4, <2>5 DEF Waits
    <3>3. ASSUME NEW j \in 1 .. n, q[j] = t PROVE Waits(r, t)
      <4>1. j + 1 \in DOMAIN r /\ r[j + 1] = t
        BY <2>1, <2>4, <2>5, <3>3
      <4> QED BY <4>1 DEF Waits
    <3> QED BY <2>1, <3>1, <3>2, <3>3 DEF Waits
  <2>8. ASSUME Once(r, t) PROVE Once(q, t) /\ ~ (h = t /\ Waits(q, t))
    <3>1. ASSUME NEW i \in 1 .. n, NEW j \in 1 .. n, q[i] = t, q[j] = t PROVE i = j
      <4>1. i + 1 \in DOMAIN r /\ j + 1 \in DOMAIN r /\ r[i + 1] = t /\ r[j + 1] = t
        BY <2>1, <2>4, <2>5, <3>1
      <4>2. i + 1 = j + 1
        BY <2>8, <4>1 DEF Once
      <4> QED BY <2>1, <4>2
    <3>2. ASSUME h = t, NEW j \in 1 .. n, q[j] = t PROVE FALSE
      <4>1. 1 \in DOMAIN r /\ j + 1 \in DOMAIN r /\ r[1] = t /\ r[j + 1] = t
        BY <2>1, <2>4, <2>5, <3>2
      <4>2. 1 = j + 1
        BY <2>8, <4>1 DEF Once
      <4> QED BY <2>1, <4>2
    <3> QED BY <2>1, <3>1, <3>2 DEF Once, Waits
  <2>9. ASSUME Once(q, t), ~ (h = t /\ Waits(q, t)) PROVE Once(r, t)
    <3> SUFFICES ASSUME NEW i \in DOMAIN r, NEW j \in DOMAIN r, r[i] = t, r[j] = t PROVE i = j
      BY DEF Once
    <3>1. ASSUME NEW k \in DOMAIN r, r[k] = t, k # 1
          PROVE  h # t /\ \E m \in DOMAIN q : k = m + 1 /\ q[m] = t
      <4>1. PICK m \in 1 .. n : k = m + 1
        BY <2>4, <2>6, <3>1
      <4>2. q[m] = t
        BY <2>5, <3>1, <4>1
      <4> QED BY <2>1, <2>9, <4>1, <4>2 DEF Waits
    <3>2. CASE i = 1 \/ j = 1
      BY <2>5, <3>1, <3>2
    <3>3. CASE i # 1 /\ j # 1
      BY <2>9, <3>1, <3>3 DEF Once
    <3> QED BY <3>2, <3>3
  <2>10. Joins(h, q, r, t)
    BY <2>7, <2>8, <2>9 DEF Joins
  <2> QED BY <2>10 DEF r
<1> QED BY <1>1, <1>2

LEMMA HandedKept == UNCHANGED <<fileTexQ, hand>> => Handed' = Handed
BY DEF Handed

LEMMA QueuesKept == UNCHANGED queues => UNCHANGED queued
BY HandedKept DEF queues, queued

\* What is queued to the FileTexQueue waits in it.
LEMMA HandedGains ==
    ASSUME NEW S, fileTexQ \in Seq(S), hand \in S \cup {None}, None \notin S, NEW t \in S,
           fileTexQ' = Append(fileTexQ, t), hand' = hand
    PROVE  Gains(Handed, Handed', t) /\ \A u \in S : u # t => Same(Handed, Handed', u)
<1>1. fileTexQ' \in Seq(S)
  BY AppendProperties
<1>2. Gains(fileTexQ, fileTexQ', t) /\ \A u : u # t => Same(fileTexQ, fileTexQ', u)
  BY AppendGains
<1>3. \A u \in S : Joins(hand, fileTexQ, Handed, u)
  BY AheadHas DEF Handed
<1>4. \A u \in S : Joins(hand, fileTexQ', Handed', u)
  BY <1>1, AheadHas DEF Handed
<1>5. Gains(Handed, Handed', t)
  BY <1>2, <1>3, <1>4 DEF Gains, Joins
<1>6. ASSUME NEW u \in S, u # t PROVE Same(Handed, Handed', u)
  <2>1. Same(fileTexQ, fileTexQ', u)
    BY <1>2, <1>6
  <2> QED BY <1>3, <1>4, <1>6, <2>1 DEF Same, Joins
<1> QED BY <1>5, <1>6

LEMMA HandedType ==
    ASSUME TypeOK
    PROVE  fileTexQ \in Seq(Tex) /\ hand \in Tex \cup {None}
BY ElementOfSeq DEF TypeOK, Tex

\* A worker takes what the dispatcher holds.
LEMMA HandedLoses ==
    ASSUME TypeOK, NEW t \in Tex, hand = t, hand' = None, fileTexQ' = fileTexQ
    PROVE  Loses(Handed, Handed', t) /\ \A u \in Tex \ {t} : Same(Handed, Handed', u)
<1>1. \A u \in Tex : Joins(t, fileTexQ, Handed, u)
  BY HandedType, AheadHas, TextureAssumption DEF Handed
<1>2. Handed' = fileTexQ
  BY DEF Handed, Ahead
<1>3. Loses(Handed, fileTexQ, t)
  BY <1>1 DEF Loses, Joins
<1>4. ASSUME NEW u \in Tex \ {t} PROVE Same(Handed, fileTexQ, u)
  BY <1>1 DEF Same, Joins
<1> QED BY <1>2, <1>3, <1>4

\* The dispatcher pops: what it holds still waits, what it passes over does not.
LEMMA HandedPops ==
    ASSUME TypeOK, PopFileTex
    PROVE  \/ \A u \in Tex : Same(Handed, Handed', u)
           \/ \E t \in Tex : /\ Loses(Handed, Handed', t)
                             /\ \A u \in Tex \ {t} : Same(Handed, Handed', u)
<1> DEFINE t == Head(fileTexQ)
           r == Tail(fileTexQ)
<1>1. /\ hand = None /\ fileTexQ \in Seq(Tex) /\ fileTexQ # <<>>
      /\ hand' \in {t, None} /\ fileTexQ' = r
      /\ t \in Tex /\ r \in Seq(Tex)
  BY HandedType, HeadTailProperties DEF PopFileTex
<1>2. Loses(fileTexQ, r, t) /\ \A u \in Tex \ {t} : Same(fileTexQ, r, u)
  BY <1>1, TailLoses
<1>3. Handed = fileTexQ /\ Handed' = Ahead(hand', r)
  BY <1>1 DEF Handed, Ahead
<1>4. CASE hand' = None
  <2>1. Handed' = r
    BY <1>3, <1>4 DEF Ahead
  <2> QED BY <1>1, <1>2, <1>3, <2>1
<1>5. CASE hand' = t
  <2>1. \A u \in Tex : Joins(t, r, Ahead(t, r), u)
    BY <1>1, AheadHas, TextureAssumption
  <2>2. Same(fileTexQ, Ahead(t, r), t)
    BY <1>1, <1>2, <2>1 DEF Loses, Same, Joins
  <2>3. ASSUME NEW u \in Tex \ {t} PROVE Same(fileTexQ, Ahead(t, r), u)
    <3>1. Same(fileTexQ, r, u) /\ Joins(t, r, Ahead(t, r), u)
      BY <1>2, <2>1
    <3> QED BY <3>1 DEF Same, Joins
  <2>4. \A u \in Tex : Same(fileTexQ, Ahead(t, r), u)
    BY <2>2, <2>3
  <2> QED BY <1>3, <1>5, <2>4
<1> QED BY <1>1, <1>4, <1>5

\* What is appended waits behind.
LEMMA HandedGrows ==
    ASSUME TypeOK, NEW t \in Tex, fileTexQ' = Append(fileTexQ, t), hand' = hand
    PROVE  Gains(Handed, Handed', t) /\ \A u \in Tex \ {t} : Same(Handed, Handed', u)
BY HandedType, HandedGains, TextureAssumption

LEMMA SameItself == \A q, t : Same(q, q, t)
BY DEF Same

-----------------------------------------------------------------------------
(* What the steps are made of.                                             *)

LEMMA Fields ==
    ASSUME NEW it \in ItemState
    PROVE  /\ LET r == SetTextureInfo(it) IN
              /\ r.ptr = it.ptr /\ r.t = it.t /\ r.b = it.b
              /\ r.file = "ready" /\ r.tex = "ready" /\ r.brush = "loading"
           /\ LET r == SetTextureInfoMemory(it) IN
              /\ r.ptr = it.ptr /\ r.t = it.t /\ r.b = it.b
              /\ r.file = "ready" /\ r.tex = "ready" /\ r.brush = "ready"
           /\ LET r == ReleaseBrush(it) IN
              /\ r.ptr = it.ptr /\ r.t = it.t /\ r.b = 0
              /\ r.file = it.file /\ r.tex = it.tex /\ r.brush = "ready"
           /\ LET r == ReleaseTexture(it) IN
              /\ r.ptr = it.ptr /\ r.t = 0 /\ r.b = it.b
              /\ r.file = it.file /\ r.tex = "ready" /\ r.brush = it.brush
           /\ LET r == ReleaseFilePointer(it) IN
              /\ r.ptr = 0 /\ r.t = it.t /\ r.b = it.b
              /\ r.file = "ready" /\ r.tex = it.tex /\ r.brush = it.brush
           /\ \A n \in Nat : LET r == SetD3DTexture(it, n) IN
              /\ r.ptr = it.ptr /\ r.t = n /\ r.b = it.b
              /\ r.file = it.file /\ r.tex = (IF n # 0 THEN "loaded" ELSE "ready")
              /\ r.brush = it.brush
           /\ \A n \in Nat : LET r == SetTextureBrush(it, n) IN
              /\ r.ptr = it.ptr /\ r.t = it.t /\ r.b = n
              /\ r.file = it.file /\ r.tex = it.tex /\ r.brush = "loaded"
           /\ \A n \in Nat, size \in {0, 1} : LET r == SetFilePointer(it, n, size) IN
              /\ r.ptr = n /\ r.t = it.t /\ r.b = it.b
              /\ r.file = (IF size = 1 THEN "loaded" ELSE "ready")
              /\ r.tex = it.tex /\ r.brush = it.brush
BY DEF ItemState, SetTextureInfo, SetTextureInfoMemory, ReleaseBrush, ReleaseTexture, ReleaseFilePointer,
       SetD3DTexture, SetTextureBrush, SetFilePointer

\* What is allocated is new; what an item knows is in the heap, or 0.
LEMMA NewIsNew ==
    ASSUME TypeOK, NEW t \in Tex, Pointers(t), Allocate(t)
    PROVE  /\ heap'[t] = heap[t] \cup {New(t)}
           /\ \A u \in Tex \ {t} : heap'[u] = heap[u]
           /\ New(t) \in Nat /\ New(t) \notin heap[t] \cup {0}
           /\ t \in Icon => New(t) # 1
           /\ New(t) \notin {item[t].ptr, item[t].t, item[t].b}
<1>1. /\ heap \in [Tex -> SUBSET Nat] /\ made[t] \in Nat /\ heap[t] \subseteq 1 .. made[t]
  BY DEF TypeOK
<1>2. heap'[t] = heap[t] \cup {New(t)} /\ \A u \in Tex \ {t} : heap'[u] = heap[u]
  BY <1>1 DEF Allocate
<1>3. New(t) \in Nat /\ New(t) \notin heap[t] \cup {0}
  BY <1>1 DEF New
<1>4. {item[t].ptr, item[t].t, item[t].b} \subseteq heap[t] \cup {0} /\ (t \in Icon => 1 \in heap[t])
  BY DEF Pointers
<1> QED BY <1>2, <1>3, <1>4

LEMMA FreeFrees ==
    ASSUME TypeOK, NEW t \in Tex, NEW freed, Free(t, freed)
    PROVE  heap'[t] = heap[t] \ freed /\ \A u \in Tex \ {t} : heap'[u] = heap[u]
BY DEF TypeOK, Free

\* Only w moves.
Others(w) == \A u \in Thread \ {w} : th'[u] = th[u]

LEMMA GotoMoves ==
    ASSUME TypeOK, NEW w \in Thread, NEW pc \in Place, Goto(w, pc)
    PROVE  Others(w) /\ th'[w].at = pc /\ th'[w].tex = My(w)
           /\ th'[w].seen = th[w].seen /\ th'[w].data = th[w].data
BY GotoOne DEF TypeOK, Others, My

LEMMA DoneMoves ==
    ASSUME TypeOK, NEW w \in Thread, Done(w)
    PROVE  Others(w) /\ th'[w].at = "idle" /\ th'[w].tex = None
BY DEF TypeOK, Others, Done, Idle

LEMMA TakeMoves ==
    ASSUME TypeOK, NEW w \in Thread, NEW t \in Tex, Take(w, t)
    PROVE  Others(w) /\ th'[w].at = "held" /\ th'[w].tex = t
BY TakeOne DEF TypeOK, Others

LEMMA TurnsMoves ==
    ASSUME TypeOK, NEW w \in Thread, NEW t \in Tex, NEW pc \in Place, Turns(w, t, pc)
    PROVE  Others(w) /\ th'[w].at = pc /\ th'[w].tex = t
BY TurnsOne DEF TypeOK, Others

LEMMA KindMoves ==
    ASSUME KindInv, NEW w \in Thread, Others(w),
           th'[w].at = "idle" <=> th'[w].tex = None,
           w \in FileW => /\ th'[w].tex \in Art \cup {None}
                          /\ th'[w].at \in {"idle"} \cup Leaving \cup Reading,
           w \in TextureW => th'[w].tex \in Art \cup Icon \cup {None} /\ th'[w].at # "loading",
           w \in FileTexW => th'[w].tex \in Art \cup (Shot \ Bare) \cup {None}
    PROVE  KindInv'
<1>1. FileW \subseteq Thread /\ TextureW \subseteq Thread /\ FileTexW \subseteq Thread
  BY DEF Thread, LoadW
<1>2. \A v \in Thread : th'[v].at = "idle" <=> th'[v].tex = None
  BY DEF KindInv, Others, At, My
<1>3. \A v \in FileW : /\ th'[v].tex \in Art \cup {None}
                       /\ th'[v].at \in {"idle"} \cup Leaving \cup Reading
  BY <1>1 DEF KindInv, Others, My
<1>4. \A v \in TextureW : th'[v].tex \in Art \cup Icon \cup {None} /\ th'[v].at # "loading"
  BY <1>1 DEF KindInv, Others, At, My
<1>5. \A v \in FileTexW : th'[v].tex \in Art \cup (Shot \ Bare) \cup {None}
  BY <1>1 DEF KindInv, Others, My
<1> QED BY <1>2, <1>3, <1>4, <1>5 DEF KindInv, At, My

-----------------------------------------------------------------------------
(* A step is about one item.                                               *)

Untouched(t) ==
    /\ item'[t] = item[t] /\ heap'[t] = heap[t] /\ faults'[t] = faults[t]
    /\ owned'[t] = owned[t]
    /\ Same(fileQ, fileQ', t) /\ Same(texQ, texQ', t)
    /\ Same(Handed, Handed', t) /\ Same(relQ, relQ', t)
    /\ \A w \in Thread \ {Screen} : My(w) = t \/ th'[w].tex = t => th'[w] = th[w]
    /\ (th'[Screen].tex = t /\ th'[Screen].at \in {"begin", "adding"})
       <=> (My(Screen) = t /\ th[Screen].at \in {"begin", "adding"})

LEMMA UntouchedGood ==
    ASSUME NEW t \in Tex, Good(t), Untouched(t)
    PROVE  Good(t)' /\ Stays(t)
<1> USE Threads
<1>1. /\ item'[t] = item[t] /\ heap'[t] = heap[t] /\ faults'[t] = faults[t]
      /\ owned'[t] = owned[t] /\ (t \in Owned' <=> t \in Owned)
  BY DEF Untouched, Owned
<1>2. /\ (Waits(fileQ, t)' <=> Waits(fileQ, t)) /\ (Waits(texQ, t)' <=> Waits(texQ, t))
      /\ (Waits(Handed, t)' <=> Waits(Handed, t)) /\ (Waits(relQ, t)' <=> Waits(relQ, t))
      /\ (Once(fileQ, t) => Once(fileQ, t)') /\ (Once(texQ, t) => Once(texQ, t)')
      /\ (Once(Handed, t) => Once(Handed, t)')
  BY DEF Untouched, Same, Waits, Once
<1>3. \A w \in LoadW \cup ReleaseW \cup {Loader} :
          /\ My(w)' = t <=> My(w) = t
          /\ My(w) = t => th'[w] = th[w]
  BY DEF Untouched, My
<1>4. FileW \cup TextureW \cup FileTexW = LoadW
  BY DEF LoadW
<1>5. Asking(t)' <=> Asking(t)
  BY <1>3 DEF Untouched, Asking, My
<1>6. Readied(t)' <=> Readied(t)
  BY <1>3 DEF Untouched, Readied, My
<1>7. /\ FirstLoad(t)' <=> FirstLoad(t)
      /\ Reload(t)' <=> Reload(t)
      /\ Freeing(t)' <=> Freeing(t)
  BY <1>2, <1>3, <1>4 DEF FirstLoad, Reload, Freeing
<1>8. /\ Holds(FileW, t, Reading)' <=> Holds(FileW, t, Reading)
      /\ Holds(FileTexW, t, Reading)' <=> Holds(FileTexW, t, Reading)
      /\ Holds(LoadW, t, Making)' <=> Holds(LoadW, t, Making)
      /\ Holds(LoadW, t, Brushing)' <=> Holds(LoadW, t, Brushing)
      /\ Holds(LoadW, t, UserAt)' <=> Holds(LoadW, t, UserAt)
      /\ Holds(ReleaseW, t, Freed)' <=> Holds(ReleaseW, t, Freed)
  BY <1>3, <1>4 DEF Holds
<1>9. (ToRead(t)' <=> ToRead(t)) /\ (ToBrush(t)' <=> ToBrush(t))
  BY <1>2, <1>3, <1>5, <1>8 DEF ToRead, ToBrush
<1>10. (ToLoad(t)' <=> ToLoad(t)) /\ (ToMake(t)' <=> ToMake(t))
  BY <1>2, <1>6, <1>8, <1>9 DEF ToLoad, ToMake
<1>11. Pointers(t)'
  BY <1>1 DEF Good, Pointers
<1>12. ASSUME Without(t, {"overlap"})' PROVE Exclusive(t)'
  <2>1. Exclusive(t)
    BY <1>1, <1>12 DEF Good, Without
  <2>2. Alone(fileQ, FileW, t)' /\ Alone(texQ, TextureW, t)' /\ Alone(Handed, FileTexW, t)'
    BY <1>2, <1>3, <1>4, <2>1 DEF Exclusive, Alone
  <2>3. (\A w \in TextureW : My(w) = t => At(w, "held"))
        => (\A w \in TextureW : My(w) = t => At(w, "held"))'
    BY <1>3, <1>4 DEF At
  <2> QED BY <1>1, <1>5, <1>7, <1>9, <2>1, <2>2, <2>3 DEF Exclusive
<1>13. ASSUME Calm(t)' PROVE Loads(t)' /\ Releases(t)' /\ Shown(t)' /\ Kept(t)'
  <2>1. Loads(t) /\ Releases(t) /\ Shown(t) /\ Kept(t)
    BY <1>1, <1>13 DEF Good, Calm, Without
  <2>2. Loads(t)'
    BY <1>1, <1>3, <1>10, <2>1 DEF Loads, At
  <2>3. Releases(t)'
    BY <1>1, <1>3, <1>7, <1>8, <2>1 DEF Releases, At, Used
  <2>4. Shown(t)' /\ Kept(t)'
    BY <1>1, <2>1 DEF Shown, Kept
  <2> QED BY <2>2, <2>3, <2>4
<1>14. Stays(t)
  BY <1>1 DEF Stays
<1>15. Listed(t)'
  BY <1>1, <1>3 DEF Good, Listed
<1> QED BY <1>11, <1>12, <1>13, <1>14, <1>15 DEF Good

LEMMA OneItem ==
    ASSUME DataInv, KindInv', NEW t \in Tex, Good(t)', Stays(t),
           \A u \in Tex \ {t} : Untouched(u)
    PROVE  DataInv' /\ \A u \in Tex : Stays(u)
BY UntouchedGood DEF DataInv

\* A thread's step, with its item or the one it takes, touches no other.
LEMMA OnlyOne ==
    ASSUME NEW w \in Thread, NEW t \in Tex, Others(w),
           My(w) \in {t, None} \/ (w = Screen /\ th[w].at \notin {"begin", "adding"}),
           th'[w].tex \in {t, None} \/ (w = Screen /\ th'[w].at \notin {"begin", "adding"}),
           \A u \in Tex \ {t} : /\ item'[u] = item[u] /\ heap'[u] = heap[u] /\ faults'[u] = faults[u]
                                /\ owned'[u] = owned[u]
                                /\ Same(fileQ, fileQ', u) /\ Same(texQ, texQ', u)
                                /\ Same(Handed, Handed', u) /\ Same(relQ, relQ', u)
    PROVE  \A u \in Tex \ {t} : Untouched(u)
<1> SUFFICES ASSUME NEW u \in Tex \ {t} PROVE Untouched(u)
  OBVIOUS
<1>1. u # None
  BY TextureAssumption
<1>2. \A v \in Thread \ {Screen} : My(v) = u \/ th'[v].tex = u => th'[v] = th[v]
  BY <1>1 DEF Others, My
<1>3. (th'[Screen].tex = u /\ th'[Screen].at \in {"begin", "adding"})
      <=> (My(Screen) = u /\ th[Screen].at \in {"begin", "adding"})
  BY <1>1, Threads DEF Others, My
<1> QED BY <1>2, <1>3 DEF Untouched

-----------------------------------------------------------------------------
(* A worker that loads goes on.                                            *)

\* It has its item to itself, but for a TextureWorker who waits for the file
\* that a FileWorker reads, or goes on when that one has read it.
LEMMA Solo ==
    ASSUME KindInv, NEW t \in Tex, Exclusive(t), NEW w \in LoadW, My(w) = t
    PROVE  /\ ~ Asking(t) /\ ~ Waits(Handed, t)
           /\ \A v \in LoadW : My(v) = t /\ v # w =>
                 (w \in FileW /\ v \in TextureW) \/ (w \in TextureW /\ v \in FileW)
           /\ w \in FileW \cup FileTexW => ~ Waits(fileQ, t)
           /\ w \in TextureW \cup FileTexW => ~ Waits(texQ, t)
           /\ w \in TextureW /\ ~ At(w, "held") =>
                 /\ ~ ToRead(t)
                 /\ \A v \in FileW : My(v) = t => th[v].at \in Leaving
           /\ w \in FileW /\ th[w].at \in Reading =>
                 item[t].file = "ready" /\ \A v \in TextureW : My(v) = t => At(v, "held")
           /\ th[w].at \in Brushing => item[t].brush # "loaded"
<1>1. FirstLoad(t) \/ Reload(t)
  BY DEF LoadW, FirstLoad, Reload
<1>2. ~ Asking(t) /\ ~ (FirstLoad(t) /\ Reload(t))
  BY <1>1 DEF Exclusive
<1>3. w \in FileW \cup TextureW => ~ Reload(t) /\ FirstLoad(t)
  BY <1>2 DEF FirstLoad
<1>4. w \in FileTexW => ~ FirstLoad(t)
  BY <1>2 DEF Reload
<1>5. ~ Waits(Handed, t)
  BY <1>3, <1>4 DEF Exclusive, Alone, Reload, LoadW
<1>6. w \in FileW \cup FileTexW => ~ Waits(fileQ, t)
  BY <1>4 DEF Exclusive, Alone, FirstLoad
<1>7. w \in TextureW \cup FileTexW => ~ Waits(texQ, t)
  BY <1>4 DEF Exclusive, Alone, FirstLoad
<1>8. \A v \in LoadW : My(v) = t /\ v # w =>
          (w \in FileW /\ v \in TextureW) \/ (w \in TextureW /\ v \in FileW)
  BY <1>2 DEF Exclusive, Alone, FirstLoad, Reload, LoadW
<1>9. w \in TextureW /\ ~ At(w, "held") => ~ ToRead(t)
  BY DEF Exclusive
<1>10. ASSUME ~ ToRead(t), NEW v \in FileW, My(v) = t PROVE th[v].at \in Leaving
  <2>1. v \in Thread /\ t # None
    BY TextureAssumption DEF Thread, LoadW
  <2>2. th[v].at \in {"idle"} \cup Leaving \cup Reading /\ th[v].at # "idle"
    BY <1>10, <2>1 DEF KindInv, At
  <2>3. th[v].at \notin Reading
    BY <1>10 DEF ToRead, Holds
  <2> QED BY <2>2, <2>3
<1>11. w \in FileW /\ th[w].at \in Reading => ToRead(t)
  BY DEF ToRead, Holds
<1>12. th[w].at \in Brushing => ToBrush(t)
  BY DEF ToBrush, Holds
<1> QED BY <1>2, <1>5, <1>6, <1>7, <1>8, <1>9, <1>10, <1>11, <1>12 DEF Exclusive

\* A step with t, which does not go back.
LoadMove(w, t) ==
    /\ My(w) = t /\ Others(w)
    /\ UNCHANGED <<queued, owned>>
    /\ \/ th'[w].tex = None
       \/ /\ th'[w].tex = t
          /\ th'[w].at \in Reading => th[w].at \in Reading
          /\ th'[w].at \in Making => th[w].at \in Making
          /\ th'[w].at \in Brushing => th[w].at \in Brushing

LEMMA Monotone ==
    ASSUME NEW t \in Tex, NEW w \in LoadW, LoadMove(w, t)
    PROVE  /\ ToRead(t)' => ToRead(t)
           /\ ToLoad(t)' => ToLoad(t)
           /\ ToMake(t)' => ToMake(t)
           /\ ToBrush(t)' => ToBrush(t)
           /\ Asking(t)' <=> Asking(t)
           /\ Freeing(t)' <=> Freeing(t)
           /\ FirstLoad(t)' => FirstLoad(t)
           /\ Reload(t)' => Reload(t)
<1> USE Threads
<1>1. /\ (Waits(fileQ, t)' <=> Waits(fileQ, t)) /\ (Waits(texQ, t)' <=> Waits(texQ, t))
      /\ (Waits(Handed, t)' <=> Waits(Handed, t)) /\ (Waits(relQ, t)' <=> Waits(relQ, t))
  BY DEF LoadMove, Waits, queued
<1>2. /\ th'[Loader] = th[Loader] /\ th'[Screen] = th[Screen]
      /\ \A v \in ReleaseW : th'[v] = th[v]
      /\ \A v \in LoadW \ {w} : th'[v] = th[v]
  BY DEF LoadMove, Others
<1>3. t # None /\ FileW \cup TextureW \cup FileTexW = LoadW
  BY TextureAssumption DEF LoadW
<1>4. (Asking(t)' <=> Asking(t)) /\ (Readied(t)' <=> Readied(t))
  BY <1>2 DEF Asking, Readied, My
<1>5. Freeing(t)' <=> Freeing(t)
  BY <1>1, <1>2 DEF Freeing, My
<1>6. \A v \in LoadW : My(v)' = t =>
         /\ My(v) = t
         /\ (th'[v].at \in Reading => th[v].at \in Reading)
         /\ (th'[v].at \in Making => th[v].at \in Making)
         /\ (th'[v].at \in Brushing => th[v].at \in Brushing)
  BY <1>2, <1>3 DEF LoadMove, My
<1>7. (FirstLoad(t)' => FirstLoad(t)) /\ (Reload(t)' => Reload(t))
  BY <1>1, <1>3, <1>6 DEF FirstLoad, Reload
<1>8. /\ Holds(FileW, t, Reading)' => Holds(FileW, t, Reading)
      /\ Holds(FileTexW, t, Reading)' => Holds(FileTexW, t, Reading)
      /\ Holds(LoadW, t, Making)' => Holds(LoadW, t, Making)
      /\ Holds(LoadW, t, Brushing)' => Holds(LoadW, t, Brushing)
  BY <1>3, <1>6 DEF Holds
<1>9. (ToRead(t)' => ToRead(t)) /\ (ToBrush(t)' => ToBrush(t))
  BY <1>1, <1>2, <1>4, <1>8 DEF ToRead, ToBrush, My
<1>10. (ToLoad(t)' => ToLoad(t)) /\ (ToMake(t)' => ToMake(t))
  BY <1>1, <1>4, <1>8, <1>9 DEF ToLoad, ToMake
<1> QED BY <1>4, <1>5, <1>7, <1>9, <1>10

LEMMA ExclusiveMoves ==
    ASSUME NEW t \in Tex, NEW w \in LoadW, LoadMove(w, t), Exclusive(t),
           w \in TextureW /\ th'[w].tex = t => th'[w].at = "held" \/ ~ ToRead(t),
           ToRead(t)' => item'[t].file = "ready",
           ToBrush(t)' => item'[t].brush # "loaded"
    PROVE  Exclusive(t)'
<1> USE Threads
<1>1. /\ ToRead(t)' => ToRead(t)
      /\ Asking(t)' <=> Asking(t)
      /\ Freeing(t)' <=> Freeing(t)
      /\ FirstLoad(t)' => FirstLoad(t)
      /\ Reload(t)' => Reload(t)
  BY Monotone
<1>2. /\ (Waits(fileQ, t)' <=> Waits(fileQ, t)) /\ (Waits(texQ, t)' <=> Waits(texQ, t))
      /\ (Waits(Handed, t)' <=> Waits(Handed, t))
      /\ (Once(fileQ, t)' <=> Once(fileQ, t)) /\ (Once(texQ, t)' <=> Once(texQ, t))
      /\ (Once(Handed, t)' <=> Once(Handed, t))
  BY DEF LoadMove, Waits, Once, queued
<1>3. t # None /\ FileW \cup TextureW \cup FileTexW = LoadW
  BY TextureAssumption DEF LoadW
<1>4. \A v \in LoadW : My(v)' = t => My(v) = t
  BY <1>3 DEF LoadMove, Others, My
<1>5. Alone(fileQ, FileW, t)' /\ Alone(texQ, TextureW, t)' /\ Alone(Handed, FileTexW, t)'
  BY <1>2, <1>3, <1>4 DEF Exclusive, Alone
<1>6. ASSUME ToRead(t)', NEW v \in TextureW, My(v)' = t PROVE At(v, "held")'
  <2>1. CASE v = w
    BY <1>1, <1>6, <2>1 DEF At, My
  <2>2. CASE v # w
    <3>1. th'[v] = th[v] /\ My(v) = t
      BY <1>3, <1>4, <1>6, <2>2 DEF LoadMove, Others
    <3> QED BY <1>1, <1>6, <3>1 DEF Exclusive, At
  <2> QED BY <2>1, <2>2
<1>7. Owned' = Owned
  BY DEF LoadMove, Owned
<1> QED BY <1>1, <1>5, <1>6, <1>7 DEF Exclusive

\* What a load's step leaves to the others, and finds of itself.
LEMMA LoadsMoves ==
    ASSUME KindInv, NEW t \in Tex, NEW w \in LoadW, LoadMove(w, t), Exclusive(t), Loads(t),
           th[w].at \in {"held"} \cup Leaving =>
               /\ item'[t].ptr = item[t].ptr /\ item'[t].b = item[t].b
               /\ item'[t].file = item[t].file /\ item'[t].tex = item[t].tex,
           faults[t] \subseteq faults'[t],
           "early" \notin faults'[t] =>
               /\ ToLoad(t)' => item'[t].ptr = 0
               /\ ToMake(t)' => item'[t].t = 0 /\ item'[t].b = 0,
           th'[w].tex = t =>
               /\ th'[w].at = "brushing" =>
                     /\ item'[t].tex = "loaded"
                     /\ "early" \notin faults'[t] => item'[t].b = 0
               /\ th'[w].at = "making" => item'[t].file = "loaded" /\ th'[w].data = item'[t].ptr
               /\ w \in TextureW /\ th'[w].at \in {"begin", "adding"} => item'[t].file = "loaded"
               /\ w \in FileTexW /\ th'[w].at = "adding" => th'[w].seen > 0
    PROVE  Loads(t)'
<1> USE Threads
<1>1. ASSUME NEW v \in LoadW, My(v)' = t
      PROVE  /\ At(v, "brushing")' =>
                   /\ item'[t].tex = "loaded"
                   /\ "early" \notin faults'[t] => item'[t].b = 0
             /\ At(v, "making")' => item'[t].file = "loaded" /\ th'[v].data = item'[t].ptr
             /\ v \in TextureW /\ th'[v].at \in {"begin", "adding"} => item'[t].file = "loaded"
             /\ v \in FileTexW /\ At(v, "adding")' => th'[v].seen > 0
  <2>1. CASE v = w
    BY <1>1, <2>1 DEF At, My
  <2>2. CASE v # w
    <3>1. th'[v] = th[v] /\ My(v) = t
      BY <1>1, <2>2 DEF LoadMove, Others, My
    <3>2. (w \in FileW /\ v \in TextureW) \/ (w \in TextureW /\ v \in FileW)
      BY <2>2, <3>1, Solo DEF LoadMove
    <3>3. FileW \cap (TextureW \cup FileTexW) = {} /\ TextureW \cap FileTexW = {}
      BY TextureAssumption
    <3>4. v \in FileW => th[v].at \notin {"brushing", "making"}
      BY DEF KindInv, Reading
    <3>5. CASE v \in FileW
      BY <3>1, <3>3, <3>4, <3>5 DEF At
    <3>6. CASE w \in FileW /\ th[w].at \in Reading
      BY <3>1, <3>2, <3>3, <3>6, Solo DEF At, LoadMove
    <3>7. CASE w \in FileW /\ th[w].at \notin Reading
      <4>1. th[w].at \in Leaving
        <5>1. th[w].at # "idle"
          BY TextureAssumption DEF LoadMove, KindInv, At
        <5> QED BY <3>7, <5>1 DEF KindInv
      <4> QED BY <3>1, <3>2, <3>3, <4>1 DEF Loads, At
    <3> QED BY <3>2, <3>5, <3>6, <3>7
  <2> QED BY <2>1, <2>2
<1> QED BY <1>1 DEF Loads

\* Whoever works on an item that is not being freed may change it.
LEMMA ReleasesAway ==
    ASSUME Inv, KindInv, NEW t \in Tex, NEW w \in LoadW, LoadMove(w, t), th[w].at # "idle",
           Exclusive(t), Releases(t),
           t \in Shot => (t \in Owned \/ Freeing(t)) /\ ~ Holds(ReleaseW, t, Freed)
    PROVE  Releases(t)'
<1> USE Threads DEF Inv
<1>1. t # None
  BY TextureAssumption
<1>3. My(Loader) # t /\ th'[Loader] = th[Loader]
  BY Solo DEF LoadMove, Asking, Others
<1>4. /\ \A v \in ReleaseW : th'[v] = th[v]
      /\ Freeing(t)' <=> Freeing(t)
      /\ Owned' = Owned
  BY Monotone DEF LoadMove, Others, Owned
<1>5. CASE t \notin Shot
  <2>1. \A v \in ReleaseW : My(v) # t
    BY <1>1, <1>5 DEF WorkerInv, KindInv, At
  <2>3. t \notin Bare
    BY <1>5, TextureAssumption
  <2> QED BY <1>3, <1>4, <1>5, <2>1, <2>3 DEF Releases, Holds, My
<1>6. CASE t \in Shot
  <2>1. t \notin Bare
    BY <1>6, TextureAssumption DEF KindInv, LoadW, LoadMove
  <2>2. \A v \in ReleaseW : My(v)' = t => th'[v].at \notin Freed
    BY <1>4, <1>6 DEF Holds, My
  <2> QED BY <1>3, <1>4, <1>6, <2>1, <2>2 DEF Releases, Holds, My, At, Freed
<1> QED BY <1>5, <1>6

\* An item that is used is not being freed.
LEMMA ReleasesKept ==
    ASSUME Inv, KindInv, NEW t \in Tex, NEW w \in LoadW, LoadMove(w, t), th[w].at \in UserAt,
           Exclusive(t), Releases(t)
    PROVE  Releases(t)'
<1>1. Used(t) /\ th[w].at # "idle"
  BY DEF Used, Holds, LoadMove, UserAt
<1>2. t \in Shot => t \notin Bare
  BY TextureAssumption DEF KindInv, LoadW, LoadMove
<1>3. t \in Shot => (t \in Owned \/ Freeing(t)) /\ ~ Holds(ReleaseW, t, Freed)
  BY <1>1, <1>2 DEF Releases
<1> QED BY <1>1, <1>3, ReleasesAway

\* A step of a worker on an item that it does not use, before or after.
LEMMA ReleasesSame ==
    ASSUME NEW t \in Tex, NEW w \in LoadW, LoadMove(w, t), Releases(t), item'[t] = item[t],
           th[w].at \notin UserAt,
           th'[w].tex = None \/ th'[w].at \notin UserAt
    PROVE  Releases(t)'
<1> USE Threads
<1>1. t # None
  BY TextureAssumption
<1>2. \A v \in ReleaseW \cup {Loader} : th'[v] = th[v]
  BY DEF LoadMove, Others
<1>3. Used(t)' => Used(t)
  BY <1>1 DEF Used, Holds, LoadMove, Others, My
<1>4. (Freeing(t)' <=> Freeing(t)) /\ Owned' = Owned
  BY Monotone DEF LoadMove, Owned
<1>5. Holds(ReleaseW, t, Freed)' <=> Holds(ReleaseW, t, Freed)
  BY <1>2 DEF Holds, My
<1> QED BY <1>2, <1>3, <1>4, <1>5 DEF Releases, My, At

\* The handles and what they stand for are as they were.
LEMMA SameData ==
    ASSUME NEW t \in Tex, heap'[t] = heap[t], faults[t] \subseteq faults'[t],
           item'[t].ptr = item[t].ptr, item'[t].t = item[t].t, item'[t].b = item[t].b,
           item'[t].file = item[t].file, item'[t].tex = item[t].tex,
           item'[t].brush \in {item[t].brush, "loading"}
    PROVE  /\ Pointers(t) => Pointers(t)'
           /\ Shown(t) => Shown(t)'
           /\ Kept(t) => Kept(t)'
BY DEF Pointers, Shown, Kept

\* All that a step of a load has to show.
LEMMA LoadStepGood ==
    ASSUME Inv, DataInv, NEW t \in Tex, NEW w \in LoadW, LoadMove(w, t),
           th[w].at # "idle",
           \A u \in Tex \ {t} : item'[u] = item[u] /\ heap'[u] = heap[u] /\ faults'[u] = faults[u],
           faults[t] \subseteq faults'[t],
           item'[t].tex = "inactive" => item[t].tex = "inactive",
           th'[w].at = "idle" <=> th'[w].tex = None,
           w \in FileW => th'[w].at \in {"idle"} \cup Leaving \cup Reading,
           w \in TextureW => th'[w].at # "loading",
           Pointers(t)',
           Exclusive(t) => Exclusive(t)' /\ Stays(t),
           Exclusive(t) /\ Calm(t)' /\ Loads(t) /\ Releases(t) /\ Shown(t) /\ Kept(t)
               => Loads(t)' /\ Releases(t)' /\ Shown(t)' /\ Kept(t)'
    PROVE  DataInv' /\ \A u \in Tex : Stays(u)
<1> USE Threads
<1>1. w \in Thread /\ My(w) = t /\ th'[w].tex \in {t, None} /\ Others(w)
  BY DEF LoadMove
<1>2. KindInv'
  BY <1>1, KindMoves DEF DataInv, KindInv
<1>3. \A u \in Tex \ {t} : Untouched(u)
  <2>1. UNCHANGED <<fileQ, texQ, Handed, relQ, owned>>
    BY DEF LoadMove, queued
  <2> QED BY <1>1, <2>1, SameItself, OnlyOne
<1>4. Good(t)' /\ Stays(t)
  <2>1. Good(t)
    BY DEF DataInv
  <2>2. Without(t, {"overlap"})' => Without(t, {"overlap"})
    BY DEF Without
  <2>3. Calm(t)' => Calm(t) /\ Without(t, {"overlap"})
    BY DEF Calm, Without
  <2>4. Stays(t)
    <3>1. CASE Exclusive(t)
      BY <3>1
    <3>2. CASE ~ Exclusive(t)
      BY <2>1, <3>2 DEF Good, Stays
    <3> QED BY <3>1, <3>2
  <2>5. Listed(t)'
    <3>1. t \in Owned \/ My(Loader) = t \/ t \in Shot
      BY <1>1, HasItem DEF Inv, Loadable
    <3>2. Listed(t) /\ th'[Loader] = th[Loader] /\ owned' = owned
      BY <1>1, <2>1 DEF Good, Others, LoadMove
    <3>3. t \notin Shot => item[t].tex # "inactive"
      BY <3>1, <3>2 DEF Listed, Owned
    <3> QED BY <3>2, <3>3 DEF Listed, My
  <2> QED BY <2>1, <2>2, <2>3, <2>4, <2>5 DEF Good
<1> QED BY <1>2, <1>3, <1>4, OneItem

LEMMA StartLoadData ==
    ASSUME Inv, DataInv, NEW w \in LoadW, Start(w)
    PROVE  DataInv' /\ \A u \in Tex : Stays(u)
<1> USE Threads DEF Inv
<1>1. /\ KeepItems /\ At(w, "held") /\ w \notin ReleaseW
      /\ \/ Goto(w, "begin") /\ (w \in TextureW => item[My(w)].file = "loaded")
         \/ Done(w)
  <2>1. w \notin ReleaseW /\ FileW \cap (TextureW \cup FileTexW) = {} /\ TextureW \cap FileTexW = {}
    BY TextureAssumption
  <2> QED BY <2>1 DEF Start, StartFile, StartTexture, DropTexture, StartFileTex, StartRelease
<1>2. PICK t \in Tex : t = My(w)
  BY <1>1, HasItem DEF At
<1>3. t # None /\ "begin" \in Place /\ w \in Thread
  BY TextureAssumption DEF Place
<1>4. /\ Others(w) /\ UNCHANGED <<queued, owned>>
      /\ item' = item /\ heap' = heap /\ faults' = faults
      /\ \/ /\ th'[w].at = "begin" /\ th'[w].tex = t
            /\ w \in TextureW => item[t].file = "loaded"
         \/ th'[w].at = "idle" /\ th'[w].tex = None
  BY <1>1, <1>2, <1>3, GotoMoves, DoneMoves, QueuesKept DEF KeepItems
<1>5. th[w].at = "held" /\ My(w) = t
  BY <1>1, <1>2 DEF At
<1>6. LoadMove(w, t)
  BY <1>3, <1>4, <1>5 DEF LoadMove, Reading, Making, Brushing
<1>7. Good(t) /\ KindInv /\ Pointers(t)'
  BY <1>4, SameData DEF DataInv, Good
<1>8. ASSUME Exclusive(t) PROVE Exclusive(t)'
  <2>1. w \in TextureW /\ th'[w].tex = t => ~ ToRead(t)
    BY <1>3, <1>4, <1>8 DEF Exclusive
  <2>2. (ToRead(t)' => ToRead(t)) /\ (ToBrush(t)' => ToBrush(t))
    BY <1>6, Monotone
  <2>3. (ToRead(t)' => item'[t].file = "ready") /\ (ToBrush(t)' => item'[t].brush # "loaded")
    BY <1>4, <1>8, <2>2 DEF Exclusive
  <2> QED BY <1>6, <1>8, <2>1, <2>3, ExclusiveMoves
<1>9. Stays(t)
  BY <1>4 DEF Stays
<1>10. ASSUME Exclusive(t), Loads(t), Releases(t), Shown(t), Kept(t)
       PROVE  Loads(t)' /\ Releases(t)' /\ Shown(t)' /\ Kept(t)'
  <2>1. Loads(t)'
    <3>1. (ToLoad(t)' => ToLoad(t)) /\ (ToMake(t)' => ToMake(t))
      BY <1>6, Monotone
    <3>2. "early" \notin faults'[t] =>
            (ToLoad(t)' => item'[t].ptr = 0) /\ (ToMake(t)' => item'[t].t = 0 /\ item'[t].b = 0)
      BY <1>4, <1>10, <3>1 DEF Loads
    <3> QED BY <1>3, <1>4, <1>6, <1>7, <1>10, <3>2, LoadsMoves
  <2>2. Releases(t)'
    BY <1>4, <1>5, <1>6, <1>10, ReleasesSame DEF UserAt
  <2> QED BY <1>4, <1>10, <2>1, <2>2, SameData
<1> QED
  <2>1. w \in FileW => th'[w].at \in {"idle"} \cup Leaving \cup Reading
    BY <1>4 DEF Reading
  <2>2. DataInv
    OBVIOUS
  <2>3. \A u \in Tex \ {t} : item'[u] = item[u] /\ heap'[u] = heap[u] /\ faults'[u] = faults[u]
    BY <1>4
  <2> HIDE DEF Inv
  <2>4. th[w].at # "idle" /\ item'[t].tex = item[t].tex
    BY <1>4, <1>5
  <2> QED BY <1>3, <1>4, <1>6, <1>7, <1>8, <1>9, <1>10, <2>1, <2>2, <2>3, <2>4, LoadStepGood

\* The count is tested or read: for AddRef, or for Release.
LEMMA CountMoves ==
    ASSUME Inv, NEW w \in Thread, Counts(w)
    PROVE  /\ \/ w \in LoadW /\ th[w].at \in {"begin", "leave", "lower"}
              \/ w = Loader /\ th[w].at \in {"begin", "leave", "lower", "again"}
              \/ w = Screen /\ th[w].at \in {"begin", "leave", "lower"}
           /\ My(w) \in Tex /\ Others(w) /\ th'[w].tex = My(w)
           /\ th[w].at = "begin" => th'[w].at = "adding" /\ th'[w].seen = item[My(w)].refs
           /\ th[w].at = "again" => th'[w].at = "readding"
           /\ th[w].at = "leave" => th'[w].at \in {"lower", "spared"}
           /\ th[w].at = "lower" => th'[w].at = "dropping"
           /\ UNCHANGED <<item, heap, queued, owned, loaderQ>>
           /\ \A u \in Tex : faults[u] \subseteq faults'[u]
           /\ \A u \in Tex \ {My(w)} : faults'[u] = faults[u]
           /\ w \notin FileTexW => faults' = faults
           /\ w \in FileTexW /\ th[w].at = "begin" /\ item[My(w)].refs <= 0 =>
                 "late" \in faults'[My(w)]
<1>1. /\ \/ w \in LoadW /\ th[w].at \in {"begin", "leave", "lower"}
         \/ w = Loader /\ th[w].at \in {"begin", "leave", "lower", "again"}
         \/ w = Screen /\ th[w].at \in {"begin", "leave", "lower"}
      /\ My(w) \in Tex /\ Others(w) /\ th'[w].tex = My(w)
      /\ \/ At(w, "leave") /\ th'[w].at = (IF item[My(w)].refs > 0 THEN "lower" ELSE "spared")
         \/ ~ At(w, "leave") /\ th'[w].at = AfterRead[th[w].at]
      /\ \A u \in Tex : faults[u] \subseteq faults'[u]
      /\ UNCHANGED <<item, heap, queues, owned>>
  BY CountsDoes DEF Others, My
<1>2. /\ th[w].at = "begin" => th'[w].at = "adding"
      /\ th[w].at = "again" => th'[w].at = "readding"
      /\ th[w].at = "leave" => th'[w].at \in {"lower", "spared"}
      /\ th[w].at = "lower" => th'[w].at = "dropping"
  <2>1. AfterRead["begin"] = "adding" /\ AfterRead["again"] = "readding"
        /\ AfterRead["lower"] = "dropping"
    BY DEF AfterRead
  <2> QED BY <1>1, <2>1 DEF At
<1>3. UNCHANGED queued /\ loaderQ' = loaderQ
  BY <1>1, QueuesKept DEF queues
<1>4. /\ th[w].at = "begin" => th'[w].seen = item[My(w)].refs
      /\ \A u \in Tex \ {My(w)} : faults'[u] = faults[u]
      /\ w \notin FileTexW => faults' = faults
      /\ w \in FileTexW /\ th[w].at = "begin" /\ item[My(w)].refs <= 0 =>
            "late" \in faults'[My(w)]
  <2>1. faults \in [Tex -> SUBSET Fault] /\ th \in [Thread -> Local]
    BY DEF Inv, TypeOK
  <2>2. CASE TestCount(w)
    BY <2>2 DEF TestCount, KeepItems, At
  <2>3. CASE ReadCount(w)
    <3>1. th' = [th EXCEPT ![w].at = AfterRead[@], ![w].seen = item[My(w)].refs]
      BY <2>3 DEF ReadCount
    <3>2. th'[w].seen = item[My(w)].refs
      BY <2>1, <3>1 DEF Local
    <3> DEFINE kinds == IF w \in FileTexW /\ At(w, "begin") /\ item[My(w)].refs <= 0
                          THEN {"late"} ELSE {}
    <3>3. faults' = [faults EXCEPT ![My(w)] = @ \cup kinds]
      BY <2>3 DEF ReadCount, Blame
    <3>4. w \notin FileTexW => kinds = {}
      OBVIOUS
    <3>5. w \in FileTexW /\ th[w].at = "begin" /\ item[My(w)].refs <= 0 => kinds = {"late"}
      BY DEF At
    <3> HIDE DEF kinds
    <3> QED BY <1>1, <2>1, <3>2, <3>3, <3>4, <3>5
  <2> QED BY <2>2, <2>3 DEF Counts
<1> QED BY <1>1, <1>2, <1>3, <1>4

LEMMA CountLoadData ==
    ASSUME Inv, DataInv, NEW w \in LoadW, Counts(w)
    PROVE  DataInv' /\ \A u \in Tex : Stays(u)
<1> USE Threads
<1>1. PICK t \in Tex : t = My(w)
  BY CountMoves
<1>2. /\ th[w].at \in {"begin", "leave", "lower"}
      /\ Others(w) /\ th'[w].tex = t
      /\ th[w].at = "begin" => th'[w].at = "adding" /\ th'[w].seen = item[t].refs
      /\ th[w].at # "begin" => th'[w].at \in {"lower", "spared", "dropping"}
      /\ UNCHANGED <<queued, owned>> /\ item' = item /\ heap' = heap
      /\ faults[t] \subseteq faults'[t]
      /\ \A u \in Tex \ {t} : faults'[u] = faults[u]
      /\ w \in FileTexW /\ th[w].at = "begin" /\ item[t].refs <= 0 => "late" \in faults'[t]
  BY <1>1, CountMoves
<1>3. t # None /\ item[t].refs \in Int /\ My(w) = t
  BY <1>1, TextureAssumption DEF Inv, TypeOK, ItemState
<1>4. LoadMove(w, t)
  BY <1>2, <1>3 DEF LoadMove, Reading, Making, Brushing
<1>5. Good(t) /\ KindInv /\ Pointers(t)'
  BY <1>2, SameData DEF DataInv, Good
<1>6. ASSUME Exclusive(t) PROVE Exclusive(t)'
  <2>1. w \in TextureW => ~ ToRead(t)
    BY <1>1, <1>2, <1>6 DEF Exclusive, At
  <2>2. (ToRead(t)' => ToRead(t)) /\ (ToBrush(t)' => ToBrush(t))
    BY <1>4, Monotone
  <2>3. (ToRead(t)' => item'[t].file = "ready") /\ (ToBrush(t)' => item'[t].brush # "loaded")
    BY <1>2, <1>6, <2>2 DEF Exclusive
  <2> QED BY <1>4, <1>6, <2>1, <2>3, ExclusiveMoves
<1>7. Stays(t)
  BY <1>2 DEF Stays
<1>8. ASSUME Exclusive(t), Calm(t)', Loads(t), Releases(t), Shown(t), Kept(t)
       PROVE  Loads(t)' /\ Releases(t)' /\ Shown(t)' /\ Kept(t)'
  <2>1. Loads(t)'
    <3>1. (ToLoad(t)' => ToLoad(t)) /\ (ToMake(t)' => ToMake(t))
      BY <1>4, Monotone
    <3>2. "early" \notin faults'[t] =>
            (ToLoad(t)' => item'[t].ptr = 0) /\ (ToMake(t)' => item'[t].t = 0 /\ item'[t].b = 0)
      BY <1>2, <1>8, <3>1 DEF Loads
    <3>3. w \in FileTexW /\ th'[w].at = "adding" => th'[w].seen > 0
      BY <1>2, <1>3, <1>8 DEF Calm, Without
    <3>4. w \in TextureW /\ th'[w].at = "adding" => item'[t].file = "loaded"
      BY <1>1, <1>2, <1>8 DEF Loads, At
    <3>5. th'[w].at \in {"adding", "lower", "spared", "dropping"}
      BY <1>2
    <3> QED BY <1>2, <1>4, <1>5, <1>8, <3>2, <3>3, <3>4, <3>5, LoadsMoves
  <2>2. Releases(t)'
    <3>1. CASE th[w].at = "begin"
      BY <1>2, <1>4, <1>8, <3>1, ReleasesSame DEF UserAt
    <3>2. CASE th[w].at # "begin"
      BY <1>2, <1>4, <1>5, <1>8, <3>2, ReleasesKept DEF UserAt
    <3> QED BY <3>1, <3>2
  <2> QED BY <1>2, <1>8, <2>1, <2>2, SameData
<1>9. w \in FileW => th'[w].at \in {"idle"} \cup Leaving \cup Reading
  BY <1>2 DEF Reading
<1>10. /\ \A u \in Tex \ {t} : item'[u] = item[u] /\ heap'[u] = heap[u] /\ faults'[u] = faults[u]
       /\ th[w].at # "idle" /\ th'[w].at # "idle" /\ th'[w].at # "loading"
       /\ item'[t].tex = item[t].tex /\ th'[w].tex # None
  BY <1>2, <1>3
<1> QED BY <1>2, <1>4, <1>5, <1>6, <1>7, <1>8, <1>9, <1>10, LoadStepGood

\* The count is 0 when the item has neither owner nor user.
LEMMA CountZero ==
    ASSUME Inv, NEW t \in Tex, Without(t, {"torn"})
    PROVE  /\ item[t].refs = 0 <=> (t \notin Owned /\ ~ Used(t))
           /\ item[t].refs <= 0 <=> item[t].refs = 0
<1>1. /\ item[t].refs = Cardinality(Users(t)) + owned[t]
      /\ owned[t] \in Nat /\ (t \in Owned <=> owned[t] > 0)
  BY DEF Inv, CountIsRight, TypeOK, Owned
<1>2. IsFiniteSet(Users(t))
  <2>1. Users(t) \subseteq LoadW
    BY DEF Users
  <2> QED BY <2>1, TextureAssumption, FS_Subset
<1>3. Cardinality(Users(t)) \in Nat /\ (Cardinality(Users(t)) = 0 <=> Users(t) = {})
  BY <1>2, FS_CardinalityType, FS_EmptySet
<1>4. Users(t) = {} <=> ~ Used(t)
  BY DEF Users, Used, Holds
<1> QED BY <1>1, <1>3, <1>4

LEMMA AddRefData ==
    ASSUME Inv, DataInv, NEW w \in LoadW, AddRef(w)
    PROVE  DataInv' /\ \A u \in Tex : Stays(u)
<1> USE Threads DEF Inv
<1>1. th[w].at = "adding"
  BY DEF AddRef, At
<1>2. PICK t \in Tex : t = My(w)
  BY <1>1, HasItem
<1>3. /\ t # None /\ w \in Thread /\ item \in [Tex -> ItemState] /\ item[t] \in ItemState
      /\ {"loading", "making"} \subseteq Place /\ th[w] \in Local
  BY TextureAssumption DEF TypeOK, Place
<1>4. /\ Others(w) /\ th'[w].tex = t
      /\ th'[w].at = IF w \in TextureW THEN "making" ELSE "loading"
      /\ w \in TextureW => th'[w].data = item[t].ptr
  <2>1. CASE w \in TextureW
    <3>1. th' = [th EXCEPT ![w].at = "making", ![w].data = item[t].ptr]
      BY <1>2, <2>1 DEF AddRef
    <3> QED BY <1>2, <1>3, <2>1, <3>1 DEF TypeOK, Local, Others, My
  <2>2. CASE w \notin TextureW
    BY <1>2, <1>3, <2>2, GotoMoves DEF AddRef
  <2> QED BY <2>1, <2>2
<1>5. /\ \A u \in Tex \ {t} : item'[u] = item[u]
      /\ item'[t] = [Added(w) EXCEPT !.brush = "loading"]
  BY <1>2, <1>3 DEF AddRef, Becomes
<1>6. /\ item'[t].ptr = item[t].ptr /\ item'[t].t = item[t].t /\ item'[t].b = item[t].b
      /\ item'[t].file = item[t].file /\ item'[t].tex = item[t].tex /\ item'[t].brush = "loading"
  BY <1>2, <1>3, <1>5 DEF Added, ItemState
<1>7. /\ faults[t] \subseteq faults'[t]
      /\ \A u \in Tex \ {t} : faults'[u] = faults[u]
      /\ item[t].refs # th[w].seen => "torn" \in faults'[t]
  BY <1>2 DEF AddRef, Blame, Torn, TypeOK
<1>8. UNCHANGED <<queued, owned>> /\ heap' = heap
  BY QueuesKept DEF AddRef
<1>9. LoadMove(w, t)
  BY <1>1, <1>2, <1>4, <1>8 DEF LoadMove, Reading, Making, Brushing
<1>10. Good(t) /\ KindInv /\ Pointers(t)'
  BY <1>6, <1>7, <1>8, SameData DEF DataInv, Good
<1>11. ASSUME Exclusive(t) PROVE Exclusive(t)' /\ Stays(t)
  <2>1. w \in TextureW => ~ ToRead(t)
    BY <1>1, <1>2, <1>11 DEF Exclusive, At
  <2>2. ToRead(t)' => ToRead(t)
    BY <1>9, Monotone
  <2>3. (ToRead(t)' => item'[t].file = "ready") /\ (ToBrush(t)' => item'[t].brush # "loaded")
    BY <1>6, <1>11, <2>2 DEF Exclusive
  <2>4. Exclusive(t)'
    BY <1>9, <1>11, <2>1, <2>3, ExclusiveMoves
  <2>5. item[t].brush # "loaded"
    BY <1>1, <1>2, <1>10, <1>11, Solo DEF Brushing, Making, Reading
  <2> QED BY <2>4, <2>5 DEF Stays
<1>12. ASSUME Exclusive(t), Calm(t)', Loads(t), Releases(t), Shown(t), Kept(t)
       PROVE  Loads(t)' /\ Releases(t)' /\ Shown(t)' /\ Kept(t)'
  <2>1. Loads(t)'
    <3>1. (ToLoad(t)' => ToLoad(t)) /\ (ToMake(t)' => ToMake(t))
      BY <1>9, Monotone
    <3>2. "early" \notin faults'[t] =>
            (ToLoad(t)' => item'[t].ptr = 0) /\ (ToMake(t)' => item'[t].t = 0 /\ item'[t].b = 0)
      BY <1>6, <1>7, <1>12, <3>1 DEF Loads
    <3>4. w \in TextureW => item'[t].file = "loaded"
      BY <1>1, <1>2, <1>6, <1>12 DEF Loads, At
    <3> QED BY <1>1, <1>4, <1>6, <1>7, <1>9, <1>10, <1>12, <3>2, <3>4, LoadsMoves
  <2>2. ASSUME t \in Shot PROVE (t \in Owned \/ Freeing(t)) /\ ~ Holds(ReleaseW, t, Freed)
    <3>1. w \in FileTexW /\ t \notin Bare
      BY <1>2, <1>3, <1>10, <2>2, TextureAssumption DEF KindInv, LoadW
    <3>2. th[w].seen > 0 /\ item[t].refs = th[w].seen
      BY <1>1, <1>2, <1>7, <1>12, <3>1 DEF Loads, At, Calm, Without
    <3>3. t \in Owned \/ Used(t)
      <4>1. Without(t, {"torn"}) /\ item[t].refs # 0
        BY <1>7, <1>12, <3>2 DEF Calm, Without
      <4> QED BY <4>1, CountZero
    <3>4. Holds(ReleaseW, t, Freed) => Freeing(t)
      BY DEF Holds, Freeing
    <3> QED BY <1>12, <2>2, <3>1, <3>3, <3>4 DEF Releases, Exclusive
  <2>3. Releases(t)'
    BY <1>1, <1>6, <1>9, <1>10, <1>12, <2>2, ReleasesAway
  <2> QED BY <1>6, <1>7, <1>8, <1>12, <2>1, <2>3, SameData
<1> QED
  <2>1. w \in FileW => th'[w].at \in {"idle"} \cup Leaving \cup Reading
    BY <1>4, TextureAssumption DEF Reading
  <2>3. \A u \in Tex \ {t} : item'[u] = item[u] /\ heap'[u] = heap[u] /\ faults'[u] = faults[u]
    BY <1>5, <1>7, <1>8
  <2>4. th[w].at # "idle" /\ item'[t].tex = item[t].tex
    BY <1>1, <1>6
  <2> HIDE DEF Inv
  <2> QED BY <1>3, <1>4, <1>7, <1>9, <1>10, <1>11, <1>12, <2>1, <2>3, <2>4, LoadStepGood

LEMMA ReleaseData ==
    ASSUME Inv, DataInv, NEW w \in LoadW, Release(w)
    PROVE  DataInv' /\ \A u \in Tex : Stays(u)
<1> USE Threads DEF Inv
<1>1. th[w].at \in {"dropping", "spared"}
  BY DEF Release, Leaves, At
<1>2. PICK t \in Tex : t = My(w)
  BY <1>1, HasItem
<1>3. t # None /\ w \in Thread /\ item \in [Tex -> ItemState] /\ item[t] \in ItemState
  BY TextureAssumption DEF TypeOK
<1>4. Others(w) /\ th'[w].tex = None /\ th'[w].at = "idle"
  BY <1>3, DoneMoves DEF Release
<1>5. (\A u \in Tex \ {t} : item'[u] = item[u]) /\ item'[t] = Dropped(w)
  BY <1>2, <1>3 DEF Release, Becomes
<1>6. /\ item'[t].ptr = item[t].ptr /\ item'[t].t = item[t].t /\ item'[t].b = item[t].b
      /\ item'[t].file = item[t].file /\ item'[t].tex = item[t].tex /\ item'[t].brush = item[t].brush
  BY <1>2, <1>3, <1>5 DEF Dropped, At, ItemState
<1>7. faults[t] \subseteq faults'[t] /\ \A u \in Tex \ {t} : faults'[u] = faults[u]
  BY <1>2 DEF Release, Blame, TypeOK
<1>8. UNCHANGED <<queued, owned>> /\ heap' = heap
  BY QueuesKept DEF Release
<1>9. LoadMove(w, t)
  BY <1>2, <1>4, <1>8 DEF LoadMove
<1>10. Good(t) /\ KindInv /\ Pointers(t)'
  BY <1>6, <1>7, <1>8, SameData DEF DataInv, Good
<1>11. ASSUME Exclusive(t) PROVE Exclusive(t)'
  <2>1. (ToRead(t)' => ToRead(t)) /\ (ToBrush(t)' => ToBrush(t))
    BY <1>9, Monotone
  <2>2. (ToRead(t)' => item'[t].file = "ready") /\ (ToBrush(t)' => item'[t].brush # "loaded")
    BY <1>6, <1>11, <2>1 DEF Exclusive
  <2> QED BY <1>3, <1>4, <1>9, <1>11, <2>2, ExclusiveMoves
<1>12. Stays(t)
  BY <1>6 DEF Stays
<1>13. ASSUME Exclusive(t), Loads(t), Releases(t), Shown(t), Kept(t)
       PROVE  Loads(t)' /\ Releases(t)' /\ Shown(t)' /\ Kept(t)'
  <2>1. Loads(t)'
    <3>1. (ToLoad(t)' => ToLoad(t)) /\ (ToMake(t)' => ToMake(t))
      BY <1>9, Monotone
    <3>2. "early" \notin faults'[t] =>
            (ToLoad(t)' => item'[t].ptr = 0) /\ (ToMake(t)' => item'[t].t = 0 /\ item'[t].b = 0)
      BY <1>6, <1>7, <1>13, <3>1 DEF Loads
    <3> QED BY <1>3, <1>4, <1>6, <1>7, <1>9, <1>10, <1>13, <3>2, LoadsMoves
  <2>2. Releases(t)'
    BY <1>1, <1>6, <1>9, <1>10, <1>13, ReleasesKept DEF UserAt
  <2> QED BY <1>6, <1>7, <1>8, <1>13, <2>1, <2>2, SameData
<1> QED
  <2>1. \A u \in Tex \ {t} : item'[u] = item[u] /\ heap'[u] = heap[u] /\ faults'[u] = faults[u]
    BY <1>5, <1>7, <1>8
  <2>2. th[w].at # "idle" /\ item'[t].tex = item[t].tex
    BY <1>1, <1>6
  <2> HIDE DEF Inv
  <2> QED BY <1>3, <1>4, <1>7, <1>9, <1>10, <1>11, <1>12, <1>13, <2>1, <2>2, LoadStepGood

-----------------------------------------------------------------------------
(* The steps of a load that fill the item.                                 *)

\* The step done, nobody is left who would do it, or one before it.
LEMMA After ==
    ASSUME KindInv, NEW t \in Tex, Exclusive(t), NEW w \in LoadW, LoadMove(w, t),
           th'[w].tex = t,
           \/ th[w].at = "loading" /\ th'[w].at \in {"making", "ending", "leave"}
           \/ th[w].at \in {"making", "brushing", "ending"}
              /\ th'[w].at \in {"brushing", "ending", "leave"}
    PROVE  /\ ~ ToRead(t)' /\ ~ ToLoad(t)'
           /\ th[w].at # "loading" => ~ ToMake(t)'
           /\ th[w].at # "loading" /\ th'[w].at # "brushing" => ~ ToBrush(t)'
<1> USE Threads
<1>1. /\ (Waits(fileQ, t)' <=> Waits(fileQ, t)) /\ (Waits(texQ, t)' <=> Waits(texQ, t))
      /\ (Waits(Handed, t)' <=> Waits(Handed, t))
  BY DEF LoadMove, Waits, queued
<1>2. /\ \A v \in LoadW \ {w} : th'[v] = th[v]
      /\ th'[Loader] = th[Loader] /\ th'[Screen] = th[Screen]
  BY DEF LoadMove, Others
<1>3. /\ ~ Asking(t) /\ ~ Waits(Handed, t)
      /\ \A v \in LoadW : My(v) = t /\ v # w =>
            (w \in FileW /\ v \in TextureW) \/ (w \in TextureW /\ v \in FileW)
      /\ w \in FileW \cup FileTexW => ~ Waits(fileQ, t)
      /\ w \in TextureW \cup FileTexW => ~ Waits(texQ, t)
      /\ w \in TextureW /\ ~ At(w, "held") =>
            /\ ~ ToRead(t)
            /\ \A v \in FileW : My(v) = t => th[v].at \in Leaving
  BY Solo DEF LoadMove
<1>4. FileW \cap (TextureW \cup FileTexW) = {} /\ TextureW \cap FileTexW = {}
      /\ LoadW = FileW \cup TextureW \cup FileTexW
  BY TextureAssumption DEF LoadW
<1>5. ~ Asking(t)' /\ ~ Readied(t)'
  BY <1>2, <1>3 DEF Asking, Readied, My
<1>6. /\ w \in FileW => th[w].at = "loading"
      /\ w \in TextureW => th[w].at # "loading" /\ ~ At(w, "held")
  BY DEF KindInv, Reading, At
<1>7. ~ Waits(fileQ, t)
  BY <1>3, <1>4, <1>6 DEF ToRead
<1>8. \A v \in FileW : My(v)' = t => th'[v].at \in Leaving \/ v = w
  BY <1>2, <1>3, <1>4, <1>6 DEF My
<1>9. /\ th'[w].at \notin Reading
      /\ th[w].at # "loading" => th'[w].at \notin Making
      /\ th'[w].at = "making" => th[w].at = "loading"
      /\ th'[w].at # "brushing" /\ th[w].at # "loading" => th'[w].at \notin Brushing
  BY DEF Reading, Making, Brushing
<1>10. ~ Holds(FileW, t, Reading)'
  BY <1>8, <1>9 DEF Holds, Reading
<1>11. \A v \in FileTexW : My(v)' = t => v = w
  BY <1>2, <1>3, <1>4 DEF My
<1>12. ~ Holds(FileTexW, t, Reading)'
  BY <1>9, <1>11 DEF Holds
<1>13. ~ ToRead(t)' /\ ~ ToLoad(t)'
  BY <1>1, <1>3, <1>5, <1>7, <1>10, <1>12 DEF ToRead, ToLoad, Asking, My
<1>14. ASSUME th[w].at # "loading"
       PROVE  /\ ~ ToMake(t)'
              /\ th'[w].at # "brushing" => ~ ToBrush(t)'
  <2>1. w \notin FileW /\ ~ Waits(texQ, t)
    BY <1>3, <1>4, <1>6, <1>14
  <2>2. \A v \in LoadW : My(v)' = t => v = w \/ th'[v].at \in Leaving
    BY <1>2, <1>3, <1>8, <2>1 DEF My
  <2>3. ~ Holds(LoadW, t, Making)' /\ (th'[w].at # "brushing" => ~ Holds(LoadW, t, Brushing)')
    BY <1>9, <1>14, <2>2 DEF Holds, Reading, Making, Brushing
  <2> QED BY <1>1, <1>3, <1>5, <1>7, <2>1, <2>3 DEF ToMake, ToBrush
<1> QED BY <1>13, <1>14

\* All that such a step has to show.
LEMMA MiddleGood ==
    ASSUME Inv, DataInv, NEW w \in LoadW, NEW t \in Tex, My(w) = t, Others(w), th'[w].tex = t,
           \/ /\ th[w].at = "loading" /\ w \notin TextureW
              /\ th'[w].at = (IF w \in FileW THEN "leave" ELSE "making")
                 \/ th'[w].at = (IF w \in FileW THEN "leave" ELSE "ending")
           \/ th[w].at = "making" /\ th'[w].at \in {"brushing", "ending"}
           \/ th[w].at = "brushing" /\ th'[w].at = "ending"
           \/ th[w].at = "ending" /\ th'[w].at = "leave",
           UNCHANGED <<queued, owned>>,
           \A u \in Tex \ {t} : item'[u] = item[u] /\ heap'[u] = heap[u] /\ faults'[u] = faults[u],
           faults[t] \subseteq faults'[t],
           item'[t].tex = "inactive" => item[t].tex = "inactive",
           th[w].at \in {"loading", "making"} => item'[t].brush \in {item[t].brush, "error"},
           th[w].at = "loading" => item'[t].t = item[t].t /\ item'[t].b = item[t].b,
           th[w].at = "ending" => item'[t].brush = item[t].brush /\ item'[t].b = item[t].b,
           Pointers(t)',
           Exclusive(t) /\ Calm(t)' /\ Loads(t) /\ Shown(t) /\ Kept(t) =>
               /\ Shown(t)' /\ Kept(t)'
               /\ th'[w].at = "brushing" =>
                     /\ item'[t].tex = "loaded"
                     /\ "early" \notin faults'[t] => item'[t].b = 0
               /\ th'[w].at = "making" => item'[t].file = "loaded" /\ th'[w].data = item'[t].ptr
    PROVE  DataInv' /\ \A u \in Tex : Stays(u)
<1> USE Threads
<1>1. t # None /\ KindInv /\ Good(t)
  BY TextureAssumption DEF DataInv
<1>2. LoadMove(w, t)
  BY DEF LoadMove, Reading, Making, Brushing
<1>3. th[w].at \in UserAt /\ th[w].at \notin {"idle", "held"} \cup Leaving
  BY DEF UserAt
<1>4. th'[w].at \in {"making", "brushing", "ending", "leave"}
  OBVIOUS
<1>5. ASSUME Exclusive(t)
      PROVE  /\ ~ ToRead(t)' /\ ~ ToLoad(t)'
             /\ th[w].at # "loading" => ~ ToMake(t)'
             /\ th[w].at # "loading" /\ th'[w].at # "brushing" => ~ ToBrush(t)'
             /\ th[w].at # "ending" => item[t].brush # "loaded"
  <2>1. th[w].at # "ending" => th[w].at \in Brushing
    BY DEF Brushing, Making, Reading
  <2>2. \/ th[w].at = "loading" /\ th'[w].at \in {"making", "ending", "leave"}
        \/ th[w].at \in {"making", "brushing", "ending"}
           /\ th'[w].at \in {"brushing", "ending", "leave"}
    OBVIOUS
  <2> QED BY <1>1, <1>2, <1>5, <2>1, <2>2, After, Solo
<1>6. ASSUME Exclusive(t) PROVE Exclusive(t)' /\ Stays(t)
  <2>1. ToBrush(t)' => item'[t].brush # "loaded"
    BY <1>5, <1>6
  <2>2. w \in TextureW => ~ ToRead(t)
    BY <1>1, <1>3, <1>6, Solo DEF At
  <2>3. Exclusive(t)'
    BY <1>2, <1>5, <1>6, <2>1, <2>2, ExclusiveMoves
  <2> QED BY <1>5, <1>6, <2>3 DEF Stays
<1>7. ASSUME Exclusive(t), Calm(t)', Loads(t), Releases(t), Shown(t), Kept(t)
      PROVE  Loads(t)' /\ Releases(t)' /\ Shown(t)' /\ Kept(t)'
  <2>1. Loads(t)'
    <3>1. "early" \notin faults'[t] /\ ToMake(t)' => item'[t].t = 0 /\ item'[t].b = 0
      BY <1>2, <1>5, <1>7, Monotone DEF Loads
    <3> QED BY <1>1, <1>2, <1>3, <1>4, <1>5, <1>7, <3>1, LoadsMoves
  <2>2. Releases(t)'
    BY <1>1, <1>2, <1>3, <1>7, ReleasesKept
  <2> QED BY <1>7, <2>1, <2>2
<1>8. w \in FileW => th'[w].at \in {"idle"} \cup Leaving \cup Reading
  BY <1>1 DEF KindInv, Reading
<1> QED BY <1>1, <1>2, <1>3, <1>4, <1>6, <1>7, <1>8, LoadStepGood

LEMMA LoadData ==
    ASSUME Inv, DataInv, NEW w \in LoadW, NEW size \in {0, 1}, Load(w, size)
    PROVE  DataInv' /\ \A u \in Tex : Stays(u)
<1> USE Threads DEF Inv
<1>1. th[w].at = "loading"
  BY DEF Load, At
<1>2. PICK t \in Tex : t = My(w)
  BY <1>1, HasItem
<1>3. /\ item \in [Tex -> ItemState] /\ item[t] \in ItemState /\ th[w] \in Local
      /\ KindInv /\ Good(t) /\ Pointers(t) /\ w \in Thread
  BY DEF TypeOK, DataInv, Good
<1>4. w \notin TextureW /\ t \notin Icon
  BY <1>1, <1>2, <1>3, TextureAssumption DEF KindInv, At, LoadW
<1>5. /\ heap'[t] = heap[t] \cup {New(t)}
      /\ \A u \in Tex \ {t} : heap'[u] = heap[u]
      /\ New(t) \in Nat /\ New(t) \notin heap[t] \cup {0}
      /\ New(t) \notin {item[t].ptr, item[t].t, item[t].b}
  BY <1>2, <1>3, NewIsNew DEF Load
<1>6. /\ Others(w) /\ th'[w].tex = t
      /\ th'[w].at = IF w \in FileW THEN "leave" ELSE IF size > 0 THEN "making" ELSE "ending"
      /\ th'[w].data = IF size > 0 THEN New(t) ELSE 0
  BY <1>2, <1>3 DEF Load, AfterLoad, TypeOK, Local, Others, My
<1>7. (\A u \in Tex \ {t} : item'[u] = item[u]) /\ item'[t] = SetFilePointer(item[t], New(t), size)
  BY <1>2, <1>3 DEF Load, Becomes
<1>8. /\ item'[t].ptr = New(t) /\ item'[t].t = item[t].t /\ item'[t].b = item[t].b
      /\ item'[t].file = (IF size = 1 THEN "loaded" ELSE "ready")
      /\ item'[t].tex = item[t].tex /\ item'[t].brush = item[t].brush
  BY <1>3, <1>5, <1>7, Fields
<1>9. faults[t] \subseteq faults'[t] /\ \A u \in Tex \ {t} : faults'[u] = faults[u]
  BY <1>2 DEF Load, Blame, TypeOK
<1>10. UNCHANGED <<queued, owned>>
  BY QueuesKept DEF Load
<1>11. Pointers(t)'
  BY <1>3, <1>4, <1>5, <1>8 DEF Pointers
<1>12. ASSUME Exclusive(t), Loads(t), Shown(t), Kept(t)
       PROVE  /\ Shown(t)' /\ Kept(t)'
              /\ th'[w].at = "making" => item'[t].file = "loaded" /\ th'[w].data = item'[t].ptr
  <2>1. ToLoad(t)
    BY <1>1, <1>2, <1>4 DEF ToLoad, ToRead, Holds, LoadW, Reading
  <2>2. 0 \notin heap[t]
    BY DEF TypeOK
  <2>3. "early" \notin faults'[t] => item[t].ptr = 0
    BY <1>9, <1>12, <2>1 DEF Loads
  <2>4. Kept(t)'
    BY <1>4, <1>5, <1>8, <1>9, <1>12, <2>2, <2>3 DEF Kept
  <2> QED BY <1>6, <1>8, <1>12, <2>4 DEF Shown
<1> HIDE DEF Inv
<1> QED BY <1>1, <1>2, <1>4, <1>5, <1>6, <1>7, <1>8, <1>9, <1>10, <1>11, <1>12, MiddleGood

LEMMA LoadFailsData ==
    ASSUME Inv, DataInv, NEW w \in LoadW, LoadFails(w)
    PROVE  DataInv' /\ \A u \in Tex : Stays(u)
<1> USE Threads DEF Inv
<1>1. th[w].at = "loading"
  BY DEF LoadFails, At
<1>2. PICK t \in Tex : t = My(w)
  BY <1>1, HasItem
<1>3. /\ item \in [Tex -> ItemState] /\ item[t] \in ItemState /\ th[w] \in Local
      /\ KindInv /\ Good(t) /\ Pointers(t) /\ w \in Thread
  BY DEF TypeOK, DataInv, Good
<1>4. w \notin TextureW /\ t \notin Icon
  BY <1>1, <1>2, <1>3, TextureAssumption DEF KindInv, At, LoadW
<1>6. /\ Others(w) /\ th'[w].tex = t
      /\ th'[w].at = IF w \in FileW THEN "leave" ELSE "ending"
  BY <1>2, <1>3 DEF LoadFails, AfterLoad, TypeOK, Local, Others, My
<1>7. /\ \A u \in Tex \ {t} : item'[u] = item[u]
      /\ item'[t] = [item[t] EXCEPT !.ptr = 0, !.file = "error", !.brush = "error"]
  BY <1>2, <1>3 DEF LoadFails, Becomes
<1>8. /\ item'[t].ptr = 0 /\ item'[t].t = item[t].t /\ item'[t].b = item[t].b
      /\ item'[t].file = "error" /\ item'[t].tex = item[t].tex /\ item'[t].brush = "error"
  BY <1>3, <1>7 DEF ItemState
<1>9. UNCHANGED <<queued, owned>> /\ heap' = heap /\ faults' = faults
  BY QueuesKept DEF LoadFails
<1>11. Pointers(t)'
  BY <1>3, <1>4, <1>8, <1>9 DEF Pointers
<1>12. ASSUME Exclusive(t), Loads(t), Kept(t) PROVE Shown(t)' /\ Kept(t)'
  <2>1. ToLoad(t)
    BY <1>1, <1>2, <1>4 DEF ToLoad, ToRead, Holds, LoadW, Reading
  <2>2. "early" \notin faults[t] => item[t].ptr = 0
    BY <1>12, <2>1 DEF Loads
  <2> QED BY <1>8, <1>9, <1>12, <2>2 DEF Shown, Kept
<1> HIDE DEF Inv
<1> QED BY <1>1, <1>2, <1>4, <1>6, <1>7, <1>8, <1>9, <1>11, <1>12, MiddleGood

LEMMA MakeData ==
    ASSUME Inv, DataInv, NEW w \in LoadW, Make(w)
    PROVE  DataInv' /\ \A u \in Tex : Stays(u)
<1> USE Threads DEF Inv
<1>1. th[w].at = "making"
  BY DEF Make, At
<1>2. PICK t \in Tex : t = My(w)
  BY <1>1, HasItem
<1>3. /\ item \in [Tex -> ItemState] /\ item[t] \in ItemState /\ th[w] \in Local
      /\ KindInv /\ Good(t) /\ Pointers(t) /\ w \in Thread /\ "brushing" \in Place
  BY DEF TypeOK, DataInv, Good, Place
<1>5. /\ heap'[t] = heap[t] \cup {New(t)}
      /\ \A u \in Tex \ {t} : heap'[u] = heap[u]
      /\ New(t) \in Nat /\ New(t) \notin heap[t] \cup {0} /\ (t \in Icon => New(t) # 1)
      /\ New(t) \notin {item[t].ptr, item[t].t, item[t].b}
  BY <1>2, <1>3, NewIsNew DEF Make
<1> DEFINE it == SetD3DTexture(item[t], New(t))
<1>6. /\ it.ptr = item[t].ptr /\ it.t = New(t) /\ it.b = item[t].b
      /\ it.file = item[t].file /\ it.tex = "loaded" /\ it.brush = item[t].brush
  BY <1>3, <1>5, Fields
<1>7. Becomes(t, it) /\ Goto(w, "brushing")
  BY <1>2 DEF Make
<1> HIDE DEF it
<1>8. Others(w) /\ th'[w].tex = t /\ th'[w].at = "brushing"
  BY <1>2, <1>3, <1>7, GotoMoves
<1>9. (\A u \in Tex \ {t} : item'[u] = item[u]) /\ item'[t] = it
  BY <1>3, <1>7 DEF Becomes
<1>10. UNCHANGED <<queued, owned>> /\ faults' = faults
  BY QueuesKept DEF Make
<1>11. Pointers(t)'
  BY <1>3, <1>5, <1>6, <1>9 DEF Pointers
<1>12. ASSUME Exclusive(t), Loads(t), Kept(t)
       PROVE  /\ Shown(t)' /\ Kept(t)' /\ item'[t].tex = "loaded"
              /\ "early" \notin faults'[t] => item'[t].b = 0
  <2>1. ToMake(t)
    BY <1>1, <1>2 DEF ToMake, Holds, Making
  <2>2. "early" \notin faults[t] => item[t].t = 0 /\ item[t].b = 0
    BY <1>12, <2>1 DEF Loads
  <2>3. 0 \notin heap[t]
    BY DEF TypeOK
  <2>4. item[t].brush # "loaded"
    BY <1>1, <1>2, <1>3, <1>12, Solo DEF Brushing, Making
  <2> QED BY <1>5, <1>6, <1>9, <1>10, <1>12, <2>2, <2>3, <2>4 DEF Shown, Kept
<1> HIDE DEF Inv
<1> QED BY <1>1, <1>2, <1>5, <1>6, <1>8, <1>9, <1>10, <1>11, <1>12, MiddleGood

LEMMA MakeFailsData ==
    ASSUME Inv, DataInv, NEW w \in LoadW, MakeFails(w)
    PROVE  DataInv' /\ \A u \in Tex : Stays(u)
<1> USE Threads DEF Inv
<1>1. th[w].at = "making"
  BY DEF MakeFails, At
<1>2. PICK t \in Tex : t = My(w)
  BY <1>1, HasItem
<1>3. /\ item \in [Tex -> ItemState] /\ item[t] \in ItemState /\ th[w] \in Local
      /\ KindInv /\ Good(t) /\ Pointers(t) /\ w \in Thread /\ {"brushing", "ending"} \subseteq Place
  BY DEF TypeOK, DataInv, Good, Place
<1> DEFINE it == IF w \in FileTexW THEN [item[t] EXCEPT !.file = "texerror"]
                 ELSE [SetD3DTexture(item[t], 0) EXCEPT !.file = "texerror", !.brush = "error"]
<1>4. Becomes(t, it) /\ AfterFailure(w, it)
  BY <1>2 DEF MakeFails
<1>5. /\ it.ptr = item[t].ptr /\ it.b = item[t].b
      /\ it.t \in {item[t].t, 0}
      /\ it.brush \in {item[t].brush, "error"}
      /\ (it.t = item[t].t /\ it.tex = item[t].tex) \/ (it.t = 0 /\ it.tex = "ready")
      /\ it.file = "texerror"
  <2>2. CASE w \in FileTexW
    <3>1. it = [item[t] EXCEPT !.file = "texerror"]
      BY <2>2
    <3> HIDE DEF it
    <3> QED BY <1>3, <2>2, <3>1 DEF ItemState
  <2>3. CASE w \notin FileTexW
    <3> DEFINE set == SetD3DTexture(item[t], 0)
    <3>1. /\ set \in ItemState
          /\ set.ptr = item[t].ptr /\ set.t = 0 /\ set.b = item[t].b
          /\ set.tex = "ready"
      <4>1. 0 \in Nat
        OBVIOUS
      <4> QED BY <1>3, <4>1 DEF SetD3DTexture, ItemState
    <3>2. it = [set EXCEPT !.file = "texerror", !.brush = "error"]
      BY <2>3
    <3> HIDE DEF it, set
    <3> QED BY <2>3, <3>1, <3>2 DEF ItemState
  <2> QED BY <2>2, <2>3
<1> HIDE DEF it
<1>6. (\A u \in Tex \ {t} : item'[u] = item[u]) /\ item'[t] = it
  BY <1>3, <1>4 DEF Becomes
<1>7. /\ Others(w) /\ th'[w].tex = t
      /\ th'[w].at = (IF it.tex = "loaded" THEN "brushing" ELSE "ending")
  BY <1>2, <1>3, <1>4, GotoMoves DEF AfterFailure
<1>8. UNCHANGED <<queued, owned>> /\ heap' = heap /\ faults' = faults
  BY QueuesKept DEF MakeFails
<1>9. Pointers(t)'
  BY <1>3, <1>5, <1>6, <1>8 DEF Pointers
<1>10. ASSUME Exclusive(t), Loads(t), Kept(t)
       PROVE  /\ Shown(t)' /\ Kept(t)'
              /\ th'[w].at = "brushing" => item'[t].tex = "loaded" /\ "early" \in faults'[t]
  <2>1. ToMake(t)
    BY <1>1, <1>2 DEF ToMake, Holds, Making
  <2>2. "early" \notin faults[t] => item[t].t = 0 /\ item[t].b = 0
    BY <1>10, <2>1 DEF Loads
  <2>3. "early" \notin faults[t] => item[t].tex # "loaded"
    BY <1>3, <2>2 DEF Pointers
  <2>4. item[t].brush # "loaded"
    BY <1>1, <1>2, <1>3, <1>10, Solo DEF Brushing, Making
  <2> QED BY <1>5, <1>6, <1>7, <1>8, <1>10, <2>2, <2>3, <2>4 DEF Shown, Kept
<1> HIDE DEF Inv
<1> QED BY <1>1, <1>2, <1>5, <1>6, <1>7, <1>8, <1>9, <1>10, MiddleGood

LEMMA MakeNothingData ==
    ASSUME Inv, DataInv, NEW w \in LoadW, MakeNothing(w)
    PROVE  DataInv' /\ \A u \in Tex : Stays(u)
<1> USE Threads DEF Inv
<1>1. th[w].at = "making" /\ item[My(w)].file # "loaded"
  BY DEF MakeNothing, At
<1>2. PICK t \in Tex : t = My(w)
  BY <1>1, HasItem
<1>3. /\ KindInv /\ Good(t) /\ Pointers(t) /\ w \in Thread /\ {"brushing", "ending"} \subseteq Place
  BY DEF DataInv, Good, Place
<1>4. Goto(w, "brushing") \/ Goto(w, "ending")
  BY DEF MakeNothing, AfterFailure
<1>5. Others(w) /\ th'[w].tex = t /\ th'[w].at \in {"brushing", "ending"}
  BY <1>2, <1>3, <1>4, GotoMoves
<1>6. UNCHANGED <<queued, owned>> /\ item' = item /\ heap' = heap /\ faults' = faults
  BY QueuesKept DEF MakeNothing, KeepItems
<1>7. Pointers(t)'
  BY <1>3, <1>6, SameData
<1>8. ~ Loads(t)
  BY <1>1, <1>2 DEF Loads, At
<1> HIDE DEF Inv
<1> QED BY <1>1, <1>2, <1>5, <1>6, <1>7, <1>8, MiddleGood

LEMMA AttachData ==
    ASSUME Inv, DataInv, NEW w \in LoadW, Attach(w)
    PROVE  DataInv' /\ \A u \in Tex : Stays(u)
<1> USE Threads DEF Inv
<1>1. th[w].at = "brushing"
  BY DEF Attach, At
<1>2. PICK t \in Tex : t = My(w)
  BY <1>1, HasItem
<1>3. /\ item \in [Tex -> ItemState] /\ item[t] \in ItemState
      /\ KindInv /\ Good(t) /\ Pointers(t) /\ w \in Thread /\ "ending" \in Place
  BY DEF TypeOK, DataInv, Good, Place
<1>4. /\ heap'[t] = heap[t] \cup {New(t)}
      /\ \A u \in Tex \ {t} : heap'[u] = heap[u]
      /\ New(t) \in Nat /\ New(t) \notin heap[t] \cup {0} /\ (t \in Icon => New(t) # 1)
      /\ New(t) \notin {item[t].ptr, item[t].t, item[t].b}
  BY <1>2, <1>3, NewIsNew DEF Attach
<1>5. Others(w) /\ th'[w].tex = t /\ th'[w].at = "ending"
  BY <1>2, <1>3, GotoMoves DEF Attach
<1>6. (\A u \in Tex \ {t} : item'[u] = item[u]) /\ item'[t] = SetTextureBrush(item[t], New(t))
  BY <1>2, <1>3 DEF Attach, Becomes
<1>7. /\ item'[t].ptr = item[t].ptr /\ item'[t].t = item[t].t /\ item'[t].b = New(t)
      /\ item'[t].file = item[t].file /\ item'[t].tex = item[t].tex /\ item'[t].brush = "loaded"
  BY <1>3, <1>4, <1>6, Fields
<1>8. UNCHANGED <<queued, owned>> /\ faults' = faults
  BY QueuesKept DEF Attach
<1>9. Pointers(t)'
  BY <1>3, <1>4, <1>7 DEF Pointers
<1>10. ASSUME Loads(t), Kept(t) PROVE Shown(t)' /\ Kept(t)'
  <2>1. ("early" \notin faults[t] => item[t].b = 0) /\ item[t].t # 0
    BY <1>1, <1>2, <1>3, <1>10 DEF Loads, Pointers, At
  <2>2. 0 \notin heap[t]
    BY DEF TypeOK
  <2> QED BY <1>4, <1>7, <1>8, <1>10, <2>1, <2>2 DEF Shown, Kept
<1> HIDE DEF Inv
<1> QED BY <1>1, <1>2, <1>4, <1>5, <1>6, <1>7, <1>8, <1>9, <1>10, MiddleGood

LEMMA AttachFailsData ==
    ASSUME Inv, DataInv, NEW w \in LoadW, AttachFails(w)
    PROVE  DataInv' /\ \A u \in Tex : Stays(u)
<1> USE Threads DEF Inv
<1>1. th[w].at = "brushing"
  BY DEF AttachFails, At
<1>2. PICK t \in Tex : t = My(w)
  BY <1>1, HasItem
<1>3. /\ item \in [Tex -> ItemState] /\ item[t] \in ItemState
      /\ KindInv /\ Good(t) /\ Pointers(t) /\ w \in Thread /\ "ending" \in Place
  BY DEF TypeOK, DataInv, Good, Place
<1>5. Others(w) /\ th'[w].tex = t /\ th'[w].at = "ending"
  BY <1>2, <1>3, GotoMoves DEF AttachFails
<1>6. /\ \A u \in Tex \ {t} : item'[u] = item[u]
      /\ item'[t] = [item[t] EXCEPT !.ptr = IF w \in TextureW THEN 0 ELSE @, !.file = "brusherror"]
  BY <1>2, <1>3 DEF AttachFails, Becomes
<1>7. /\ item'[t].ptr \in {item[t].ptr, 0} /\ item'[t].t = item[t].t /\ item'[t].b = item[t].b
      /\ item'[t].file = "brusherror" /\ item'[t].tex = item[t].tex
      /\ item'[t].brush = item[t].brush
  BY <1>3, <1>6 DEF ItemState
<1>8. UNCHANGED <<queued, owned>> /\ heap' = heap
  BY QueuesKept DEF AttachFails
<1>9. /\ faults[t] \subseteq faults'[t] /\ \A u \in Tex \ {t} : faults'[u] = faults[u]
      /\ "brush" \in faults'[t]
  BY <1>2 DEF AttachFails, Blame, TypeOK
<1>10. Pointers(t)'
  BY <1>3, <1>7, <1>8 DEF Pointers
<1>11. Kept(t)'
  BY <1>9 DEF Kept
<1>12. Shown(t) => Shown(t)'
  BY <1>7 DEF Shown
<1> HIDE DEF Inv
<1> QED BY <1>1, <1>2, <1>5, <1>6, <1>7, <1>8, <1>9, <1>10, <1>11, <1>12, MiddleGood

LEMMA FreeDataData ==
    ASSUME Inv, DataInv, NEW w \in LoadW, FreeData(w)
    PROVE  DataInv' /\ \A u \in Tex : Stays(u)
<1> USE Threads DEF Inv
<1>1. th[w].at = "ending"
  BY DEF FreeData, At
<1>2. PICK t \in Tex : t = My(w)
  BY <1>1, HasItem
<1>3. /\ item \in [Tex -> ItemState] /\ item[t] \in ItemState
      /\ KindInv /\ Good(t) /\ Pointers(t) /\ w \in Thread /\ "leave" \in Place
      /\ 0 \notin heap[t]
  BY DEF TypeOK, DataInv, Good, Place
<1>4. heap'[t] = heap[t] \ FreedFile(t) /\ \A u \in Tex \ {t} : heap'[u] = heap[u]
  BY <1>2, FreeFrees DEF FreeData
<1>5. Others(w) /\ th'[w].tex = t /\ th'[w].at = "leave"
  BY <1>2, <1>3, GotoMoves DEF FreeData
<1>6. (\A u \in Tex \ {t} : item'[u] = item[u]) /\ item'[t] = ReleaseFilePointer(item[t])
  BY <1>2, <1>3 DEF FreeData, Becomes
<1>7. /\ item'[t].ptr = 0 /\ item'[t].t = item[t].t /\ item'[t].b = item[t].b
      /\ item'[t].file = "ready" /\ item'[t].tex = item[t].tex /\ item'[t].brush = item[t].brush
  BY <1>3, <1>6, Fields
<1>8. UNCHANGED <<queued, owned>> /\ faults' = faults
  BY QueuesKept DEF FreeData
<1>9. Pointers(t)'
  BY <1>3, <1>4, <1>7 DEF Pointers, FreedFile
<1>10. ASSUME Shown(t), Kept(t) PROVE Shown(t)' /\ Kept(t)'
  BY <1>3, <1>4, <1>7, <1>8, <1>10 DEF Shown, Kept, FreedFile, Pointers
<1> HIDE DEF Inv
<1> QED BY <1>1, <1>2, <1>4, <1>5, <1>6, <1>7, <1>8, <1>9, <1>10, MiddleGood

LEMMA WorkData ==
    ASSUME Inv, DataInv, NEW w \in LoadW, Work(w)
    PROVE  DataInv' /\ \A u \in Tex : Stays(u)
BY AddRefData, ReleaseData, LoadData, LoadFailsData, MakeData, MakeFailsData, MakeNothingData,
   AttachData, AttachFailsData, FreeDataData DEF Work

-----------------------------------------------------------------------------
(* A ReleaseWorker goes on.                                                *)

\* All that its step has to show: it only takes away, and what is left of what
\* it comes to, or is done with, is nothing.
LEMMA FreeingStepGood ==
    ASSUME Inv, DataInv, NEW t \in Tex, NEW w \in ReleaseW, My(w) = t, th[w].at # "idle", Others(w),
           UNCHANGED <<queued, owned, faults>>,
           \/ th'[w].tex = t /\ th'[w].at \in Freed
           \/ th'[w].tex = None /\ th'[w].at = "idle" /\ th[w].at = "file",
           \A u \in Tex \ {t} : item'[u] = item[u] /\ heap'[u] = heap[u],
           item'[t].ptr \in {item[t].ptr, 0}, item'[t].t \in {item[t].t, 0},
           item'[t].b \in {item[t].b, 0},
           item'[t].file \in {item[t].file, "ready"}, item'[t].brush \in {item[t].brush, "ready"},
           Pointers(t)',
           Calm(t) /\ Exclusive(t) /\ Releases(t) /\ Shown(t) /\ Kept(t) =>
               /\ Shown(t)' /\ Kept(t)'
               /\ t \notin Bare => ~ Used(t)
               /\ th'[w].at = "texture" => item'[t].b = 0 /\ item'[t].brush # "loaded"
               /\ th'[w].at = "file" =>
                     item'[t].b = 0 /\ item'[t].t = 0 /\ item'[t].brush # "loaded"
               /\ th'[w].at = "idle" => None3(item'[t])
    PROVE  DataInv' /\ \A u \in Tex : Stays(u)
<1> USE Threads DEF Inv
<1>1. /\ t \in Shot /\ t # None /\ t \notin Art \cup Icon /\ KindInv /\ Good(t) /\ w \in Thread
      /\ FileW \cup TextureW \cup FileTexW = LoadW
  BY TextureAssumption DEF WorkerInv, At, DataInv, LoadW
<1>2. /\ \A v \in LoadW \cup {Loader} : th'[v] = th[v]
      /\ th'[Screen] = th[Screen]
      /\ \A v \in ReleaseW \ {w} : th'[v] = th[v]
  BY DEF Others
<1>3. My(Loader) # t
  BY <1>1, <1>2 DEF LoaderInv, KindInv, At
<1>4. \A v \in LoadW : My(v) = t => v \in FileTexW /\ t \notin Bare
  BY <1>1 DEF KindInv
<1>5. /\ (Waits(fileQ, t)' <=> Waits(fileQ, t)) /\ (Waits(texQ, t)' <=> Waits(texQ, t))
      /\ (Waits(Handed, t)' <=> Waits(Handed, t)) /\ (Waits(relQ, t)' <=> Waits(relQ, t))
      /\ (Once(fileQ, t)' <=> Once(fileQ, t)) /\ (Once(texQ, t)' <=> Once(texQ, t))
      /\ (Once(Handed, t)' <=> Once(Handed, t))
  BY DEF Waits, Once, queued
<1>6. \A v \in LoadW : My(v)' = My(v)
  BY <1>2 DEF My
<1>7. /\ Asking(t)' <=> Asking(t)
      /\ Readied(t)' <=> Readied(t)
      /\ FirstLoad(t)' <=> FirstLoad(t)
      /\ Reload(t)' <=> Reload(t)
  BY <1>1, <1>2, <1>5, <1>6 DEF Asking, Readied, FirstLoad, Reload, My
<1>8. Freeing(t)' => Freeing(t)
  BY DEF Freeing
<1>9. /\ Holds(FileW, t, Reading)' <=> Holds(FileW, t, Reading)
      /\ Holds(FileTexW, t, Reading)' <=> Holds(FileTexW, t, Reading)
      /\ Holds(LoadW, t, Making)' <=> Holds(LoadW, t, Making)
      /\ Holds(LoadW, t, Brushing)' <=> Holds(LoadW, t, Brushing)
      /\ Used(t)' <=> Used(t)
  BY <1>1, <1>2, <1>6 DEF Holds, Used
<1>10. (ToRead(t)' <=> ToRead(t)) /\ (ToBrush(t)' <=> ToBrush(t))
       /\ (ToLoad(t)' <=> ToLoad(t)) /\ (ToMake(t)' <=> ToMake(t))
  BY <1>2, <1>5, <1>7, <1>9 DEF ToRead, ToBrush, ToLoad, ToMake, My
<1>16. Owned' = Owned /\ Listed(t)'
  BY <1>1 DEF Owned, Listed
<1>11. ASSUME Exclusive(t) PROVE Exclusive(t)' /\ Stays(t)
  <2>1. Freeing(t)
    BY DEF Freeing
  <2>2. Alone(fileQ, FileW, t)' /\ Alone(texQ, TextureW, t)' /\ Alone(Handed, FileTexW, t)'
    BY <1>1, <1>5, <1>6, <1>11 DEF Exclusive, Alone
  <2>3. (\A v \in TextureW : My(v) = t => At(v, "held"))
        => (\A v \in TextureW : My(v) = t => At(v, "held"))'
    BY <1>1, <1>2, <1>6 DEF At
  <2>4. Exclusive(t)'
    BY <1>7, <1>8, <1>10, <1>11, <2>2, <2>3, <1>16 DEF Exclusive
  <2> QED BY <1>11, <2>1, <2>4 DEF Exclusive, Stays
<1>12. ASSUME Calm(t), Exclusive(t), Loads(t), Releases(t), Shown(t), Kept(t)
       PROVE  Loads(t)' /\ Releases(t)' /\ Shown(t)' /\ Kept(t)'
  <2>1. ~ Used(t)
    BY <1>4, <1>12 DEF Used, Holds
  <2>2. Loads(t)'
    <3>1. ASSUME NEW v \in LoadW, My(v)' = t
          PROVE  /\ v \in FileTexW /\ v \notin TextureW /\ th'[v] = th[v] /\ My(v) = t
                 /\ ~ At(v, "brushing") /\ ~ At(v, "making")
      BY <1>2, <1>4, <1>6, <2>1, <3>1, TextureAssumption DEF Used, Holds, UserAt, At
    <3> QED BY <1>10, <1>12, <3>1 DEF Loads, At
  <2>3. Releases(t)'
    <3>1. ASSUME NEW v \in ReleaseW \cup {Loader}, My(v)' = t
          PROVE  /\ At(v, "texture")' => item'[t].b = 0 /\ item'[t].brush # "loaded"
                 /\ At(v, "file")' => item'[t].b = 0 /\ item'[t].t = 0 /\ item'[t].brush # "loaded"
      <4>1. CASE v = w
        BY <1>12, <4>1 DEF At
      <4>2. CASE v # w
        <5>1. th'[v] = th[v] /\ My(v) = t
          BY <1>2, <3>1, <4>2 DEF My
        <5>2. /\ At(v, "texture") => item[t].b = 0 /\ item[t].brush # "loaded"
              /\ At(v, "file") => item[t].b = 0 /\ item[t].t = 0 /\ item[t].brush # "loaded"
          BY <1>12, <5>1 DEF Releases
        <5> QED BY <5>1, <5>2 DEF At
      <4> QED BY <4>1, <4>2
    <3>2. ~ Freeing(t)' => th'[w].at = "idle"
      BY DEF Freeing, My
    <3>3. t \in Bare => None3(item'[t]) /\ item'[t].brush # "loaded"
      BY <1>12 DEF Releases, None3
    <3> QED BY <1>1, <1>9, <1>12, <1>16, <2>1, <3>1, <3>2, <3>3 DEF Releases
  <2> QED BY <1>12, <2>2, <2>3
<1>13. KindInv'
  <2>1. w \notin FileW \cup TextureW \cup FileTexW
    BY <1>1
  <2> QED BY <1>1, <2>1, KindMoves DEF Freed
<1>14. \A u \in Tex \ {t} : Untouched(u)
  <2>1. UNCHANGED <<fileQ, texQ, Handed, relQ, owned, faults>> /\ th'[w].tex \in {t, None}
    BY DEF queued
  <2> QED BY <1>1, <2>1, SameItself, OnlyOne
<1>15. Good(t)' /\ Stays(t)
  <2>1. (Without(t, {"overlap"})' <=> Without(t, {"overlap"})) /\ (Calm(t)' <=> Calm(t))
        /\ (Calm(t) => Without(t, {"overlap"}))
    BY DEF Without, Calm
  <2>2. Stays(t)
    <3>1. CASE Exclusive(t)
      BY <1>11, <3>1
    <3>2. CASE ~ Exclusive(t)
      BY <1>1, <3>2 DEF Good, Stays
    <3> QED BY <3>1, <3>2
  <2> QED BY <1>1, <1>11, <1>12, <1>16, <2>1, <2>2 DEF Good
<1> QED BY <1>13, <1>14, <1>15, OneItem

LEMMA StartReleaseData ==
    ASSUME Inv, DataInv, NEW w \in ReleaseW, Start(w)
    PROVE  DataInv' /\ \A u \in Tex : Stays(u)
<1> USE Threads DEF Inv
<1>1. StartRelease(w)
  BY DEF Start, StartFile, StartTexture, DropTexture, StartFileTex, LoadW
<1>2. th[w].at = "held" /\ item[My(w)].refs <= 0 /\ Goto(w, "brush") /\ KeepItems
  BY <1>1 DEF StartRelease, At
<1>3. PICK t \in Tex : t = My(w)
  BY <1>2 DEF WorkerInv, At, Tex
<1>4. w \in Thread /\ "brush" \in Place /\ Good(t) /\ Pointers(t)
  BY DEF Place, DataInv, Good
<1>5. Others(w) /\ th'[w].tex = t /\ th'[w].at = "brush"
  BY <1>2, <1>3, <1>4, GotoMoves
<1>6. UNCHANGED <<queued, owned, faults>> /\ item' = item /\ heap' = heap
  BY <1>2, QueuesKept DEF KeepItems
<1>7. Pointers(t)' /\ (Shown(t) => Shown(t)') /\ (Kept(t) => Kept(t)')
  BY <1>4, <1>6 DEF Pointers, Shown, Kept
<1>8. Calm(t) => ~ Used(t)
  BY <1>2, <1>3, CountZero DEF Calm, Without
<1>9. "brush" \in Freed
  BY DEF Freed
<1> HIDE DEF Inv
<1> QED BY <1>2, <1>3, <1>5, <1>6, <1>7, <1>8, <1>9, FreeingStepGood

\* What is freed by a ReleaseWorker is counted in by nobody.
LEMMA FreedUncounted ==
    ASSUME Inv, KindInv, NEW t \in Tex, NEW w \in ReleaseW, My(w) = t, th[w].at \in Freed,
           Calm(t), Exclusive(t), Releases(t)
    PROVE  /\ t \notin Bare => ~ Used(t) /\ item[t].refs = 0
           /\ t \in Bare => None3(item[t]) /\ item[t].brush # "loaded"
<1>1. ASSUME t \notin Bare PROVE ~ Used(t) /\ item[t].refs = 0
  <2>1. Freeing(t) /\ Holds(ReleaseW, t, Freed)
    BY DEF Freeing, Holds
  <2>2. ~ Used(t) /\ t \notin Owned
    BY <1>1, <2>1 DEF Releases, Exclusive
  <2>3. Without(t, {"torn"})
    BY DEF Calm, Without
  <2> QED BY <2>2, <2>3, CountZero
<1> QED BY <1>1 DEF Releases

LEMMA FreeBrushData ==
    ASSUME Inv, DataInv, NEW w \in ReleaseW, ReleaseAllBrush(w)
    PROVE  DataInv' /\ \A u \in Tex : Stays(u)
<1> USE Threads DEF Inv
<1>1. th[w].at = "brush"
  BY DEF ReleaseAllBrush, At
<1>2. PICK t \in Shot : t = My(w)
  BY <1>1 DEF WorkerInv, At
<1>3. /\ w \in Thread /\ "texture" \in Place /\ t \in Tex /\ Good(t) /\ Pointers(t) /\ KindInv
      /\ item \in [Tex -> ItemState] /\ item[t] \in ItemState /\ 0 \notin heap[t] /\ t \notin Icon
  BY TextureAssumption DEF Place, DataInv, Good, Tex, TypeOK
<1>4. Others(w) /\ th'[w].tex = t /\ th'[w].at = "texture"
  BY <1>2, <1>3, GotoMoves DEF ReleaseAllBrush
<1>5. heap'[t] = heap[t] \ FreedBrush(item[t]) /\ \A u \in Tex \ {t} : heap'[u] = heap[u]
  BY <1>2, <1>3, FreeFrees DEF ReleaseAllBrush
<1>6. (\A u \in Tex \ {t} : item'[u] = item[u]) /\ item'[t] = ReleaseBrush(item[t])
  BY <1>2, <1>3 DEF ReleaseAllBrush, Becomes
<1>7. /\ item'[t].ptr = item[t].ptr /\ item'[t].t = item[t].t /\ item'[t].b = 0
      /\ item'[t].file = item[t].file /\ item'[t].tex = item[t].tex /\ item'[t].brush = "ready"
  BY <1>3, <1>6, Fields
<1>8. UNCHANGED <<queued, owned, faults>>
  BY QueuesKept DEF ReleaseAllBrush
<1>9. Pointers(t)'
  BY <1>3, <1>5, <1>7 DEF Pointers, FreedBrush
<1>10. ASSUME Calm(t), Exclusive(t), Releases(t), Shown(t), Kept(t)
       PROVE  Shown(t)' /\ Kept(t)' /\ (t \notin Bare => ~ Used(t))
  <2>1. /\ t \notin Bare => ~ Used(t) /\ item[t].refs = 0
        /\ t \in Bare => item[t].b = 0
    BY <1>1, <1>2, <1>3, <1>10, FreedUncounted DEF Freed, None3
  <2> QED BY <1>3, <1>5, <1>7, <1>8, <1>10, <2>1 DEF Shown, Kept, FreedBrush
<1>11. th'[w].at \in Freed
  BY <1>4 DEF Freed
<1> HIDE DEF Inv
<1> QED BY <1>1, <1>2, <1>3, <1>4, <1>5, <1>6, <1>7, <1>8, <1>9, <1>10, <1>11, FreeingStepGood

LEMMA FreeTextureData ==
    ASSUME Inv, DataInv, NEW w \in ReleaseW, ReleaseAllTexture(w)
    PROVE  DataInv' /\ \A u \in Tex : Stays(u)
<1> USE Threads DEF Inv
<1>1. th[w].at = "texture"
  BY DEF ReleaseAllTexture, At
<1>2. PICK t \in Shot : t = My(w)
  BY <1>1 DEF WorkerInv, At
<1>3. /\ w \in Thread /\ "file" \in Place /\ t \in Tex /\ Good(t) /\ Pointers(t) /\ KindInv
      /\ item \in [Tex -> ItemState] /\ item[t] \in ItemState /\ 0 \notin heap[t] /\ t \notin Icon
  BY TextureAssumption DEF Place, DataInv, Good, Tex, TypeOK
<1>4. Others(w) /\ th'[w].tex = t /\ th'[w].at = "file"
  BY <1>2, <1>3, GotoMoves DEF ReleaseAllTexture
<1>5. heap'[t] = heap[t] \ FreedTexture(item[t]) /\ \A u \in Tex \ {t} : heap'[u] = heap[u]
  BY <1>2, <1>3, FreeFrees DEF ReleaseAllTexture
<1>6. (\A u \in Tex \ {t} : item'[u] = item[u]) /\ item'[t] = ReleaseTexture(item[t])
  BY <1>2, <1>3 DEF ReleaseAllTexture, Becomes
<1>7. /\ item'[t].ptr = item[t].ptr /\ item'[t].t = 0 /\ item'[t].b = item[t].b
      /\ item'[t].file = item[t].file /\ item'[t].tex = "ready"
      /\ item'[t].brush = item[t].brush
  BY <1>3, <1>6, Fields
<1>8. UNCHANGED <<queued, owned, faults>>
  BY QueuesKept DEF ReleaseAllTexture
<1>9. Pointers(t)'
  BY <1>3, <1>5, <1>7 DEF Pointers, FreedTexture
<1>10. ASSUME Calm(t), Exclusive(t), Releases(t), Shown(t), Kept(t)
       PROVE  /\ Shown(t)' /\ Kept(t)' /\ (t \notin Bare => ~ Used(t))
              /\ item'[t].b = 0 /\ item'[t].brush # "loaded"
  <2>1. /\ t \notin Bare => ~ Used(t) /\ item[t].refs = 0
        /\ t \in Bare => item[t].t = 0
    BY <1>1, <1>2, <1>3, <1>10, FreedUncounted DEF Freed, None3
  <2>2. item[t].b = 0 /\ item[t].brush # "loaded"
    BY <1>1, <1>2, <1>10 DEF Releases, At
  <2> QED BY <1>3, <1>5, <1>7, <1>8, <1>10, <2>1, <2>2 DEF Shown, Kept, FreedTexture
<1>11. th'[w].at \in Freed
  BY <1>4 DEF Freed
<1> HIDE DEF Inv
<1> QED BY <1>1, <1>2, <1>3, <1>4, <1>5, <1>6, <1>7, <1>8, <1>9, <1>10, <1>11, FreeingStepGood

LEMMA FreeFileData ==
    ASSUME Inv, DataInv, NEW w \in ReleaseW, NEW size \in {0, 1}, ReleaseAllFile(w, size)
    PROVE  DataInv' /\ \A u \in Tex : Stays(u)
<1> USE Threads DEF Inv
<1>1. th[w].at = "file" /\ w # Loader
  BY DEF ReleaseAllFile, At
<1>2. PICK t \in Shot : t = My(w)
  BY <1>1 DEF WorkerInv, At
<1>3. /\ w \in Thread /\ t \in Tex /\ Good(t) /\ Pointers(t) /\ KindInv
      /\ item \in [Tex -> ItemState] /\ item[t] \in ItemState /\ 0 \notin heap[t] /\ t \notin Icon
  BY TextureAssumption DEF DataInv, Good, Tex, TypeOK
<1>4. Others(w) /\ th'[w].tex = None /\ th'[w].at = "idle"
  BY <1>1, <1>3, DoneMoves DEF ReleaseAllFile
<1>5. heap'[t] = heap[t] \ FreedFile(t) /\ \A u \in Tex \ {t} : heap'[u] = heap[u]
  BY <1>2, <1>3, FreeFrees DEF ReleaseAllFile
<1>6. (\A u \in Tex \ {t} : item'[u] = item[u]) /\ item'[t] = ReleaseFilePointer(item[t])
  BY <1>1, <1>2, <1>3 DEF ReleaseAllFile, Becomes
<1>7. /\ item'[t].ptr = 0 /\ item'[t].t = item[t].t /\ item'[t].b = item[t].b
      /\ item'[t].file = "ready" /\ item'[t].tex = item[t].tex
      /\ item'[t].brush = item[t].brush
  BY <1>3, <1>6, Fields
<1>8. UNCHANGED <<queued, owned, faults>>
  BY <1>1, <1>2, <1>3, QueuesKept DEF ReleaseAllFile
<1>9. Pointers(t)'
  BY <1>3, <1>5, <1>7 DEF Pointers, FreedFile
<1>10. ASSUME Calm(t), Exclusive(t), Releases(t), Shown(t), Kept(t)
       PROVE  Shown(t)' /\ Kept(t)' /\ (t \notin Bare => ~ Used(t)) /\ None3(item'[t])
  <2>1. t \notin Bare => ~ Used(t)
    BY <1>1, <1>2, <1>3, <1>10, FreedUncounted DEF Freed
  <2>2. item[t].b = 0 /\ item[t].t = 0 /\ item[t].brush # "loaded"
    BY <1>1, <1>2, <1>10 DEF Releases, At
  <2> QED BY <1>3, <1>5, <1>7, <1>8, <1>10, <2>1, <2>2 DEF Shown, Kept, FreedFile, None3
<1> HIDE DEF Inv
<1> QED BY <1>1, <1>2, <1>3, <1>4, <1>5, <1>6, <1>7, <1>8, <1>9, <1>10, FreeingStepGood

-----------------------------------------------------------------------------
(* The dispatchers.                                                        *)

\* What is queued goes to one worker of the queue, or is passed over.
LEMMA DispatchGood ==
    ASSUME Inv, DataInv, NEW w \in LoadW, NEW t \in Tex, th[w].at = "idle", Others(w),
           th'[w].at = "held", th'[w].tex = t,
           UNCHANGED <<item, heap, relQ, owned, faults>>,
           \A u \in Tex \ {t} : /\ Same(fileQ, fileQ', u) /\ Same(texQ, texQ', u)
                                /\ Same(Handed, Handed', u),
           \/ w \in FileW /\ t \in Art /\ Loses(fileQ, fileQ', t) /\ UNCHANGED <<texQ, Handed>>
           \/ w \in TextureW /\ t \in Art \cup Icon /\ Loses(texQ, texQ', t)
              /\ UNCHANGED <<fileQ, Handed>>
           \/ w \in FileTexW /\ t \in Art \cup (Shot \ Bare) /\ Loses(Handed, Handed', t)
              /\ UNCHANGED <<fileQ, texQ>>
    PROVE  DataInv' /\ \A u \in Tex : Stays(u)
<1> USE Threads
<1>1. /\ t # None /\ KindInv /\ Good(t) /\ w \in Thread /\ My(w) = None
      /\ LoadW = FileW \cup TextureW \cup FileTexW
      /\ FileW \cap (TextureW \cup FileTexW) = {} /\ TextureW \cap FileTexW = {}
  BY TextureAssumption DEF DataInv, LoadW, KindInv, At
<1>2. /\ \A v \in LoadW \ {w} : th'[v] = th[v]
      /\ \A v \in ReleaseW \cup {Loader, Screen} : th'[v] = th[v]
      /\ th'[w].tex = t /\ th'[w].at = "held"
  BY <1>1 DEF Others, My
<1>3. /\ Waits(fileQ, t)' => Waits(fileQ, t)
      /\ Waits(texQ, t)' => Waits(texQ, t)
      /\ Waits(Handed, t)' => Waits(Handed, t)
      /\ Waits(relQ, t)' <=> Waits(relQ, t)
      /\ Once(fileQ, t) => Once(fileQ, t)'
      /\ Once(texQ, t) => Once(texQ, t)'
      /\ Once(Handed, t) => Once(Handed, t)'
      /\ w \in FileW => Waits(fileQ, t) /\ (Once(fileQ, t) => ~ Waits(fileQ, t)')
      /\ w \in TextureW => Waits(texQ, t) /\ (Once(texQ, t) => ~ Waits(texQ, t)')
      /\ w \in FileTexW => Waits(Handed, t) /\ (Once(Handed, t) => ~ Waits(Handed, t)')
  BY <1>1 DEF Loses, Waits, Once
<1>4. /\ Asking(t)' <=> Asking(t)
      /\ Readied(t)' <=> Readied(t)
      /\ Freeing(t)' <=> Freeing(t)
      /\ Holds(ReleaseW, t, Freed)' <=> Holds(ReleaseW, t, Freed)
  BY <1>2, <1>3 DEF Asking, Readied, Freeing, Holds, My
<1>5. \A v \in LoadW : My(v)' = t => v = w \/ My(v) = t
  BY <1>2 DEF My
<1>6. /\ FirstLoad(t)' => FirstLoad(t)
      /\ Reload(t)' => Reload(t)
  BY <1>1, <1>3, <1>5 DEF FirstLoad, Reload
<1>7. /\ Holds(FileW, t, Reading)' => Holds(FileW, t, Reading) \/ w \in FileW
      /\ Holds(FileTexW, t, Reading)' => Holds(FileTexW, t, Reading) \/ w \in FileTexW
      /\ Holds(LoadW, t, Making)' => Holds(LoadW, t, Making) \/ w \in LoadW
      /\ Holds(LoadW, t, Brushing)' => Holds(LoadW, t, Brushing) \/ w \in LoadW
  BY <1>1, <1>2, <1>5 DEF Holds
<1>8. Used(t)' <=> Used(t)
  BY <1>1, <1>2, <1>5 DEF Used, Holds, UserAt, My
<1>9. (ToRead(t)' => ToRead(t)) /\ (ToBrush(t)' => ToBrush(t))
  BY <1>1, <1>2, <1>3, <1>4, <1>7 DEF ToRead, ToBrush, My
<1>10. (ToLoad(t)' => ToLoad(t)) /\ (ToMake(t)' => ToMake(t))
  BY <1>1, <1>3, <1>4, <1>7, <1>9 DEF ToLoad, ToMake
<1>11. ASSUME Exclusive(t) PROVE Exclusive(t)'
  <2>1. Alone(fileQ, FileW, t)'
    BY <1>1, <1>3, <1>5, <1>11 DEF Exclusive, Alone
  <2>2. Alone(texQ, TextureW, t)'
    BY <1>1, <1>3, <1>5, <1>11 DEF Exclusive, Alone
  <2>3. Alone(Handed, FileTexW, t)'
    BY <1>1, <1>3, <1>5, <1>11 DEF Exclusive, Alone
  <2>4. ToRead(t)' => item'[t].file = "ready" /\ \A v \in TextureW : My(v)' = t => At(v, "held")'
    <3> SUFFICES ASSUME ToRead(t)'
                 PROVE  item'[t].file = "ready" /\ \A v \in TextureW : My(v)' = t => At(v, "held")'
      OBVIOUS
    <3>1. item[t].file = "ready" /\ \A v \in TextureW : My(v) = t => At(v, "held")
      BY <1>9, <1>11 DEF Exclusive
    <3> QED BY <1>1, <1>2, <1>5, <3>1 DEF At, My
  <2> QED BY <1>4, <1>6, <1>9, <1>11, <2>1, <2>2, <2>3, <2>4 DEF Exclusive, Owned
<1>12. ASSUME Loads(t), Releases(t), Shown(t), Kept(t)
       PROVE  Loads(t)' /\ Releases(t)' /\ Shown(t)' /\ Kept(t)'
  <2>1. Loads(t)'
    <3>1. \A v \in LoadW : My(v)' = t => th'[v].at = "held" \/ (th'[v] = th[v] /\ My(v) = t)
      BY <1>2, <1>5 DEF My
    <3> QED BY <1>10, <1>12, <3>1 DEF Loads, At
  <2>2. Releases(t)'
    BY <1>2, <1>4, <1>8, <1>12 DEF Releases, At, My, Owned
  <2> QED BY <1>12, <2>1, <2>2 DEF Shown, Kept
<1>13. KindInv'
  <2>1. th'[w].at = "idle" <=> th'[w].tex = None
    BY <1>1, <1>2
  <2>2. th'[w].at \in {"idle", "held"}
    BY <1>2
  <2> QED BY <1>1, <1>2, <2>1, <2>2, KindMoves DEF Reading
<1>14. \A u \in Tex \ {t} : Untouched(u)
  BY <1>1, <1>2, SameItself, OnlyOne
<1>15. Good(t)' /\ Stays(t)
  <2>1. (Without(t, {"overlap"})' <=> Without(t, {"overlap"})) /\ (Calm(t)' <=> Calm(t))
        /\ Pointers(t)' /\ Listed(t)'
    BY <1>1, <1>2 DEF Without, Calm, Pointers, Listed, Good, My
  <2> QED BY <1>1, <1>11, <1>12, <2>1 DEF Good, Stays
<1> QED BY <1>13, <1>14, <1>15, OneItem

LEMMA DispatchReleaseGood ==
    ASSUME Inv, DataInv, NEW w \in ReleaseW, DispatchRelease(w)
    PROVE  DataInv' /\ \A u \in Tex : Stays(u)
<1> USE Threads DEF Inv
<1>1. /\ th[w].at = "idle" /\ Take(w, Head(relQ)) /\ relQ # <<>> /\ relQ' = Tail(relQ)
      /\ UNCHANGED <<item, heap, fileQ, texQ, Handed, owned, faults>>
  BY HandedKept DEF DispatchRelease, At
<1>2. relQ \in Seq(Shot) /\ Head(relQ) \in Shot
  BY <1>1, HeadTailProperties DEF TypeOK
<1>3. PICK t \in Shot : t = Head(relQ)
  BY <1>2
<1>4. /\ t \in Tex /\ t # None /\ KindInv /\ Good(t) /\ w \in Thread /\ My(w) = None
      /\ w \notin FileW \cup TextureW \cup FileTexW
  BY <1>1, TextureAssumption DEF DataInv, Tex, KindInv, At
<1>5. Others(w) /\ th'[w].at = "held" /\ th'[w].tex = t
  BY <1>1, <1>3, <1>4, TakeMoves
<1>6. Loses(relQ, relQ', t) /\ \A u : u # t => Same(relQ, relQ', u)
  BY <1>1, <1>2, <1>3, TailLoses
<1>7. /\ \A v \in LoadW \cup {Loader, Screen} : th'[v] = th[v]
      /\ \A v \in ReleaseW \ {w} : th'[v] = th[v]
      /\ LoadW = FileW \cup TextureW \cup FileTexW
  BY <1>5 DEF Others, LoadW
<1>8. /\ Freeing(t)' /\ Freeing(t)
      /\ Holds(ReleaseW, t, Freed)' <=> Holds(ReleaseW, t, Freed)
      /\ \A v \in ReleaseW : My(v)' = t => v = w \/ (My(v) = t /\ th'[v] = th[v])
  <2>1. Freeing(t)' /\ Freeing(t)
    BY <1>5, <1>6 DEF Freeing, Loses, My
  <2>2. \A v \in ReleaseW : My(v)' = t => v = w \/ (My(v) = t /\ th'[v] = th[v])
    BY <1>7 DEF My
  <2>3. Holds(ReleaseW, t, Freed)' <=> Holds(ReleaseW, t, Freed)
    BY <1>4, <1>5, <1>7, <2>2 DEF Holds, Freed, My
  <2> QED BY <2>1, <2>2, <2>3
<1>9. /\ (Waits(fileQ, t)' <=> Waits(fileQ, t)) /\ (Waits(texQ, t)' <=> Waits(texQ, t))
      /\ (Waits(Handed, t)' <=> Waits(Handed, t))
      /\ (Once(fileQ, t)' <=> Once(fileQ, t)) /\ (Once(texQ, t)' <=> Once(texQ, t))
      /\ (Once(Handed, t)' <=> Once(Handed, t))
  BY <1>1 DEF Waits, Once
<1>10. \A v \in LoadW : My(v)' = My(v)
  BY <1>7 DEF My
<1>11. /\ Asking(t)' <=> Asking(t)
       /\ Readied(t)' <=> Readied(t)
       /\ FirstLoad(t)' <=> FirstLoad(t)
       /\ Reload(t)' <=> Reload(t)
       /\ Used(t)' <=> Used(t)
  BY <1>7, <1>9, <1>10 DEF Asking, Readied, FirstLoad, Reload, Used, Holds, My
<1>12. /\ Holds(FileW, t, Reading)' <=> Holds(FileW, t, Reading)
       /\ Holds(FileTexW, t, Reading)' <=> Holds(FileTexW, t, Reading)
       /\ Holds(LoadW, t, Making)' <=> Holds(LoadW, t, Making)
       /\ Holds(LoadW, t, Brushing)' <=> Holds(LoadW, t, Brushing)
  BY <1>7, <1>10 DEF Holds
<1>13. (ToRead(t)' <=> ToRead(t)) /\ (ToBrush(t)' <=> ToBrush(t))
       /\ (ToLoad(t)' <=> ToLoad(t)) /\ (ToMake(t)' <=> ToMake(t))
  BY <1>7, <1>9, <1>11, <1>12 DEF ToRead, ToBrush, ToLoad, ToMake, My
<1>14. ASSUME Exclusive(t) PROVE Exclusive(t)'
  <2>1. Alone(fileQ, FileW, t)' /\ Alone(texQ, TextureW, t)' /\ Alone(Handed, FileTexW, t)'
    BY <1>7, <1>9, <1>10, <1>14 DEF Exclusive, Alone
  <2>2. (\A v \in TextureW : My(v) = t => At(v, "held"))
        => (\A v \in TextureW : My(v) = t => At(v, "held"))'
    BY <1>7, <1>10 DEF At
  <2> QED BY <1>1, <1>8, <1>11, <1>13, <1>14, <2>1, <2>2 DEF Exclusive, Owned
<1>15. ASSUME Loads(t), Releases(t), Shown(t), Kept(t)
       PROVE  Loads(t)' /\ Releases(t)' /\ Shown(t)' /\ Kept(t)'
  <2>1. Loads(t)'
    BY <1>1, <1>7, <1>10, <1>13, <1>15 DEF Loads, At
  <2>2. \A v \in ReleaseW \cup {Loader} : My(v)' = t =>
            \/ th'[v].at = "held"
            \/ My(v) = t /\ th'[v] = th[v]
    BY <1>5, <1>7, <1>8 DEF My
  <2>3. Releases(t)'
    BY <1>1, <1>8, <1>11, <1>15, <2>2 DEF Releases, At, Owned
  <2> QED BY <1>1, <1>15, <2>1, <2>3 DEF Shown, Kept
<1>16. KindInv'
  BY <1>4, <1>5, KindMoves
<1>17. \A u \in Tex \ {t} : Untouched(u)
  BY <1>1, <1>4, <1>5, <1>6, SameItself, OnlyOne
<1>18. Good(t)' /\ Stays(t)
  <2>1. (Without(t, {"overlap"})' <=> Without(t, {"overlap"})) /\ (Calm(t)' <=> Calm(t))
        /\ Pointers(t)' /\ Listed(t)'
    BY <1>1, <1>4, <1>7 DEF Without, Calm, Pointers, Listed, Good, My
  <2> QED BY <1>1, <1>4, <1>14, <1>15, <2>1 DEF Good, Stays
<1> QED BY <1>4, <1>16, <1>17, <1>18, OneItem

LEMMA DispatchData ==
    ASSUME Inv, DataInv, NEW w \in LoadW \cup ReleaseW, Dispatch(w)
    PROVE  DataInv' /\ \A u \in Tex : Stays(u)
<1> USE Threads DEF Inv
<1>0. w \in Thread /\ Art \cup Icon \cup Shot = Tex
  BY DEF Tex
<1>1. CASE DispatchFile(w)
  <2>1. /\ th[w].at = "idle" /\ w \in FileW /\ w \in LoadW
        /\ Take(w, Head(fileQ)) /\ fileQ # <<>> /\ fileQ' = Tail(fileQ)
        /\ UNCHANGED <<item, heap, texQ, Handed, relQ, owned, faults>>
    BY <1>1, HandedKept DEF DispatchFile, At, LoadW
  <2>2. fileQ \in Seq(Art) /\ Head(fileQ) \in Art
    BY <2>1, HeadTailProperties DEF TypeOK
  <2>3. PICK t \in Art : t = Head(fileQ)
    BY <2>2
  <2>4. Others(w) /\ th'[w].at = "held" /\ th'[w].tex = t
    BY <1>0, <2>1, <2>3, TakeMoves
  <2>5. Loses(fileQ, fileQ', t) /\ \A u : u # t => Same(fileQ, fileQ', u)
    BY <2>1, <2>2, <2>3, TailLoses
  <2> HIDE DEF Inv
  <2> QED BY <1>0, <2>1, <2>3, <2>4, <2>5, SameItself, DispatchGood
<1>2. ASSUME NEW i \in DOMAIN texQ, DispatchTexture(w, i)
      PROVE  DataInv' /\ \A u \in Tex : Stays(u)
  <2>1. /\ th[w].at = "idle" /\ w \in TextureW /\ w \in LoadW
        /\ Take(w, texQ[i]) /\ texQ' = RemoveAt(texQ, i)
        /\ UNCHANGED <<item, heap, fileQ, Handed, relQ, owned, faults>>
    BY <1>2, HandedKept DEF DispatchTexture, At, LoadW
  <2>2. texQ \in Seq(Art \cup Icon) /\ texQ[i] \in Art \cup Icon
    BY ElementOfSeq, LenProperties DEF TypeOK
  <2>3. PICK t \in Art \cup Icon : t = texQ[i]
    BY <2>2
  <2>4. Others(w) /\ th'[w].at = "held" /\ th'[w].tex = t
    BY <1>0, <2>1, <2>3, TakeMoves
  <2>5. Loses(texQ, texQ', t) /\ \A u : u # t => Same(texQ, texQ', u)
    BY <2>1, <2>2, <2>3, RemoveLoses
  <2> HIDE DEF Inv
  <2> QED BY <1>0, <2>1, <2>3, <2>4, <2>5, SameItself, DispatchGood
<1>3. CASE DispatchFileTex(w)
  <2>1. /\ th[w].at = "idle" /\ w \in FileTexW /\ w \in LoadW
        /\ Take(w, hand) /\ hand # None /\ hand' = None /\ fileTexQ' = fileTexQ
        /\ UNCHANGED <<item, heap, fileQ, texQ, relQ, owned, faults>>
    BY <1>3 DEF DispatchFileTex, At, LoadW
  <2>2. hand \in Art \cup Shot /\ hand \in Loadable
    BY <2>1 DEF TypeOK, QueueInv
  <2>3. hand \in Art \cup (Shot \ Bare)
    BY <2>2, TextureAssumption DEF Loadable, ScreenInv
  <2>4. PICK t \in Art \cup (Shot \ Bare) : t = hand
    BY <2>3
  <2>5. Others(w) /\ th'[w].at = "held" /\ th'[w].tex = t
    BY <1>0, <2>1, <2>4, TakeMoves
  <2>6. Loses(Handed, Handed', t) /\ \A u \in Tex \ {t} : Same(Handed, Handed', u)
    BY <1>0, <2>1, <2>4, HandedLoses
  <2> HIDE DEF Inv
  <2> QED BY <1>0, <2>1, <2>4, <2>5, <2>6, SameItself, DispatchGood
<1>4. CASE DispatchRelease(w)
  <2>1. w \in ReleaseW
    BY <1>4 DEF DispatchRelease
  <2> HIDE DEF Inv
  <2> QED BY <1>4, <2>1, DispatchReleaseGood
<1> QED BY <1>1, <1>2, <1>3, <1>4 DEF Dispatch

\* Nobody gets what is passed over.
LEMMA PassedOver ==
    ASSUME DataInv, NEW t \in Tex, UNCHANGED <<item, heap, th, fileQ, texQ, relQ, owned, faults>>,
           Loses(Handed, Handed', t)
    PROVE  Good(t)' /\ Stays(t)
<1>1. Good(t) /\ (Owned' = Owned)
  BY DEF DataInv, Owned
<1>2. /\ (Waits(fileQ, t)' <=> Waits(fileQ, t)) /\ (Waits(texQ, t)' <=> Waits(texQ, t))
      /\ (Waits(Handed, t)' => Waits(Handed, t)) /\ (Waits(relQ, t)' <=> Waits(relQ, t))
      /\ (Once(fileQ, t)' <=> Once(fileQ, t)) /\ (Once(texQ, t)' <=> Once(texQ, t))
      /\ (Once(Handed, t) => Once(Handed, t)')
  BY DEF Loses, Waits, Once
<1>3. \A w \in LoadW \cup ReleaseW \cup {Loader, Screen} : My(w)' = My(w) /\ th'[w] = th[w]
  BY DEF My
<1>4. FileW \cup TextureW \cup FileTexW = LoadW
  BY DEF LoadW
<1>5. /\ Asking(t)' <=> Asking(t)
      /\ Readied(t)' <=> Readied(t)
      /\ FirstLoad(t)' <=> FirstLoad(t)
      /\ Reload(t)' => Reload(t)
      /\ Freeing(t)' <=> Freeing(t)
  BY <1>2, <1>3, <1>4 DEF Asking, Readied, FirstLoad, Reload, Freeing
<1>6. /\ Holds(FileW, t, Reading)' <=> Holds(FileW, t, Reading)
      /\ Holds(FileTexW, t, Reading)' <=> Holds(FileTexW, t, Reading)
      /\ Holds(LoadW, t, Making)' <=> Holds(LoadW, t, Making)
      /\ Holds(LoadW, t, Brushing)' <=> Holds(LoadW, t, Brushing)
      /\ Used(t)' <=> Used(t)
      /\ Holds(ReleaseW, t, Freed)' <=> Holds(ReleaseW, t, Freed)
  BY <1>3, <1>4 DEF Holds, Used
<1>7. /\ ToRead(t)' => ToRead(t)
      /\ ToBrush(t)' => ToBrush(t)
  BY <1>2, <1>3, <1>5, <1>6 DEF ToRead, ToBrush
<1>8. /\ ToLoad(t)' => ToLoad(t)
      /\ ToMake(t)' => ToMake(t)
  BY <1>2, <1>5, <1>6, <1>7 DEF ToLoad, ToMake
<1>9. ASSUME Exclusive(t) PROVE Exclusive(t)'
  <2>1. Alone(fileQ, FileW, t)' /\ Alone(texQ, TextureW, t)' /\ Alone(Handed, FileTexW, t)'
    BY <1>2, <1>3, <1>4, <1>9 DEF Exclusive, Alone
  <2>2. (\A v \in TextureW : My(v) = t => At(v, "held"))
        => (\A v \in TextureW : My(v) = t => At(v, "held"))'
    BY <1>3, <1>4 DEF At
  <2> QED BY <1>1, <1>5, <1>7, <1>9, <2>1, <2>2 DEF Exclusive
<1>10. ASSUME Loads(t), Releases(t), Shown(t), Kept(t)
       PROVE  Loads(t)' /\ Releases(t)' /\ Shown(t)' /\ Kept(t)'
  <2>1. Loads(t)'
    BY <1>3, <1>8, <1>10 DEF Loads, At
  <2>2. Releases(t)'
    BY <1>1, <1>3, <1>5, <1>6, <1>10 DEF Releases, At
  <2> QED BY <1>10, <2>1, <2>2 DEF Shown, Kept
<1>11. /\ (Without(t, {"overlap"})' <=> Without(t, {"overlap"})) /\ (Calm(t)' <=> Calm(t))
       /\ Pointers(t)' /\ Listed(t)'
  BY <1>1 DEF Without, Calm, Pointers, Listed, Good, My
<1> QED BY <1>1, <1>9, <1>10, <1>11 DEF Good, Stays

LEMMA PopData ==
    ASSUME Inv, DataInv, PopFileTex
    PROVE  DataInv' /\ \A u \in Tex : Stays(u)
<1>1. UNCHANGED <<item, heap, th, fileQ, texQ, relQ, owned, faults>>
  BY DEF PopFileTex
<1>2. KindInv'
  BY <1>1 DEF DataInv, KindInv, At, My
<1>3. ASSUME NEW u \in Tex, Same(Handed, Handed', u) PROVE Untouched(u)
  BY <1>1, <1>3, SameItself DEF Untouched, My
<1>4. CASE \A u \in Tex : Same(Handed, Handed', u)
  BY <1>2, <1>3, <1>4, UntouchedGood DEF DataInv
<1>5. ASSUME NEW t \in Tex, Loses(Handed, Handed', t),
             \A u \in Tex \ {t} : Same(Handed, Handed', u)
      PROVE  DataInv' /\ \A u \in Tex : Stays(u)
  <2>1. Good(t)' /\ Stays(t)
    BY <1>1, <1>5, PassedOver
  <2>2. \A u \in Tex \ {t} : Untouched(u)
    BY <1>3, <1>5
  <2> QED BY <1>2, <2>1, <2>2, OneItem
<1> QED BY <1>4, <1>5, HandedPops DEF Inv

LEMMA WorkerData ==
    ASSUME Inv, DataInv, NEW w \in LoadW \cup ReleaseW, WorkerStep(w)
    PROVE  DataInv' /\ \A u \in Tex : Stays(u)
<1> USE Threads
<1>1. CASE w \in LoadW
  <2>1. th[w].at \in {"idle", "held", "begin", "adding"} \cup UserAt
    BY <1>1 DEF Inv, WorkerInv
  <2>2. ~ ReleaseAll(w)
    BY <2>1 DEF ReleaseAll, ReleaseAllBrush, ReleaseAllTexture, ReleaseAllFile, At, UserAt
  <2> QED BY <1>1, <2>2, StartLoadData, CountLoadData, WorkData DEF WorkerStep
<1>2. CASE w \in ReleaseW
  <2>1. th[w].at \in {"idle", "held", "brush", "texture", "file"}
    BY <1>2 DEF Inv, WorkerInv
  <2>2. ~ Counts(w) /\ ~ Work(w)
    BY <2>1 DEF Counts, TestCount, ReadCount, AfterRead, Work, AddRef, Release, Leaves, FreeData,
                Load, LoadFails, Make, MakeFails, MakeNothing, Attach, AttachFails, At
  <2>3. ASSUME ReleaseAll(w) PROVE DataInv' /\ \A u \in Tex : Stays(u)
    BY <1>2, <2>3, FreeBrushData, FreeTextureData, FreeFileData DEF ReleaseAll
  <2> QED BY <1>2, <2>2, <2>3, StartReleaseData DEF WorkerStep
<1> QED BY <1>1, <1>2

-----------------------------------------------------------------------------
(* The loader, and the screen that asks for a shot: nobody else has it.    *)

Lone(t) ==
    /\ ~ Waits(fileQ, t) /\ ~ Waits(texQ, t) /\ ~ Waits(Handed, t) /\ ~ Waits(relQ, t)
    /\ \A v \in LoadW \cup ReleaseW : My(v) # t

LEMMA AskingIsLone ==
    ASSUME NEW t \in Tex, Exclusive(t), Asking(t)
    PROVE  Lone(t)
BY DEF Exclusive, FirstLoad, Reload, Freeing, Lone, LoadW

LEMMA IdleIsLone ==
    ASSUME NEW t \in Tex, ~ Busy(t), TypeOK
    PROVE  Lone(t)
<1>1. \A q \in {fileQ, texQ, fileTexQ, relQ} : ToSet(q) = {q[i] : i \in DOMAIN q}
  BY DEF ToSet
<1>2. /\ \A q \in {fileQ, texQ, fileTexQ, relQ} : ~ Waits(q, t)
      /\ hand # t /\ \A v \in LoadW \cup ReleaseW : My(v) # t
  BY <1>1 DEF Busy, Waits
<1>3. Waits(Handed, t) => hand = t \/ Waits(fileTexQ, t)
  BY HandedType, AheadHas, TextureAssumption DEF Handed, Joins
<1> QED BY <1>2, <1>3 DEF Lone

\* What a step has to leave behind of an item that nobody else has.
LEMMA LoneGood ==
    ASSUME NEW t \in Tex, Lone(t)',
           Asking(t)' => item'[t].brush # "loaded",
           t \in Art /\ My(Loader)' = t /\ th'[Loader].at \in {"begin", "adding"}
               => item'[t].file = "ready"
    PROVE  /\ Exclusive(t)'
           /\ (/\ "early" \notin faults'[t] /\ Readied(t)' =>
                     item'[t].t = 0 /\ item'[t].b = 0 /\ (t \notin Icon => item'[t].ptr = 0)
               /\ My(Loader)' = t =>
                     /\ th'[Loader].at = "texture" => item'[t].b = 0 /\ item'[t].brush # "loaded"
                     /\ th'[Loader].at = "file" =>
                           item'[t].b = 0 /\ item'[t].t = 0 /\ item'[t].brush # "loaded"
               /\ t \in Shot /\ t \notin Owned' => None3(item'[t])
               /\ t \in Bare => None3(item'[t]) /\ item'[t].brush # "loaded")
              => Loads(t)' /\ Releases(t)'
<1> USE TextureAssumption
<1>1. /\ ~ Waits(fileQ, t)' /\ ~ Waits(texQ, t)' /\ ~ Waits(Handed, t)' /\ ~ Waits(relQ, t)'
      /\ \A v \in LoadW \cup ReleaseW : My(v)' # t
      /\ LoadW = FileW \cup TextureW \cup FileTexW
  BY DEF Lone, LoadW
<1>2. ~ FirstLoad(t)' /\ ~ Reload(t)' /\ ~ Freeing(t)'
  BY <1>1 DEF FirstLoad, Reload, Freeing
<1>3. /\ ~ Holds(FileW, t, Reading)' /\ ~ Holds(FileTexW, t, Reading)'
      /\ ~ Holds(LoadW, t, Making)' /\ ~ Holds(LoadW, t, Brushing)'
      /\ ~ Used(t)' /\ ~ Holds(ReleaseW, t, Freed)'
  BY <1>1 DEF Holds, Used
<1>4. Alone(fileQ, FileW, t)' /\ Alone(texQ, TextureW, t)' /\ Alone(Handed, FileTexW, t)'
  BY <1>1 DEF Alone, Once, Waits
<1>5. /\ ToRead(t)' => t \in Art /\ My(Loader)' = t /\ th'[Loader].at \in {"begin", "adding"}
      /\ ToBrush(t)' => Asking(t)'
      /\ ToLoad(t)' => Readied(t)' /\ t \notin Icon
      /\ ToMake(t)' => Readied(t)'
  BY <1>1, <1>3 DEF ToRead, ToBrush, ToLoad, ToMake, Readied
<1>6. Exclusive(t)'
  BY <1>1, <1>2, <1>4, <1>5 DEF Exclusive
<1>7. ASSUME "early" \notin faults'[t] /\ Readied(t)' =>
                item'[t].t = 0 /\ item'[t].b = 0 /\ (t \notin Icon => item'[t].ptr = 0)
      PROVE  Loads(t)'
  BY <1>1, <1>5, <1>7 DEF Loads
<1>8. ASSUME /\ My(Loader)' = t =>
                  /\ th'[Loader].at = "texture" => item'[t].b = 0 /\ item'[t].brush # "loaded"
                  /\ th'[Loader].at = "file" =>
                        item'[t].b = 0 /\ item'[t].t = 0 /\ item'[t].brush # "loaded"
             /\ t \in Shot /\ t \notin Owned' => None3(item'[t])
             /\ t \in Bare => None3(item'[t]) /\ item'[t].brush # "loaded"
      PROVE  Releases(t)'
  BY <1>1, <1>3, <1>8 DEF Releases, At
<1> QED BY <1>6, <1>7, <1>8

\* All that a step of the loader's thread has to show, if nothing is queued.
LEMMA LoaderStepGood ==
    ASSUME Inv, DataInv, NEW t \in Art \cup Icon, My(Loader) \in {t, None}, Others(Loader),
           th'[Loader].tex \in {t, None}, th'[Loader].at = "idle" <=> th'[Loader].tex = None,
           UNCHANGED queued,
           \A u \in Tex \ {t} : /\ item'[u] = item[u] /\ heap'[u] = heap[u] /\ faults'[u] = faults[u]
                                /\ owned'[u] = owned[u],
           faults[t] \subseteq faults'[t],
           \/ My(Loader) = t
           \/ Without(t, {"overlap"})' => Lone(t),
           item'[t].tex # "inactive",
           "early" \notin faults'[t] =>
               /\ owned'[t] <= 1
               /\ th'[Loader].tex = t /\ th'[Loader].at \in {"begin", "adding"} \cup Mid
                    => owned'[t] = 0,
           Pointers(t)', Stays(t),
           th'[Loader].tex = t /\ (My(Loader) = t => item[t].brush # "loaded")
               => item'[t].brush # "loaded",
           th'[Loader].tex = t /\ t \in Art /\ th'[Loader].at \in {"begin", "adding"}
               => item'[t].file = "ready" \/ (th[Loader].at \in {"begin", "adding"} /\ My(Loader) = t
                                              /\ item'[t].file = item[t].file),
           Calm(t)' /\ Lone(t) /\ Loads(t) /\ Releases(t) /\ Shown(t) /\ Kept(t) =>
               /\ Shown(t)' /\ Kept(t)'
               /\ th'[Loader].tex = t =>
                     /\ "early" \notin faults'[t]
                        /\ th'[Loader].at \in {"begin", "adding", "again", "readding"} =>
                           item'[t].t = 0 /\ item'[t].b = 0 /\ (t \notin Icon => item'[t].ptr = 0)
                     /\ th'[Loader].at = "texture" => item'[t].b = 0
                     /\ th'[Loader].at = "file" => item'[t].b = 0 /\ item'[t].t = 0
    PROVE  DataInv' /\ \A u \in Tex : Stays(u)
<1> USE Threads
<1>1. /\ t \in Tex /\ t # None /\ t \notin Shot /\ t \notin Bare /\ KindInv /\ Good(t)
  BY TextureAssumption DEF Tex, DataInv
<1>2. /\ th'[Screen] = th[Screen] /\ \A v \in LoadW \cup ReleaseW : th'[v] = th[v]
  BY DEF Others
<1>3. My(Screen) # t
  BY <1>1 DEF Inv, ScreenInv, KindInv, At
<1>4. Without(t, {"overlap"})' => Without(t, {"overlap"})
  BY DEF Without
<1>5. Calm(t)' => Calm(t) /\ Without(t, {"overlap"})'
  BY DEF Calm, Without
<1>6. Without(t, {"overlap"})' => Lone(t)
  <2>1. Exclusive(t) /\ My(Loader) = t => Lone(t)
    BY <1>1, AskingIsLone DEF Asking
  <2> QED BY <1>1, <1>4, <2>1 DEF Good
<1>7. Lone(t) => Lone(t)'
  BY <1>2 DEF Lone, queued, Waits, My
<1>8. (Asking(t)' <=> My(Loader)' = t) /\ (Readied(t)' => My(Loader)' = t
      /\ th'[Loader].at \in {"begin", "adding", "again", "readding"})
  BY <1>2, <1>3 DEF Asking, Readied, My
<1>9. ASSUME Without(t, {"overlap"})'
      PROVE  /\ Lone(t)'
             /\ Asking(t)' => item'[t].brush # "loaded"
             /\ t \in Art /\ My(Loader)' = t /\ th'[Loader].at \in {"begin", "adding"}
                  => item'[t].file = "ready"
  <2>1. My(Loader) = t => item[t].brush # "loaded"
    BY <1>1, <1>4, <1>9 DEF Good, Exclusive, ToBrush, Asking
  <2>2. My(Loader) = t /\ t \in Art /\ th[Loader].at \in {"begin", "adding"} => item[t].file = "ready"
    BY <1>1, <1>4, <1>9 DEF Good, Exclusive, ToRead
  <2> QED BY <1>6, <1>7, <1>8, <1>9, <2>1, <2>2 DEF My
<1>10. Without(t, {"overlap"})' => Exclusive(t)'
  BY <1>1, <1>9, LoneGood
<1>11. ASSUME Calm(t)' PROVE Loads(t)' /\ Releases(t)' /\ Shown(t)' /\ Kept(t)'
  <2>1. Lone(t) /\ Loads(t) /\ Releases(t) /\ Shown(t) /\ Kept(t)
    BY <1>1, <1>5, <1>6, <1>11 DEF Good
  <2>2. /\ Shown(t)' /\ Kept(t)'
        /\ "early" \notin faults'[t] /\ Readied(t)' =>
               item'[t].t = 0 /\ item'[t].b = 0 /\ (t \notin Icon => item'[t].ptr = 0)
        /\ My(Loader)' = t =>
               /\ th'[Loader].at = "texture" => item'[t].b = 0
               /\ th'[Loader].at = "file" => item'[t].b = 0 /\ item'[t].t = 0
    BY <1>8, <1>11, <2>1 DEF My
  <2>3. My(Loader)' = t => item'[t].brush # "loaded"
    BY <1>5, <1>8, <1>9, <1>11
  <2>4. Lone(t)' /\ (Asking(t)' => item'[t].brush # "loaded")
        /\ (t \in Art /\ My(Loader)' = t /\ th'[Loader].at \in {"begin", "adding"}
              => item'[t].file = "ready")
    BY <1>5, <1>9, <1>11
  <2>5. Loads(t)' /\ Releases(t)'
    BY <1>1, <2>2, <2>3, <2>4, LoneGood
  <2> QED BY <2>2, <2>5
<1>12. KindInv'
  <2>1. Loader \notin FileW \cup TextureW \cup FileTexW
    BY DEF LoadW
  <2> QED BY <1>1, <2>1, KindMoves
<1>13. \A u \in Tex \ {t} : Untouched(u)
  <2>1. UNCHANGED <<fileQ, texQ, Handed, relQ>>
    BY DEF queued
  <2> QED BY <1>1, <2>1, SameItself, OnlyOne
<1>14. Good(t)'
  <2>1. Listed(t)'
    BY DEF Listed, My
  <2> QED BY <1>10, <1>11, <2>1 DEF Good
<1> QED BY <1>1, <1>12, <1>13, <1>14, OneItem

\* What the loader's thread has in hand is in the list, and was asked for.
LEMMA LoaderHas ==
    ASSUME Inv, DataInv, th[Loader].at # "idle"
    PROVE  /\ My(Loader) \in Art \cup Icon /\ My(Loader) \in Tex /\ My(Loader) \notin Shot
           /\ Good(My(Loader)) /\ item[My(Loader)].tex # "inactive"
           /\ "early" \notin faults[My(Loader)] =>
                 /\ owned[My(Loader)] <= 1
                 /\ th[Loader].at \in {"begin", "adding"} \cup Mid => owned[My(Loader)] = 0
<1>1. My(Loader) \in Art \cup Icon
  BY DEF Inv, LoaderInv, At
<1>2. My(Loader) \in Tex /\ My(Loader) \notin Shot
  BY <1>1, TextureAssumption DEF Tex
<1> QED BY <1>1, <1>2 DEF DataInv, Good, Listed

LEMMA LoadAssetData ==
    ASSUME Inv, DataInv, NEW t \in Art \cup Icon, NEW size \in {0, 1}, LoadAsset(t, size)
    PROVE  DataInv' /\ \A u \in Tex : Stays(u)
<1> USE Threads DEF Inv
<1>1. /\ At(Loader, "idle") /\ t \in loaderQ /\ Turns(Loader, t, "begin")
      /\ loaderQ' = loaderQ \ {t}
      /\ UNCHANGED <<heap, owned, fileQ, texQ, fileTexQ, relQ, hand>> /\ (t \in Art => size = 1)
  BY TextureAssumption DEF LoadAsset
<1>2. /\ t \in Tex /\ t # None /\ t \notin Shot /\ KindInv /\ Good(t) /\ Pointers(t) /\ Listed(t)
      /\ item \in [Tex -> ItemState] /\ item[t] \in ItemState /\ My(Loader) = None
      /\ faults \in [Tex -> SUBSET Fault] /\ "begin" \in Place /\ TypeOK
  BY <1>1, TextureAssumption DEF DataInv, Good, Tex, TypeOK, KindInv, Place
<1>3. Others(Loader) /\ th'[Loader].at = "begin" /\ th'[Loader].tex = t
  BY <1>1, <1>2, TurnsMoves
<1>4. /\ \A u \in Tex \ {t} : item'[u] = item[u] /\ faults'[u] = faults[u]
      /\ faults[t] \cup Overlap(t) \subseteq faults'[t]
      /\ item[t].tex # "inactive" => "early" \in faults'[t]
  BY <1>2 DEF LoadAsset, Becomes, Blame
<1>5. item'[t] = IF t \in Icon THEN [SetFilePointer(Info(t), 1, size) EXCEPT !.brush = "loading"]
                               ELSE Info(t)
  BY <1>2 DEF LoadAsset, Becomes
<1>6. /\ item'[t].t = item[t].t /\ item'[t].b = item[t].b
      /\ item'[t].tex = "ready" /\ item'[t].brush = "loading"
      /\ item'[t].ptr = IF t \in Icon THEN 1 ELSE item[t].ptr
      /\ t \notin Icon => item'[t].file = "ready"
  <2>1. CASE t \in Icon
    <3> DEFINE r == SetTextureInfoMemory(item[t])
               x == SetFilePointer(r, 1, size)
    <3>1. r \in ItemState
      BY <1>2, Methods
    <3>2. x \in ItemState
      BY <3>1, Methods
    <3>3. /\ x.ptr = 1 /\ x.t = r.t /\ x.b = r.b /\ x.tex = r.tex
          /\ r.t = item[t].t /\ r.b = item[t].b /\ r.tex = "ready"
      BY <1>2, <3>1, Fields
    <3>4. item'[t] = [x EXCEPT !.brush = "loading"]
      BY <1>5, <2>1 DEF Info
    <3> HIDE DEF r, x
    <3> QED BY <2>1, <3>2, <3>3, <3>4 DEF ItemState
  <2>2. CASE t \notin Icon
    BY <1>2, <1>5, <2>2, Fields DEF Info
  <2> QED BY <2>1, <2>2
<1>7. Pointers(t)'
  BY <1>1, <1>2, <1>6 DEF Pointers
<1>8. Without(t, {"overlap"})' => Lone(t)
  BY <1>2, <1>4, IdleIsLone DEF Without, Overlap
<1>9. Stays(t)
  BY <1>1, <1>3 DEF Stays, At
<1>10. "early" \notin faults'[t] => None3(item[t]) /\ owned'[t] = 0 /\ "early" \notin faults[t]
  BY <1>1, <1>2, <1>4 DEF Listed
<1>11. ASSUME Shown(t), Kept(t)
       PROVE  /\ Shown(t)' /\ Kept(t)'
              /\ "early" \notin faults'[t] =>
                   item'[t].t = 0 /\ item'[t].b = 0 /\ (t \notin Icon => item'[t].ptr = 0)
  <2>1. heap'[t] = heap[t]
    BY <1>1
  <2> QED BY <1>4, <1>6, <1>10, <1>11, <2>1 DEF None3, Shown, Kept
<1> HIDE DEF Inv
<1>12. /\ \A u \in Tex \ {t} : item'[u] = item[u] /\ heap'[u] = heap[u] /\ faults'[u] = faults[u]
                               /\ owned'[u] = owned[u]
       /\ UNCHANGED queued /\ faults[t] \subseteq faults'[t]
  BY <1>1, <1>4, HandedKept DEF queued
<1>13. /\ item'[t].tex # "inactive" /\ item'[t].brush # "loaded"
       /\ t \in Art => item'[t].file = "ready"
       /\ "early" \notin faults'[t] => owned'[t] <= 1 /\ owned'[t] = 0
  BY <1>6, <1>10, TextureAssumption
<1> QED BY <1>2, <1>3, <1>7, <1>8, <1>9, <1>11, <1>12, <1>13, LoaderStepGood

LEMMA NoAssetData ==
    ASSUME Inv, DataInv, NEW t \in Art \cup Icon, NoAsset(t)
    PROVE  DataInv' /\ \A u \in Tex : Stays(u)
<1> USE Threads DEF Inv
<1>1. /\ At(Loader, "idle") /\ t \in loaderQ /\ loaderQ' = loaderQ \ {t}
      /\ UNCHANGED <<heap, th, owned, fileQ, texQ, fileTexQ, relQ, hand>>
      /\ Becomes(t, [item[t] EXCEPT !.tex = "error", !.brush = "error"]) /\ Blame(t, Overlap(t))
  BY DEF NoAsset
<1>2. /\ t \in Tex /\ t # None /\ t \notin Shot /\ KindInv /\ Good(t) /\ Pointers(t) /\ Listed(t)
      /\ item \in [Tex -> ItemState] /\ item[t] \in ItemState /\ My(Loader) = None
      /\ faults \in [Tex -> SUBSET Fault] /\ TypeOK /\ owned[t] \in Nat
  BY <1>1, TextureAssumption DEF DataInv, Good, Tex, TypeOK, KindInv
<1>3. /\ Others(Loader) /\ th'[Loader].at = "idle" /\ th'[Loader].tex = None
  BY <1>1, <1>2 DEF Others, At, My
<1>4. /\ \A u \in Tex \ {t} : item'[u] = item[u] /\ faults'[u] = faults[u]
      /\ item'[t].ptr = item[t].ptr /\ item'[t].t = item[t].t /\ item'[t].b = item[t].b
      /\ item'[t].file = item[t].file /\ item'[t].tex = "error" /\ item'[t].brush = "error"
      /\ faults'[t] = faults[t] \cup Overlap(t)
  BY <1>1, <1>2 DEF Becomes, Blame, ItemState
<1>5. Pointers(t)'
  BY <1>1, <1>2, <1>4 DEF Pointers
<1>6. Without(t, {"overlap"})' => Lone(t)
  BY <1>2, <1>4, IdleIsLone DEF Without, Overlap
<1>7. Stays(t)
  BY <1>1 DEF Stays
<1>8. Shown(t)' /\ (Kept(t) => Kept(t)')
  BY <1>1, <1>4 DEF Shown, Kept
<1> HIDE DEF Inv
<1>9. /\ \A u \in Tex \ {t} : item'[u] = item[u] /\ heap'[u] = heap[u] /\ faults'[u] = faults[u]
                              /\ owned'[u] = owned[u]
      /\ UNCHANGED queued /\ faults[t] \subseteq faults'[t]
      /\ item'[t].tex # "inactive"
  BY <1>1, <1>4, HandedKept DEF queued
<1>10. "early" \notin faults'[t] => owned'[t] <= 1
  BY <1>1, <1>2, <1>4 DEF Listed
<1> QED BY <1>2, <1>3, <1>5, <1>6, <1>7, <1>8, <1>9, <1>10, LoaderStepGood

LEMMA RefreshData ==
    ASSUME Inv, DataInv, NEW t \in Art \cup Icon, Refresh(t)
    PROVE  DataInv' /\ \A u \in Tex : Stays(u)
<1> USE Threads DEF Inv
<1>1. /\ At(Loader, "idle") /\ Becomes(t, Info(t))
      /\ Blame(t, Overlap(t)) /\ Turns(Loader, t, "leave")
      /\ UNCHANGED <<heap, queued, owned>>
  BY QueuesKept DEF Refresh
<1>2. /\ t \in Tex /\ t # None /\ t \notin Shot /\ KindInv /\ Good(t) /\ Pointers(t) /\ Listed(t)
      /\ item \in [Tex -> ItemState] /\ item[t] \in ItemState /\ My(Loader) = None
      /\ faults \in [Tex -> SUBSET Fault] /\ "leave" \in Place /\ TypeOK /\ owned[t] \in Nat
  BY <1>1, TextureAssumption DEF DataInv, Good, Tex, TypeOK, KindInv, Place
<1>3. Others(Loader) /\ th'[Loader].at = "leave" /\ th'[Loader].tex = t
  BY <1>1, <1>2, TurnsMoves
<1>4. /\ \A u \in Tex \ {t} : item'[u] = item[u] /\ faults'[u] = faults[u]
      /\ faults'[t] = faults[t] \cup Overlap(t) /\ item'[t] = Info(t)
  BY <1>1, <1>2 DEF Becomes, Blame
<1>5. /\ item'[t].ptr = item[t].ptr /\ item'[t].t = item[t].t /\ item'[t].b = item[t].b
      /\ item'[t].file = "ready" /\ item'[t].tex = "ready" /\ item'[t].brush \in {"loading", "ready"}
  BY <1>2, <1>4, Fields DEF Info
<1>6. Pointers(t)'
  BY <1>1, <1>2, <1>5 DEF Pointers
<1>7. Without(t, {"overlap"})' => Lone(t)
  BY <1>2, <1>4, IdleIsLone DEF Without, Overlap
<1>8. Stays(t)
  BY <1>1, <1>3 DEF Stays, At
<1>9. Shown(t)' /\ (Kept(t) => Kept(t)')
  BY <1>1, <1>4, <1>5 DEF Shown, Kept
<1> HIDE DEF Inv
<1>10. /\ \A u \in Tex \ {t} : item'[u] = item[u] /\ heap'[u] = heap[u] /\ faults'[u] = faults[u]
                               /\ owned'[u] = owned[u]
       /\ UNCHANGED queued /\ faults[t] \subseteq faults'[t]
       /\ item'[t].tex # "inactive" /\ item'[t].brush # "loaded"
       /\ th'[Loader].at \notin {"begin", "adding"} \cup Mid
  BY <1>1, <1>3, <1>4, <1>5 DEF Mid
<1>11. "early" \notin faults'[t] => owned'[t] <= 1
  BY <1>1, <1>2, <1>4 DEF Listed
<1> QED BY <1>2, <1>3, <1>6, <1>7, <1>8, <1>9, <1>10, <1>11, LoaderStepGood

LEMMA CountLoaderData ==
    ASSUME Inv, DataInv, Counts(Loader)
    PROVE  DataInv' /\ \A u \in Tex : Stays(u)
<1> USE Threads
<1>1. /\ th[Loader].at \in {"begin", "leave", "lower", "again"}
      /\ Loader \in Thread /\ Loader \notin FileTexW
  BY CountMoves, TextureAssumption DEF Thread, LoadW
<1>2. PICK t \in Art \cup Icon : t = My(Loader)
  BY <1>1, LoaderHas
<1>3. /\ t \in Tex /\ t # None /\ t \notin Shot /\ KindInv /\ Good(t) /\ Pointers(t)
      /\ item[t].tex # "inactive"
      /\ "early" \notin faults[t] =>
            /\ owned[t] <= 1
            /\ th[Loader].at \in {"begin", "again"} => owned[t] = 0
  BY <1>1, <1>2, TextureAssumption, LoaderHas DEF DataInv, Good, Mid
<1>4. /\ Others(Loader) /\ th'[Loader].tex = t
      /\ th[Loader].at = "begin" => th'[Loader].at = "adding"
      /\ th[Loader].at = "again" => th'[Loader].at = "readding"
      /\ th[Loader].at = "leave" => th'[Loader].at \in {"lower", "spared"}
      /\ th[Loader].at = "lower" => th'[Loader].at = "dropping"
      /\ UNCHANGED <<item, heap, queued, owned>> /\ faults' = faults
  BY <1>1, <1>2, CountMoves
<1>5. /\ th'[Loader].at \in {"adding", "readding", "lower", "spared", "dropping"}
      /\ th'[Loader].at = "adding" => th[Loader].at = "begin"
      /\ th'[Loader].at = "readding" => th[Loader].at = "again"
      /\ th'[Loader].at \in {"begin", "adding"} \cup Mid => th[Loader].at \in {"begin", "again"}
  BY <1>1, <1>4 DEF Mid
<1>6. Pointers(t)'
  BY <1>3, <1>4 DEF Pointers
<1>7. Stays(t)
  <2>1. th'[Loader] # th[Loader]
    BY <1>1, <1>4
  <2> QED BY <2>1 DEF Stays
<1>8. ASSUME Loads(t), Shown(t), Kept(t)
      PROVE  /\ Shown(t)' /\ Kept(t)'
             /\ "early" \notin faults'[t] /\ th'[Loader].at \in {"adding", "readding"} =>
                    item'[t].t = 0 /\ item'[t].b = 0 /\ (t \notin Icon => item'[t].ptr = 0)
  <2>1. th'[Loader].at \in {"adding", "readding"} => Readied(t)
    BY <1>2, <1>5 DEF Readied
  <2>2. Readied(t) => ToMake(t) /\ (t \notin Icon => ToLoad(t))
    BY DEF ToMake, ToLoad
  <2>3. Shown(t)' /\ Kept(t)'
    BY <1>4, <1>8 DEF Shown, Kept
  <2> QED BY <1>4, <1>8, <2>1, <2>2, <2>3 DEF Loads
<1>9. /\ \A u \in Tex \ {t} : item'[u] = item[u] /\ heap'[u] = heap[u] /\ faults'[u] = faults[u]
                               /\ owned'[u] = owned[u]
       /\ UNCHANGED queued /\ faults[t] \subseteq faults'[t] /\ item'[t] = item[t]
       /\ th'[Loader].at # "idle"
  BY <1>4, <1>5
<1>10. "early" \notin faults'[t] =>
           /\ owned'[t] <= 1
           /\ th'[Loader].at \in {"begin", "adding"} \cup Mid => owned'[t] = 0
  BY <1>3, <1>4, <1>5
<1>11. th'[Loader].at \in {"begin", "adding", "again", "readding"}
         => th'[Loader].at \in {"adding", "readding"}
       /\ th'[Loader].at \notin {"texture", "file"}
  BY <1>5
<1> QED BY <1>2, <1>3, <1>4, <1>5, <1>6, <1>7, <1>8, <1>9, <1>10, <1>11, LoaderStepGood

LEMMA DropRefreshedData ==
    ASSUME Inv, DataInv, DropRefreshed
    PROVE  DataInv' /\ \A u \in Tex : Stays(u)
<1> USE Threads DEF Inv
<1>1. /\ th[Loader].at \in {"dropping", "spared"} /\ Becomes(My(Loader), Dropped(Loader))
      /\ Blame(My(Loader), TornByDrop(Loader)) /\ Disowns(My(Loader))
      /\ Goto(Loader, "brush") /\ UNCHANGED <<heap, queued>>
  BY QueuesKept DEF DropRefreshed, Leaves, At
<1>2. PICK t \in Art \cup Icon : t = My(Loader)
  BY <1>1, LoaderHas
<1>3. /\ t \in Tex /\ t # None /\ KindInv /\ Good(t) /\ Pointers(t) /\ item[t].tex # "inactive"
      /\ item \in [Tex -> ItemState] /\ item[t] \in ItemState
      /\ faults \in [Tex -> SUBSET Fault] /\ "brush" \in Place /\ TypeOK
      /\ owned \in [Tex -> Nat] /\ ("early" \notin faults[t] => owned[t] <= 1)
  BY <1>1, <1>2, TextureAssumption, LoaderHas DEF DataInv, Good, Tex, TypeOK, Place
<1>4. /\ Others(Loader) /\ th'[Loader].at = "brush" /\ th'[Loader].tex = t
  BY <1>1, <1>2, <1>3, GotoMoves
<1>5. /\ \A u \in Tex \ {t} : item'[u] = item[u] /\ faults'[u] = faults[u]
                              /\ owned'[u] = owned[u]
      /\ faults[t] \subseteq faults'[t] /\ item'[t] = Dropped(Loader)
      /\ owned'[t] = IF owned[t] > 0 THEN owned[t] - 1 ELSE 0
  BY <1>1, <1>2, <1>3, OwnsOne DEF Becomes, Blame
<1>6. /\ item'[t].ptr = item[t].ptr /\ item'[t].t = item[t].t /\ item'[t].b = item[t].b
      /\ item'[t].file = item[t].file /\ item'[t].tex = item[t].tex
      /\ item'[t].brush = item[t].brush
  <2>1. item'[t] \in {item[t], [item[t] EXCEPT !.refs = th[Loader].seen - 1]}
    BY <1>2, <1>5 DEF Dropped
  <2> QED BY <1>3, <2>1 DEF ItemState
<1>7. heap'[t] = heap[t]
  BY <1>1
<1>8. Pointers(t)' /\ (Shown(t) => Shown(t)') /\ (Kept(t) => Kept(t)')
  BY <1>3, <1>5, <1>6, <1>7, SameData
<1>9. Stays(t)
  BY <1>1, <1>4 DEF Stays
<1>10. "early" \notin faults'[t] => owned'[t] = 0 /\ owned'[t] <= 1
  <2>1. owned[t] \in Nat
    BY <1>3
  <2> QED BY <1>3, <1>5, <2>1
<1> HIDE DEF Inv
<1>11. \A u \in Tex \ {t} : heap'[u] = heap[u]
  BY <1>1
<1>12. My(Loader) = t /\ UNCHANGED queued
  BY <1>1, <1>2
<1> QED BY <1>3, <1>4, <1>5, <1>6, <1>8, <1>9, <1>10, <1>11, <1>12, LoaderStepGood

\* Nobody counts in what the loader releases.
LEMMA RefreshedUncounted ==
    ASSUME Inv, DataInv, NEW t \in Tex, My(Loader) = t, th[Loader].at \in Mid,
           Without(t, {"torn", "early"}), Lone(t)
    PROVE  item[t].refs = 0
<1>1. owned[t] = 0
  BY LoaderHas DEF Mid, Without
<1>2. ~ Used(t)
  BY DEF Lone, Used, Holds
<1>3. t \notin Owned /\ Without(t, {"torn"})
  BY <1>1 DEF Owned, Without
<1> QED BY <1>2, <1>3, CountZero

LEMMA RefreshBrushData ==
    ASSUME Inv, DataInv, ReleaseAllBrush(Loader)
    PROVE  DataInv' /\ \A u \in Tex : Stays(u)
<1> USE Threads DEF Inv
<1>1. /\ th[Loader].at = "brush" /\ Free(My(Loader), FreedBrush(item[My(Loader)]))
      /\ Becomes(My(Loader), ReleaseBrush(item[My(Loader)])) /\ Goto(Loader, "texture")
      /\ UNCHANGED <<queued, owned, faults>>
  BY QueuesKept DEF ReleaseAllBrush, At
<1>2. PICK t \in Art \cup Icon : t = My(Loader)
  BY <1>1, LoaderHas
<1>3. /\ t \in Tex /\ t # None /\ KindInv /\ Good(t) /\ Pointers(t) /\ item[t].tex # "inactive"
      /\ item \in [Tex -> ItemState] /\ item[t] \in ItemState
      /\ "texture" \in Place /\ TypeOK /\ 0 \notin heap[t]
  BY <1>1, <1>2, TextureAssumption, LoaderHas DEF DataInv, Good, Tex, TypeOK, Place
<1>4. /\ Others(Loader) /\ th'[Loader].at = "texture" /\ th'[Loader].tex = t
  BY <1>1, <1>2, <1>3, GotoMoves
<1>5. heap'[t] = heap[t] \ FreedBrush(item[t]) /\ \A u \in Tex \ {t} : heap'[u] = heap[u]
  BY <1>1, <1>2, <1>3, FreeFrees
<1>6. (\A u \in Tex \ {t} : item'[u] = item[u]) /\ item'[t] = ReleaseBrush(item[t])
  BY <1>1, <1>2, <1>3 DEF Becomes
<1>7. /\ item'[t].ptr = item[t].ptr /\ item'[t].t = item[t].t /\ item'[t].b = 0
      /\ item'[t].file = item[t].file /\ item'[t].tex = item[t].tex
      /\ item'[t].brush = "ready"
  BY <1>3, <1>6, Fields
<1>8. Pointers(t)'
  BY <1>3, <1>5, <1>7 DEF Pointers, FreedBrush
<1>9. Stays(t)
  BY <1>1, <1>4 DEF Stays
<1>10. ASSUME Calm(t)', Lone(t), Kept(t)
       PROVE  Shown(t)' /\ Kept(t)' /\ item'[t].b = 0
  <2>1. "early" \notin faults'[t] => item[t].refs = 0
    <3>1. ASSUME "early" \notin faults'[t] PROVE Without(t, {"torn", "early"})
      BY <1>1, <1>10, <3>1 DEF Calm, Without
    <3> QED BY <1>1, <1>2, <1>3, <1>10, <3>1, RefreshedUncounted DEF Mid
  <2> QED BY <1>1, <1>3, <1>5, <1>7, <1>10, <2>1 DEF Shown, Kept, FreedBrush
<1>12. "early" \notin faults'[t] => owned'[t] <= 1 /\ owned'[t] = 0
  BY <1>1, <1>2, <1>6, LoaderHas DEF Mid
<1> HIDE DEF Inv
<1>11. /\ My(Loader) = t /\ UNCHANGED queued /\ faults[t] \subseteq faults'[t]
       /\ \A u \in Tex \ {t} : faults'[u] = faults[u] /\ owned'[u] = owned[u]
       /\ item'[t].tex # "inactive" /\ item'[t].brush # "loaded"
  BY <1>1, <1>2, <1>3, <1>7
<1> QED BY <1>3, <1>4, <1>5, <1>6, <1>8, <1>9, <1>10, <1>11, <1>12, LoaderStepGood

LEMMA RefreshTextureData ==
    ASSUME Inv, DataInv, ReleaseAllTexture(Loader)
    PROVE  DataInv' /\ \A u \in Tex : Stays(u)
<1> USE Threads DEF Inv
<1>1. /\ th[Loader].at = "texture" /\ Free(My(Loader), FreedTexture(item[My(Loader)]))
      /\ Becomes(My(Loader), ReleaseTexture(item[My(Loader)])) /\ Goto(Loader, "file")
      /\ UNCHANGED <<queued, owned, faults>>
  BY QueuesKept DEF ReleaseAllTexture, At
<1>2. PICK t \in Art \cup Icon : t = My(Loader)
  BY <1>1, LoaderHas
<1>3. /\ t \in Tex /\ t # None /\ KindInv /\ Good(t) /\ Pointers(t) /\ item[t].tex # "inactive"
      /\ item \in [Tex -> ItemState] /\ item[t] \in ItemState
      /\ "file" \in Place /\ TypeOK /\ 0 \notin heap[t]
  BY <1>1, <1>2, TextureAssumption, LoaderHas DEF DataInv, Good, Tex, TypeOK, Place
<1>4. /\ Others(Loader) /\ th'[Loader].at = "file" /\ th'[Loader].tex = t
  BY <1>1, <1>2, <1>3, GotoMoves
<1>5. heap'[t] = heap[t] \ FreedTexture(item[t]) /\ \A u \in Tex \ {t} : heap'[u] = heap[u]
  BY <1>1, <1>2, <1>3, FreeFrees
<1>6. (\A u \in Tex \ {t} : item'[u] = item[u]) /\ item'[t] = ReleaseTexture(item[t])
  BY <1>1, <1>2, <1>3 DEF Becomes
<1>7. /\ item'[t].ptr = item[t].ptr /\ item'[t].t = 0 /\ item'[t].b = item[t].b
      /\ item'[t].file = item[t].file /\ item'[t].tex = "ready"
      /\ item'[t].brush = item[t].brush
  BY <1>3, <1>6, Fields
<1>8. Pointers(t)'
  BY <1>3, <1>5, <1>7 DEF Pointers, FreedTexture
<1>9. Stays(t)
  BY <1>1, <1>4 DEF Stays
<1>10. ASSUME Calm(t)', Lone(t), Releases(t), Kept(t)
       PROVE  Shown(t)' /\ Kept(t)' /\ item'[t].b = 0 /\ item'[t].t = 0
  <2>1. "early" \notin faults'[t] => item[t].refs = 0
    <3>1. ASSUME "early" \notin faults'[t] PROVE Without(t, {"torn", "early"})
      BY <1>1, <1>10, <3>1 DEF Calm, Without
    <3> QED BY <1>1, <1>2, <1>3, <1>10, <3>1, RefreshedUncounted DEF Mid
  <2>2. item[t].b = 0 /\ item[t].brush # "loaded"
    BY <1>1, <1>2, <1>10 DEF Releases, At
  <2> QED BY <1>1, <1>3, <1>5, <1>7, <1>10, <2>1, <2>2 DEF Shown, Kept, FreedTexture
<1>12. "early" \notin faults'[t] => owned'[t] <= 1 /\ owned'[t] = 0
  BY <1>1, <1>2, <1>6, LoaderHas DEF Mid
<1> HIDE DEF Inv
<1>11. /\ My(Loader) = t /\ UNCHANGED queued /\ faults[t] \subseteq faults'[t]
       /\ \A u \in Tex \ {t} : faults'[u] = faults[u] /\ owned'[u] = owned[u]
       /\ item'[t].tex # "inactive" /\ item'[t].brush = item[t].brush
  BY <1>1, <1>2, <1>7
<1> QED BY <1>3, <1>4, <1>5, <1>6, <1>8, <1>9, <1>10, <1>11, <1>12, LoaderStepGood

LEMMA RefreshFileData ==
    ASSUME Inv, DataInv, NEW size \in {0, 1}, ReleaseAllFile(Loader, size)
    PROVE  DataInv' /\ \A u \in Tex : Stays(u)
<1> USE Threads DEF Inv
<1>1. /\ th[Loader].at = "file" /\ Free(My(Loader), FreedFile(My(Loader)))
      /\ Goto(Loader, "again") /\ UNCHANGED <<queued, owned>>
  BY QueuesKept DEF ReleaseAllFile, At
<1>2. PICK t \in Art \cup Icon : t = My(Loader)
  BY <1>1, LoaderHas
<1>3. /\ t \in Tex /\ t # None /\ KindInv /\ Good(t) /\ Pointers(t) /\ item[t].tex # "inactive"
      /\ item \in [Tex -> ItemState] /\ item[t] \in ItemState
      /\ faults \in [Tex -> SUBSET Fault]
      /\ "again" \in Place /\ TypeOK /\ 0 \notin heap[t]
  <2>1. t \in Tex /\ t # None
    BY <1>2, TextureAssumption DEF Tex
  <2>2. Good(t) /\ item[t].tex # "inactive"
    BY <1>1, <1>2, LoaderHas
  <2>3. KindInv /\ Pointers(t)
    BY <2>2 DEF DataInv, Good
  <2>4. /\ item \in [Tex -> ItemState] /\ faults \in [Tex -> SUBSET Fault]
        /\ heap[t] \subseteq 1 .. made[t] /\ made[t] \in Nat
    BY <2>1 DEF TypeOK
  <2> QED BY <2>1, <2>2, <2>3, <2>4 DEF Place
<1>4. /\ Others(Loader) /\ th'[Loader].at = "again" /\ th'[Loader].tex = t
  BY <1>1, <1>2, <1>3, GotoMoves
<1>5. heap'[t] = heap[t] \ FreedFile(t) /\ \A u \in Tex \ {t} : heap'[u] = heap[u]
  BY <1>1, <1>2, <1>3, FreeFrees
<1>6. /\ \A u \in Tex \ {t} : item'[u] = item[u] /\ faults'[u] = faults[u]
      /\ faults[t] \subseteq faults'[t]
      /\ item'[t] = IF t \in Icon
                      THEN [SetFilePointer(ReleaseFilePointer(item[t]), 1, size)
                              EXCEPT !.brush = "loading"]
                      ELSE ReleaseFilePointer(item[t])
  BY <1>2, <1>3 DEF ReleaseAllFile, Becomes, Blame
<1>7. /\ item'[t].ptr = (IF t \in Icon THEN 1 ELSE 0)
      /\ item'[t].t = item[t].t /\ item'[t].b = item[t].b
      /\ item'[t].tex = item[t].tex /\ item'[t].brush \in {"loading", item[t].brush}
      /\ t \notin Icon => item'[t].file = "ready"
  <2>1. ReleaseFilePointer(item[t]) \in ItemState
    BY <1>3, Methods
  <2>2. SetFilePointer(ReleaseFilePointer(item[t]), 1, size) \in ItemState
    BY <2>1, Methods
  <2>3. CASE t \in Icon
    <3> DEFINE r == ReleaseFilePointer(item[t])
               s == SetFilePointer(r, 1, size)
    <3>1. /\ s \in ItemState /\ s.ptr = 1 /\ s.t = r.t /\ s.b = r.b /\ s.tex = r.tex
          /\ r.t = item[t].t /\ r.b = item[t].b /\ r.tex = item[t].tex
      BY <1>3, <2>1, <2>2, Fields
    <3>2. item'[t] = [s EXCEPT !.brush = "loading"]
      BY <1>6, <2>3
    <3> HIDE DEF r, s
    <3> QED BY <2>3, <3>1, <3>2 DEF ItemState
  <2>4. CASE t \notin Icon
    BY <1>3, <1>6, <2>4, Fields
  <2> QED BY <2>3, <2>4
<1>8. Pointers(t)'
  BY <1>3, <1>5, <1>7 DEF Pointers, FreedFile
<1>9. Stays(t)
  BY <1>1, <1>4 DEF Stays
<1>10. ASSUME Calm(t)', Lone(t), Releases(t), Kept(t)
       PROVE  /\ Shown(t)' /\ Kept(t)'
              /\ item'[t].t = 0 /\ item'[t].b = 0 /\ (t \notin Icon => item'[t].ptr = 0)
  <2>1. item[t].b = 0 /\ item[t].t = 0 /\ item[t].brush # "loaded"
    BY <1>1, <1>2, <1>10 DEF Releases, At
  <2>2. Shown(t)' /\ item'[t].t = 0 /\ item'[t].b = 0 /\ (t \notin Icon => item'[t].ptr = 0)
    BY <1>7, <2>1 DEF Shown
  <2>3. Kept(t)'
    <3>1. "brush" \notin faults'[t] /\ "early" \notin faults'[t] =>
              heap[t] \subseteq {item[t].ptr, 0} \cup (IF t \in Icon THEN {1} ELSE {})
      BY <1>6, <1>10, <2>1 DEF Kept
    <3>2. t \in Icon => item[t].ptr \in {0, 1}
      BY <1>3 DEF Pointers
    <3> QED BY <1>3, <1>5, <2>2, <3>1, <3>2 DEF Kept, FreedFile
  <2> QED BY <2>2, <2>3
<1>12. "early" \notin faults'[t] => owned'[t] <= 1 /\ owned'[t] = 0
  BY <1>1, <1>2, <1>6, LoaderHas DEF Mid
<1> HIDE DEF Inv
<1>11. /\ My(Loader) = t
       /\ \A u \in Tex \ {t} : owned'[u] = owned[u]
       /\ UNCHANGED queued
       /\ item'[t].tex # "inactive" /\ (item[t].brush # "loaded" => item'[t].brush # "loaded")
  BY <1>1, <1>2, <1>3, <1>7
<1> QED BY <1>3, <1>4, <1>5, <1>6, <1>8, <1>9, <1>10, <1>11, <1>12, LoaderStepGood

LEMMA LoaderAllData ==
    ASSUME Inv, DataInv, ReleaseAll(Loader)
    PROVE  DataInv' /\ \A u \in Tex : Stays(u)
BY RefreshBrushData, RefreshTextureData, RefreshFileData DEF ReleaseAll

-----------------------------------------------------------------------------
(* What is asked for is queued.                                            *)

LEMMA QueuedGood ==
    ASSUME Inv, DataInv, NEW x \in {Loader, Screen}, NEW t \in Tex, My(x) = t, Others(x),
           th[x].at = "adding" \/ (th[x].at = "readding" /\ x = Loader),
           th'[x].at = "idle", th'[x].tex = None,
           \A u \in Tex \ {t} : /\ item'[u] = item[u] /\ heap'[u] = heap[u] /\ faults'[u] = faults[u]
                                /\ owned'[u] = owned[u]
                                /\ Same(fileQ, fileQ', u) /\ Same(texQ, texQ', u)
                                /\ Same(Handed, Handed', u),
           heap'[t] = heap[t], faults[t] \subseteq faults'[t], relQ' = relQ,
           owned'[t] = owned[t] + 1,
           item'[t].ptr = item[t].ptr, item'[t].t = item[t].t, item'[t].b = item[t].b,
           item'[t].file = item[t].file, item'[t].tex = item[t].tex,
           item'[t].brush = item[t].brush,
           \/ fileQ' = fileQ
           \/ Gains(fileQ, fileQ', t) /\ x = Loader /\ th[x].at = "adding" /\ t \in Art,
           texQ' = texQ \/ Gains(texQ, texQ', t),
           \/ Handed' = Handed
           \/ Gains(Handed, Handed', t) /\ fileQ' = fileQ /\ texQ' = texQ /\ t \notin Icon
    PROVE  DataInv' /\ \A u \in Tex : Stays(u)
<1> USE Threads
<1>1. /\ t # None /\ KindInv /\ Good(t) /\ Pointers(t) /\ x \in Thread
      /\ LoadW = FileW \cup TextureW \cup FileTexW
  BY TextureAssumption DEF DataInv, Good, LoadW
<1>2. /\ \A v \in LoadW \cup ReleaseW : th'[v] = th[v]
      /\ x = Loader => th'[Screen] = th[Screen]
      /\ x = Screen => th'[Loader] = th[Loader]
  BY DEF Others
<1>3. /\ x = Loader =>
            /\ t \in Art \cup Icon /\ t \notin Shot /\ item[t].tex # "inactive"
            /\ "early" \notin faults[t] => owned[t] = 0
      /\ x = Screen => t \in Shot /\ t \notin Bare
  <2>1. x = Loader =>
          /\ t \in Art \cup Icon /\ t \notin Shot /\ item[t].tex # "inactive"
          /\ "early" \notin faults[t] => owned[t] = 0
    BY LoaderHas DEF Mid
  <2>2. x = Screen => t \in Shot /\ t \notin Bare
    BY DEF Inv, ScreenInv, At
  <2> QED BY <2>1, <2>2
<1>4. /\ x = Loader => My(Screen) # t
      /\ x = Screen => My(Loader) # t
  <2>1. My(Screen) \in Shot \cup {None}
    BY <1>1 DEF Inv, ScreenInv, KindInv, At
  <2>2. My(Loader) \in Art \cup Icon \cup {None}
    BY <1>1, LoaderHas DEF KindInv, At
  <2> QED BY <1>1, <1>3, <2>1, <2>2, TextureAssumption
<1>5. My(Loader)' # t /\ My(Screen)' # t
  BY <1>1, <1>2, <1>4 DEF My
<1>6. ~ Asking(t)' /\ ~ Readied(t)' /\ Asking(t) /\ Readied(t)
  <2>1. ~ Asking(t)' /\ ~ Readied(t)'
    BY <1>5 DEF Asking, Readied
  <2>2. Asking(t) /\ Readied(t)
    BY DEF Asking, Readied
  <2> QED BY <2>1, <2>2
<1>7. (Without(t, {"overlap"})' => Without(t, {"overlap"}))
      /\ (Calm(t)' => Calm(t) /\ Without(t, {"overlap"}))
  BY DEF Without, Calm
<1>8. ASSUME Exclusive(t)
      PROVE  /\ Lone(t) /\ ~ Freeing(t)'
             /\ \A v \in LoadW \cup ReleaseW : My(v)' # t
             /\ Waits(fileQ, t)' => t \in Art /\ x = Loader /\ th[x].at = "adding" /\ Handed' = Handed
             /\ Waits(Handed, t)' => ~ Waits(fileQ, t)' /\ ~ Waits(texQ, t)' /\ t \notin Icon
             /\ Once(fileQ, t)' /\ Once(texQ, t)' /\ Once(Handed, t)'
  <2>1. Lone(t)
    BY <1>6, <1>8, AskingIsLone
  <2>2. \A v \in LoadW \cup ReleaseW : My(v)' # t
    BY <1>2, <2>1 DEF Lone, My
  <2>3. ~ Freeing(t)'
    BY <2>1, <2>2 DEF Freeing, Lone, Waits
  <2>4. \A q, r : ~ Waits(q, t) /\ (r = q \/ Gains(q, r, t)) => Once(r, t)
    BY DEF Waits, Once, Gains
  <2>5. Once(fileQ, t)' /\ Once(texQ, t)' /\ Once(Handed, t)'
    <3>1. Once(fileQ', t) /\ Once(texQ', t) /\ Once(Handed', t)
      BY <2>1, <2>4 DEF Lone
    <3> QED BY <3>1 DEF Once
  <2>6. Waits(fileQ, t)' => t \in Art /\ x = Loader /\ th[x].at = "adding" /\ Handed' = Handed
    <3> SUFFICES ASSUME Waits(fileQ, t)'
                 PROVE  t \in Art /\ x = Loader /\ th[x].at = "adding" /\ Handed' = Handed
      OBVIOUS
    <3>1. fileQ' # fileQ
      BY <2>1 DEF Lone, Waits
    <3> QED BY <3>1
  <2>7. Waits(Handed, t)' => ~ Waits(fileQ, t)' /\ ~ Waits(texQ, t)' /\ t \notin Icon
    <3> SUFFICES ASSUME Waits(Handed, t)'
                 PROVE  ~ Waits(fileQ, t)' /\ ~ Waits(texQ, t)' /\ t \notin Icon
      OBVIOUS
    <3>1. Handed' # Handed
      BY <2>1 DEF Lone, Waits
    <3>2. fileQ' = fileQ /\ texQ' = texQ /\ t \notin Icon
      BY <3>1
    <3> QED BY <2>1, <3>2 DEF Lone, Waits
  <2> QED BY <2>1, <2>2, <2>3, <2>5, <2>6, <2>7
<1>9. ASSUME Exclusive(t)
      PROVE  /\ ~ Holds(FileW, t, Reading)' /\ ~ Holds(FileTexW, t, Reading)'
             /\ ~ Holds(LoadW, t, Making)' /\ ~ Holds(LoadW, t, Brushing)'
             /\ ~ Used(t)' /\ ~ Holds(ReleaseW, t, Freed)'
  BY <1>1, <1>8, <1>9 DEF Holds, Used
<1>10. ASSUME Exclusive(t) PROVE Exclusive(t)'
  <2>1. Alone(fileQ, FileW, t)' /\ Alone(texQ, TextureW, t)' /\ Alone(Handed, FileTexW, t)'
    BY <1>1, <1>8, <1>10 DEF Alone
  <2>2. ~ (FirstLoad(t) /\ Reload(t))'
    BY <1>1, <1>8, <1>10 DEF FirstLoad, Reload
  <2>3. ToRead(t)' => item'[t].file = "ready"
    <3>1. ToRead(t)' => Waits(fileQ, t)'
      BY <1>5, <1>9, <1>10 DEF ToRead
    <3>2. Waits(fileQ, t)' => ToRead(t)
      BY <1>8, <1>10 DEF ToRead
    <3> QED BY <1>10, <3>1, <3>2 DEF Exclusive
  <2>4. item'[t].brush # "loaded"
    BY <1>6, <1>10 DEF Exclusive, ToBrush
  <2> QED BY <1>1, <1>6, <1>8, <1>10, <2>1, <2>2, <2>3, <2>4 DEF Exclusive
<1>11. ASSUME Exclusive(t), Loads(t) PROVE Loads(t)'
  <2>1. ToLoad(t)' => t \notin Icon
    BY <1>5, <1>6, <1>8, <1>9, <1>11, TextureAssumption DEF ToLoad, ToRead
  <2>2. "early" \notin faults'[t] =>
          item[t].t = 0 /\ item[t].b = 0 /\ (t \notin Icon => item[t].ptr = 0)
    BY <1>6, <1>11 DEF Loads, ToLoad, ToMake
  <2> QED BY <1>1, <1>8, <1>11, <2>1, <2>2 DEF Loads
<1>12. ASSUME Exclusive(t) PROVE Releases(t)'
  <2>1. t \notin Bare /\ t \in Owned'
    <3>1. owned[t] \in Nat
      BY DEF Inv, TypeOK
    <3> QED BY <1>3, <3>1, TextureAssumption DEF Owned
  <2> QED BY <1>5, <1>8, <1>9, <1>12, <2>1 DEF Releases
<1>13. Pointers(t)' /\ (Shown(t) => Shown(t)') /\ (Kept(t) => Kept(t)')
  BY <1>1, SameData
<1>14. Good(t)'
  <2>1. Listed(t)'
    BY <1>3, <1>5 DEF Listed
  <2> QED BY <1>1, <1>7, <1>10, <1>11, <1>12, <1>13, <2>1 DEF Good
<1>15. Stays(t)
  <2>1. th'[x] # th[x]
    BY <1>1 DEF My
  <2> QED BY <2>1 DEF Stays
<1>16. KindInv'
  <2>1. x \notin FileW \cup TextureW \cup FileTexW
    BY DEF LoadW
  <2> QED BY <1>1, <2>1, KindMoves
<1>17. \A u \in Tex \ {t} : Untouched(u)
  BY <1>1, SameItself, OnlyOne
<1> QED BY <1>14, <1>15, <1>16, <1>17, OneItem

\* AddRef of who asks changes nothing but the count.
LEMMA AddedOne ==
    ASSUME TypeOK, NEW x \in Thread, NEW t \in Tex, t = My(x), Becomes(t, Added(x)), Blame(t, Torn(x))
    PROVE  /\ \A u \in Tex \ {t} : item'[u] = item[u] /\ faults'[u] = faults[u]
           /\ faults[t] \subseteq faults'[t]
           /\ item'[t].ptr = item[t].ptr /\ item'[t].t = item[t].t /\ item'[t].b = item[t].b
           /\ item'[t].file = item[t].file /\ item'[t].tex = item[t].tex
           /\ item'[t].brush = item[t].brush
<1>1. item \in [Tex -> ItemState] /\ item[t] \in ItemState /\ faults \in [Tex -> SUBSET Fault]
  BY DEF TypeOK
<1>2. item'[t] = [item[t] EXCEPT !.refs = th[x].seen + 1]
  BY <1>1 DEF Becomes, Added
<1> QED BY <1>1, <1>2 DEF Becomes, Blame, ItemState

LEMMA QueueAssetData ==
    ASSUME Inv, DataInv, QueueAsset
    PROVE  DataInv' /\ \A u \in Tex : Stays(u)
<1> USE Threads DEF Inv
<1>1. th[Loader].at = "adding"
  BY DEF QueueAsset, At
<1>2. PICK t \in Art \cup Icon : t = My(Loader)
  BY <1>1, LoaderHas
<1>3. /\ Becomes(t, Added(Loader)) /\ Blame(t, Torn(Loader)) /\ Done(Loader)
      /\ fileQ' = (IF t \in Icon THEN fileQ ELSE Append(fileQ, t))
      /\ texQ' = Append(texQ, t)
      /\ Owns(t)
      /\ UNCHANGED <<heap, fileTexQ, hand, relQ>>
  BY <1>2 DEF QueueAsset
<1>4. /\ t \in Tex /\ TypeOK /\ fileQ \in Seq(Art) /\ texQ \in Seq(Art \cup Icon)
      /\ (t \notin Icon => t \in Art)
  BY DEF Tex, TypeOK
<1>5. Others(Loader) /\ th'[Loader].at = "idle" /\ th'[Loader].tex = None
  BY <1>3, <1>4, DoneMoves
<1>6. Gains(texQ, texQ', t) /\ \A u : u # t => Same(texQ, texQ', u)
  BY <1>3, <1>4, AppendGains
<1>7. /\ fileQ' = fileQ \/ (Gains(fileQ, fileQ', t) /\ t \in Art)
      /\ \A u : u # t => Same(fileQ, fileQ', u)
  <2>1. CASE t \in Icon
    BY <1>3, <2>1, SameItself
  <2>2. CASE t \notin Icon
    BY <1>3, <1>4, <2>2, AppendGains
  <2> QED BY <2>1, <2>2
<1>8. /\ \A u \in Tex \ {t} : item'[u] = item[u] /\ faults'[u] = faults[u]
      /\ faults[t] \subseteq faults'[t]
      /\ item'[t].ptr = item[t].ptr /\ item'[t].t = item[t].t /\ item'[t].b = item[t].b
      /\ item'[t].file = item[t].file /\ item'[t].tex = item[t].tex
      /\ item'[t].brush = item[t].brush
  BY <1>2, <1>3, <1>4, AddedOne
<1>9. /\ \A u \in Tex \ {t} : /\ heap'[u] = heap[u] /\ owned'[u] = owned[u]
                              /\ Same(Handed, Handed', u)
      /\ heap'[t] = heap[t] /\ owned'[t] = owned[t] + 1 /\ relQ' = relQ /\ Handed' = Handed
  BY <1>3, <1>4, HandedKept, OwnsOne, SameItself
<1> HIDE DEF Inv
<1> QED BY <1>1, <1>2, <1>4, <1>5, <1>6, <1>7, <1>8, <1>9, QueuedGood

LEMMA QueueRefreshedData ==
    ASSUME Inv, DataInv, QueueRefreshed
    PROVE  DataInv' /\ \A u \in Tex : Stays(u)
<1> USE Threads DEF Inv
<1>1. th[Loader].at = "readding"
  BY DEF QueueRefreshed, At
<1>2. PICK t \in Art \cup Icon : t = My(Loader)
  BY <1>1, LoaderHas
<1>3. /\ Becomes(t, Added(Loader)) /\ Blame(t, Torn(Loader)) /\ Done(Loader)
      /\ fileTexQ' = (IF t \in Icon THEN fileTexQ ELSE Append(fileTexQ, t))
      /\ texQ' = (IF t \in Icon THEN Append(texQ, t) ELSE texQ)
      /\ Owns(t)
      /\ UNCHANGED <<heap, fileQ, relQ, hand>>
  BY <1>2 DEF QueueRefreshed
<1>4. /\ t \in Tex /\ TypeOK /\ texQ \in Seq(Art \cup Icon)
  BY DEF Tex, TypeOK
<1>5. Others(Loader) /\ th'[Loader].at = "idle" /\ th'[Loader].tex = None
  BY <1>3, <1>4, DoneMoves
<1>6. /\ texQ' = texQ \/ Gains(texQ, texQ', t)
      /\ Handed' = Handed
         \/ (Gains(Handed, Handed', t) /\ fileQ' = fileQ /\ texQ' = texQ /\ t \notin Icon)
      /\ \A u \in Tex \ {t} : Same(texQ, texQ', u) /\ Same(Handed, Handed', u)
  <2>1. CASE t \in Icon
    <3>1. Gains(texQ, texQ', t) /\ \A u : u # t => Same(texQ, texQ', u)
      BY <1>3, <1>4, <2>1, AppendGains
    <3>2. Handed' = Handed
      BY <1>3, <2>1, HandedKept
    <3> QED BY <3>1, <3>2, SameItself
  <2>2. CASE t \notin Icon
    <3>1. Gains(Handed, Handed', t) /\ \A u \in Tex \ {t} : Same(Handed, Handed', u)
      BY <1>3, <1>4, <2>2, HandedGrows
    <3> QED BY <1>3, <2>2, <3>1, SameItself
  <2> QED BY <2>1, <2>2
<1>7. /\ \A u \in Tex \ {t} : item'[u] = item[u] /\ faults'[u] = faults[u]
      /\ faults[t] \subseteq faults'[t]
      /\ item'[t].ptr = item[t].ptr /\ item'[t].t = item[t].t /\ item'[t].b = item[t].b
      /\ item'[t].file = item[t].file /\ item'[t].tex = item[t].tex
      /\ item'[t].brush = item[t].brush
  BY <1>2, <1>3, <1>4, AddedOne
<1>8. /\ \A u \in Tex \ {t} : /\ heap'[u] = heap[u] /\ owned'[u] = owned[u]
                              /\ Same(fileQ, fileQ', u)
      /\ heap'[t] = heap[t] /\ owned'[t] = owned[t] + 1 /\ relQ' = relQ /\ fileQ' = fileQ
  BY <1>3, <1>4, OwnsOne, SameItself
<1> HIDE DEF Inv
<1> QED BY <1>1, <1>2, <1>4, <1>5, <1>6, <1>7, <1>8, QueuedGood

LEMMA QueueShotData ==
    ASSUME Inv, DataInv, QueueShot
    PROVE  DataInv' /\ \A u \in Tex : Stays(u)
<1> USE Threads DEF Inv
<1>1. th[Screen].at = "adding"
  BY DEF QueueShot, At
<1>2. PICK t \in Shot : t = My(Screen)
  BY <1>1 DEF ScreenInv, At
<1>3. /\ Becomes(t, Added(Screen)) /\ Blame(t, Torn(Screen)) /\ Done(Screen)
      /\ fileTexQ' = Append(fileTexQ, t)
      /\ Owns(t)
      /\ UNCHANGED <<heap, fileQ, texQ, relQ, hand>>
  BY <1>2 DEF QueueShot
<1>4. t \in Tex /\ t \notin Icon /\ TypeOK
  BY TextureAssumption DEF Tex, TypeOK
<1>5. Others(Screen) /\ th'[Screen].at = "idle" /\ th'[Screen].tex = None
  BY <1>3, <1>4, DoneMoves
<1>6. Gains(Handed, Handed', t) /\ \A u \in Tex \ {t} : Same(Handed, Handed', u)
  BY <1>3, <1>4, HandedGrows
<1>7. /\ \A u \in Tex \ {t} : item'[u] = item[u] /\ faults'[u] = faults[u]
      /\ faults[t] \subseteq faults'[t]
      /\ item'[t].ptr = item[t].ptr /\ item'[t].t = item[t].t /\ item'[t].b = item[t].b
      /\ item'[t].file = item[t].file /\ item'[t].tex = item[t].tex
      /\ item'[t].brush = item[t].brush
  BY <1>2, <1>3, <1>4, AddedOne
<1>8. /\ \A u \in Tex \ {t} : /\ heap'[u] = heap[u] /\ owned'[u] = owned[u]
                              /\ Same(fileQ, fileQ', u) /\ Same(texQ, texQ', u)
      /\ heap'[t] = heap[t] /\ owned'[t] = owned[t] + 1
      /\ relQ' = relQ /\ fileQ' = fileQ /\ texQ' = texQ
  BY <1>3, <1>4, OwnsOne, SameItself
<1> HIDE DEF Inv
<1> QED BY <1>1, <1>2, <1>4, <1>5, <1>6, <1>7, <1>8, QueuedGood

LEMMA LoaderData ==
    ASSUME Inv, DataInv, LoaderStep
    PROVE  DataInv' /\ \A u \in Tex : Stays(u)
BY QueueAssetData, DropRefreshedData, QueueRefreshedData, LoaderAllData, CountLoaderData
   DEF LoaderStep

-----------------------------------------------------------------------------
(* The screen's thread.                                                    *)

LEMMA NoItem ==
    ASSUME DataInv, Others(Screen), UNCHANGED <<item, heap, queued, owned, faults>>,
           th'[Screen].at = "idle" <=> th'[Screen].tex = None,
           \/ /\ th[Screen].at \notin {"begin", "adding"}
              /\ th'[Screen].at \notin {"begin", "adding"}
           \/ /\ th[Screen].at \in {"begin", "adding"} /\ th'[Screen].at \in {"begin", "adding"}
              /\ th'[Screen].tex = My(Screen)
    PROVE  DataInv' /\ \A u \in Tex : Stays(u)
<1> USE Threads
<1>1. \A u \in Tex : Untouched(u)
  <2> SUFFICES ASSUME NEW u \in Tex PROVE Untouched(u)
    OBVIOUS
  <2>1. /\ item'[u] = item[u] /\ heap'[u] = heap[u] /\ faults'[u] = faults[u]
        /\ owned'[u] = owned[u]
        /\ Same(fileQ, fileQ', u) /\ Same(texQ, texQ', u)
        /\ Same(Handed, Handed', u) /\ Same(relQ, relQ', u)
    BY SameItself DEF queued
  <2>2. \A v \in Thread \ {Screen} : th'[v] = th[v]
    BY DEF Others
  <2> QED BY <2>1, <2>2 DEF Untouched
<1>2. KindInv'
  <2>1. Screen \notin FileW \cup TextureW \cup FileTexW
    BY DEF LoadW
  <2> QED BY <2>1, KindMoves DEF DataInv
<1> QED BY <1>1, <1>2, UntouchedGood DEF DataInv

LEMMA CountScreenData ==
    ASSUME Inv, DataInv, Counts(Screen)
    PROVE  DataInv' /\ \A u \in Tex : Stays(u)
<1>1. /\ Screen \in Thread /\ Screen \notin LoadW /\ Screen # Loader
      /\ Screen \notin FileTexW
  BY TextureAssumption DEF Thread, LoadW
<1>2. /\ th[Screen].at \in {"begin", "leave", "lower"}
      /\ My(Screen) \in Tex /\ Others(Screen) /\ th'[Screen].tex = My(Screen)
      /\ th[Screen].at = "begin" => th'[Screen].at = "adding"
      /\ th[Screen].at = "leave" => th'[Screen].at \in {"lower", "spared"}
      /\ th[Screen].at = "lower" => th'[Screen].at = "dropping"
      /\ UNCHANGED <<item, heap, queued, owned>> /\ faults' = faults
  BY <1>1, CountMoves
<1>3. My(Screen) # None
  BY <1>2, TextureAssumption
<1> QED BY <1>2, <1>3, NoItem

\* A shot that is asked for, and was not busy, has nothing yet.
LEMMA ShowData ==
    ASSUME Inv, DataInv, NEW s \in Shot, Show(s), s \notin Owned,
           th[Screen].at \in {"idle", "show"}, UNCHANGED <<heap, queued, owned>>
    PROVE  DataInv' /\ \A u \in Tex : Stays(u)
<1> USE Threads DEF Inv
<1>1. /\ s \in Tex /\ s # None /\ s \notin Art \cup Icon /\ KindInv /\ Good(s) /\ Pointers(s)
      /\ item \in [Tex -> ItemState] /\ item[s] \in ItemState
      /\ faults \in [Tex -> SUBSET Fault] /\ "begin" \in Place /\ TypeOK
  BY TextureAssumption DEF DataInv, Good, Tex, TypeOK, Place
<1>2. CASE s \in Bare
  <2>1. Done(Screen) /\ UNCHANGED <<item, faults>>
    BY <1>2 DEF Show
  <2>2. Others(Screen) /\ th'[Screen].at = "idle" /\ th'[Screen].tex = None
    BY <1>1, <2>1, DoneMoves
  <2> HIDE DEF Inv
  <2> QED BY <2>1, <2>2, NoItem
<1>3. CASE s \notin Bare
  <2>1. /\ Becomes(s, SetTextureInfo(item[s])) /\ Blame(s, Overlap(s))
        /\ Turns(Screen, s, "begin")
    BY <1>3 DEF Show
  <2>2. Others(Screen) /\ th'[Screen].at = "begin" /\ th'[Screen].tex = s
    BY <1>1, <2>1, TurnsMoves
  <2>3. /\ \A u \in Tex \ {s} : item'[u] = item[u] /\ faults'[u] = faults[u]
        /\ faults'[s] = faults[s] \cup Overlap(s) /\ item'[s] = SetTextureInfo(item[s])
    BY <1>1, <2>1 DEF Becomes, Blame
  <2>4. /\ item'[s].ptr = item[s].ptr /\ item'[s].t = item[s].t /\ item'[s].b = item[s].b
        /\ item'[s].file = "ready" /\ item'[s].tex = "ready" /\ item'[s].brush = "loading"
    BY <1>1, <2>3, Fields
  <2>5. Pointers(s)' /\ Stays(s)
    BY <1>1, <2>4 DEF Pointers, Stays
  <2>6. Without(s, {"overlap"})' => Lone(s)
    BY <1>1, <2>3, IdleIsLone DEF Without, Overlap
  <2>7. Lone(s) => Lone(s)'
    BY <2>2 DEF Lone, queued, Waits, My, Others
  <2>8. My(Loader)' # s
    <3>1. My(Loader) \in Art \cup Icon \cup {None}
      BY <1>1, LoaderHas DEF KindInv, At
    <3> QED BY <1>1, <2>2, <3>1 DEF Others, My
  <2>9. Without(s, {"overlap"})' => Exclusive(s)'
    <3>1. ASSUME Lone(s)' PROVE Exclusive(s)'
      BY <1>1, <2>4, <3>1, LoneGood
    <3> QED BY <2>6, <2>7, <3>1
  <2>10. ASSUME Calm(s)' PROVE Loads(s)' /\ Releases(s)' /\ Shown(s)' /\ Kept(s)'
    <3>1. Calm(s) /\ Without(s, {"overlap"})' /\ Without(s, {"overlap"})
      BY <2>3, <2>10 DEF Calm, Without
    <3>2. Lone(s) /\ Lone(s)' /\ Releases(s) /\ Kept(s)
      BY <1>1, <2>6, <2>7, <3>1 DEF Good
    <3>3. None3(item[s])
      BY <3>2 DEF Releases, Lone, Freeing
    <3>4. item'[s].t = 0 /\ item'[s].b = 0 /\ item'[s].ptr = 0 /\ None3(item'[s])
      BY <2>4, <3>3 DEF None3
    <3>5. Loads(s)' /\ Releases(s)'
      BY <1>1, <1>3, <2>4, <2>8, <3>2, <3>4, LoneGood
    <3>6. Shown(s)' /\ Kept(s)'
      BY <2>3, <2>4, <3>2 DEF Shown, Kept
    <3> QED BY <3>5, <3>6
  <2>11. Good(s)'
    BY <2>5, <2>9, <2>10 DEF Good, Listed
  <2>12. KindInv'
    <3>1. Screen \notin FileW \cup TextureW \cup FileTexW
      BY DEF LoadW
    <3> QED BY <1>1, <2>2, <3>1, KindMoves
  <2>13. \A u \in Tex \ {s} : Untouched(u)
    <3>1. UNCHANGED <<fileQ, texQ, Handed, relQ>>
      BY DEF queued
    <3> QED BY <1>1, <2>2, <2>3, <3>1, SameItself, OnlyOne
  <2> QED BY <1>1, <2>5, <2>11, <2>12, <2>13, OneItem
<1> QED BY <1>2, <1>3

LEMMA ShowNextData ==
    ASSUME Inv, DataInv, ShowNext
    PROVE  DataInv' /\ \A u \in Tex : Stays(u)
<1>1. /\ th[Screen].at = "show" /\ Show(selected) /\ UNCHANGED <<heap, queued, owned>>
  BY QueuesKept DEF ShowNext, At
<1>2. selected \in Shot /\ selected \notin Owned
  BY <1>1 DEF Inv, ScreenInv, At
<1> QED BY <1>1, <1>2, ShowData

LEMMA SelectData ==
    ASSUME Inv, DataInv, NEW s \in Shot, Select(s)
    PROVE  DataInv' /\ \A u \in Tex : Stays(u)
<1> USE Threads
<1>1. th[Screen].at = "idle" /\ UNCHANGED <<heap, queued, owned>>
  BY QueuesKept DEF Select, At
<1>2. CASE selected = None
  <2>1. Show(s)
    BY <1>2 DEF Select
  <2>2. s \notin Owned
    BY <1>1, <1>2, TextureAssumption DEF Inv, ScreenInv, At, Tex
  <2> QED BY <1>1, <2>1, <2>2, ShowData
<1>3. CASE selected # None
  <2>1. Turns(Screen, selected, "leave") /\ UNCHANGED <<item, faults>>
    BY <1>3 DEF Select
  <2>2. selected \in Tex /\ TypeOK /\ "leave" \in Place
    BY <1>3 DEF Inv, TypeOK, Tex, Place
  <2>3. Others(Screen) /\ th'[Screen].at = "leave" /\ th'[Screen].tex = selected
    BY <2>1, <2>2, TurnsMoves
  <2> QED BY <1>1, <1>3, <2>1, <2>3, NoItem
<1> QED BY <1>2, <1>3

\* The shot that was left is still what it was, and will be freed.
LEMMA LeaveData ==
    ASSUME Inv, DataInv, Leave
    PROVE  DataInv' /\ \A u \in Tex : Stays(u)
<1> USE Threads DEF Inv
<1>1. th[Screen].at \in {"dropping", "spared"}
  BY DEF Leave, Leaves, At
<1>2. PICK t \in Shot : t = My(Screen)
  BY <1>1 DEF ScreenInv, At
<1>3. /\ Becomes(t, Dropped(Screen)) /\ Blame(t, TornByDrop(Screen)) /\ Goto(Screen, "show")
      /\ Disowns(t) /\ relQ' = Append(relQ, t)
      /\ UNCHANGED <<heap, fileQ, texQ, Handed>>
  BY <1>2, HandedKept DEF Leave
<1>4. /\ t \in Tex /\ t # None /\ t \notin Art \cup Icon /\ KindInv /\ Good(t) /\ Pointers(t)
      /\ item \in [Tex -> ItemState] /\ item[t] \in ItemState
      /\ faults \in [Tex -> SUBSET Fault] /\ "show" \in Place /\ TypeOK /\ relQ \in Seq(Shot)
      /\ LoadW = FileW \cup TextureW \cup FileTexW
  BY TextureAssumption DEF DataInv, Good, Tex, TypeOK, Place, LoadW
<1>5. Others(Screen) /\ th'[Screen].at = "show" /\ th'[Screen].tex = t
  BY <1>2, <1>3, <1>4, GotoMoves
<1>6. Gains(relQ, relQ', t) /\ \A u : u # t => Same(relQ, relQ', u)
  BY <1>3, <1>4, AppendGains
<1>7. /\ \A u \in Tex \ {t} : item'[u] = item[u] /\ faults'[u] = faults[u]
      /\ faults[t] \subseteq faults'[t]
      /\ item'[t].ptr = item[t].ptr /\ item'[t].t = item[t].t /\ item'[t].b = item[t].b
      /\ item'[t].file = item[t].file /\ item'[t].tex = item[t].tex
      /\ item'[t].brush = item[t].brush
  <2>1. item'[t] \in {item[t], [item[t] EXCEPT !.refs = th[Screen].seen - 1]}
    BY <1>2, <1>3, <1>4 DEF Becomes, Dropped
  <2> QED BY <1>3, <1>4, <2>1 DEF Becomes, Blame, ItemState
<1>8. /\ \A v \in LoadW \cup ReleaseW \cup {Loader} : th'[v] = th[v]
      /\ Freeing(t)' /\ t \notin Owned'
  <2>1. Waits(relQ, t)'
    BY <1>6 DEF Gains, Waits
  <2>2. owned'[t] = (IF owned[t] > 0 THEN owned[t] - 1 ELSE 0) /\ owned[t] \in Nat /\ owned[t] <= 1
    BY <1>3, <1>4, OwnsOne DEF TypeOK, ScreenInv
  <2>3. t \notin Owned'
    BY <2>2 DEF Owned
  <2> QED BY <1>5, <2>1, <2>3 DEF Others, Freeing
<1>9. My(Loader) # t /\ My(Loader)' # t
  <2>1. My(Loader) \in Art \cup Icon \cup {None}
    BY <1>4, LoaderHas DEF KindInv, At
  <2> QED BY <1>4, <1>8, <2>1 DEF My
<1>10. ~ Asking(t)' /\ ~ Readied(t)'
  BY <1>5, <1>9 DEF Asking, Readied, My
<1>11. /\ (Waits(fileQ, t)' <=> Waits(fileQ, t)) /\ (Waits(texQ, t)' <=> Waits(texQ, t))
       /\ (Waits(Handed, t)' <=> Waits(Handed, t))
       /\ (Once(fileQ, t)' <=> Once(fileQ, t)) /\ (Once(texQ, t)' <=> Once(texQ, t))
       /\ (Once(Handed, t)' <=> Once(Handed, t))
  BY <1>3 DEF Waits, Once
<1>12. \A v \in LoadW \cup ReleaseW : My(v)' = My(v) /\ th'[v] = th[v]
  BY <1>8 DEF My
<1>13. /\ FirstLoad(t)' <=> FirstLoad(t)
       /\ Reload(t)' <=> Reload(t)
       /\ Used(t)' <=> Used(t)
       /\ Holds(ReleaseW, t, Freed)' <=> Holds(ReleaseW, t, Freed)
       /\ Holds(FileW, t, Reading)' <=> Holds(FileW, t, Reading)
       /\ Holds(FileTexW, t, Reading)' <=> Holds(FileTexW, t, Reading)
       /\ Holds(LoadW, t, Making)' <=> Holds(LoadW, t, Making)
       /\ Holds(LoadW, t, Brushing)' <=> Holds(LoadW, t, Brushing)
  BY <1>4, <1>11, <1>12 DEF FirstLoad, Reload, Used, Holds
<1>14. /\ ToRead(t)' => ToRead(t)
       /\ ToBrush(t)' => ToBrush(t)
  BY <1>9, <1>10, <1>11, <1>13 DEF ToRead, ToBrush
<1>15. /\ ToLoad(t)' => ToLoad(t)
       /\ ToMake(t)' => ToMake(t)
  BY <1>10, <1>11, <1>13, <1>14 DEF ToLoad, ToMake
<1>16. ASSUME Exclusive(t) PROVE Exclusive(t)'
  <2>1. Alone(fileQ, FileW, t)' /\ Alone(texQ, TextureW, t)' /\ Alone(Handed, FileTexW, t)'
    BY <1>4, <1>11, <1>12, <1>16 DEF Exclusive, Alone
  <2>2. (\A v \in TextureW : My(v) = t => At(v, "held"))
        => (\A v \in TextureW : My(v) = t => At(v, "held"))'
    BY <1>4, <1>12 DEF At
  <2> QED BY <1>7, <1>8, <1>10, <1>13, <1>14, <1>16, <2>1, <2>2 DEF Exclusive
<1>17. ASSUME Loads(t) PROVE Loads(t)'
  BY <1>7, <1>12, <1>15, <1>17 DEF Loads, At
<1>18. ASSUME Releases(t) PROVE Releases(t)'
  <2>1. \A v \in ReleaseW \cup {Loader} : My(v)' = t => My(v) = t /\ th'[v] = th[v]
    BY <1>8 DEF My
  <2>2. None3(item[t]) => None3(item'[t])
    BY <1>7 DEF None3
  <2> QED BY <1>7, <1>8, <1>13, <1>18, <2>1, <2>2 DEF Releases, At
<1>19. Pointers(t)' /\ (Shown(t) => Shown(t)') /\ (Kept(t) => Kept(t)')
  <2>1. heap'[t] = heap[t]
    BY <1>3
  <2> QED BY <1>4, <1>7, <2>1, SameData
<1>20. (Without(t, {"overlap"})' => Without(t, {"overlap"})) /\ (Calm(t)' => Calm(t))
  BY <1>7 DEF Without, Calm
<1>21. Good(t)'
  BY <1>4, <1>16, <1>17, <1>18, <1>19, <1>20 DEF Good, Listed
<1>22. Stays(t)
  BY <1>1, <1>5 DEF Stays
<1>23. KindInv'
  <2>1. Screen \notin FileW \cup TextureW \cup FileTexW
    BY DEF LoadW
  <2> QED BY <1>4, <1>5, <2>1, KindMoves
<1>24. \A u \in Tex \ {t} : Untouched(u)
  <2>1. \A u \in Tex \ {t} : heap'[u] = heap[u] /\ owned'[u] = owned[u]
    BY <1>3, <1>4, OwnsOne
  <2>2. fileQ' = fileQ /\ texQ' = texQ /\ Handed' = Handed
    BY <1>3
  <2> QED BY <1>1, <1>2, <1>4, <1>5, <1>6, <1>7, <2>1, <2>2, SameItself, OnlyOne
<1> QED BY <1>4, <1>21, <1>22, <1>23, <1>24, OneItem

LEMMA ScreenData ==
    ASSUME Inv, DataInv, ScreenStep
    PROVE  DataInv' /\ \A u \in Tex : Stays(u)
BY LeaveData, ShowNextData, QueueShotData, CountScreenData DEF ScreenStep

LEMMA RequestData ==
    ASSUME Inv, DataInv, Request
    PROVE  DataInv' /\ \A u \in Tex : Stays(u)
BY NoAssetData, RefreshData, LoadAssetData, SelectData DEF Request

-----------------------------------------------------------------------------
(* The invariant, and what it is for.                                      *)

LEMMA InitData ==
    ASSUME Init
    PROVE  DataInv
<1> USE TextureAssumption DEF Init
<1>1. KindInv
  <2>1. \A w \in Thread : th[w].at = "idle" /\ th[w].tex = None
    BY DEF Idle
  <2>2. LoadW \subseteq Thread /\ LoadW = FileW \cup TextureW \cup FileTexW
    BY DEF Thread, LoadW
  <2> QED BY <2>1, <2>2 DEF KindInv, At, My
<1>2. ASSUME NEW t \in Tex PROVE Good(t)
  <2>1. /\ \A w \in Thread : My(w) = None /\ th[w].at = "idle"
        /\ t # None
        /\ LoadW \subseteq Thread /\ ReleaseW \subseteq Thread
        /\ Loader \in Thread /\ Screen \in Thread
        /\ FileW \cup TextureW \cup FileTexW = LoadW
    BY DEF My, Idle, Thread, LoadW
  <2>2. ~ Waits(fileQ, t) /\ ~ Waits(texQ, t) /\ ~ Waits(Handed, t) /\ ~ Waits(relQ, t)
        /\ Once(fileQ, t) /\ Once(texQ, t) /\ Once(Handed, t)
    <3>1. Handed = <<>>
      BY DEF Handed, Ahead
    <3> QED BY <3>1 DEF Waits, Once
  <2>3. /\ item[t].ptr = 0 /\ item[t].t = 0 /\ item[t].b = 0
        /\ item[t].file = "inactive" /\ item[t].tex = "inactive" /\ item[t].brush = "loading"
        /\ heap[t] = IF t \in Icon THEN {1} ELSE {}
        /\ owned[t] = 0
    OBVIOUS
  <2>4. ~ FirstLoad(t) /\ ~ Reload(t) /\ ~ Freeing(t) /\ ~ Asking(t) /\ ~ Readied(t)
    BY <2>1, <2>2 DEF FirstLoad, Reload, Freeing, Asking, Readied
  <2>5. \A W, places : W \subseteq Thread => ~ Holds(W, t, places)
    BY <2>1 DEF Holds
  <2>6. ~ ToRead(t) /\ ~ ToBrush(t) /\ ~ ToLoad(t) /\ ~ ToMake(t) /\ ~ Used(t)
    <3>1. FileW \subseteq Thread /\ FileTexW \subseteq Thread
      BY <2>1
    <3> QED BY <2>1, <2>2, <2>4, <2>5, <3>1 DEF ToRead, ToBrush, ToLoad, ToMake, Used
  <2>7. Pointers(t)
    BY <2>3 DEF Pointers
  <2>8. Exclusive(t)
    <3>1. Alone(fileQ, FileW, t) /\ Alone(texQ, TextureW, t) /\ Alone(Handed, FileTexW, t)
      BY <2>1, <2>2 DEF Alone
    <3> QED BY <2>4, <2>6, <3>1 DEF Exclusive
  <2>9. Loads(t)
    BY <2>1, <2>6 DEF Loads
  <2>10. Releases(t)
    <3>1. \A w \in ReleaseW \cup {Loader} : My(w) # t
      BY <2>1
    <3> QED BY <2>1, <2>3, <2>5, <2>6, <3>1 DEF Releases, None3
  <2>11. Shown(t) /\ Kept(t)
    BY <2>3 DEF Shown, Kept
  <2>12. Listed(t)
    BY <2>1, <2>3 DEF Listed, None3
  <2> QED BY <2>7, <2>8, <2>9, <2>10, <2>11, <2>12 DEF Good
<1> QED BY <1>1, <1>2 DEF DataInv

LEMMA StutterData ==
    ASSUME DataInv, UNCHANGED vars
    PROVE  DataInv' /\ \A u \in Tex : Stays(u)
<1>1. /\ th'[Screen].at = "idle" <=> th'[Screen].tex = None
      /\ th' = th /\ UNCHANGED <<item, heap, queued, owned, faults>>
  BY Threads, QueuesKept DEF vars, DataInv, KindInv, At, My
<1> QED BY <1>1, NoItem DEF Others, My

LEMMA StepData ==
    ASSUME Inv, DataInv, [Next]_vars
    PROVE  DataInv' /\ \A u \in Tex : Stays(u)
BY RequestData, LoaderData, ScreenData, DispatchData, PopData, WorkerData, StutterData DEF Next

LEMMA DataInvariance == Spec => [](Inv /\ DataInv)
<1>1. Init => Inv /\ DataInv
  BY InitInvariant, InitData
<1>2. Inv /\ DataInv /\ [Next]_vars => DataInv'
  BY StepData
<1>3. Spec => []Inv
  BY Invariance
<1> QED BY <1>1, <1>2, <1>3, PTL DEF Spec

\* Who makes a texture of a buffer, or attaches a brush to a texture, has it:
\* no release came between (FileTexWorker.cpp and TextureWorker.cpp hold
\* the pointers over their steps, with nothing but the count to protect them).
THEOREM DataLive == Spec => []DataInUseIsLive
<1>1. Inv /\ DataInv => DataInUseIsLive
  <2> SUFFICES ASSUME Inv, DataInv, NEW w \in LoadW, My(w) # None,
                      Without(My(w), {"overlap", "torn", "late"})
               PROVE  /\ At(w, "making") => th[w].data \in heap[My(w)]
                      /\ At(w, "brushing") => item[My(w)].t \in heap[My(w)]
    BY DEF DataInUseIsLive
  <2>1. th[w].at # "idle"
    BY Threads DEF DataInv, KindInv, At
  <2>2. My(w) \in Tex
    BY <2>1, HasItem DEF Inv
  <2>3. Pointers(My(w)) /\ Loads(My(w))
    BY <2>2 DEF DataInv, Good, Calm
  <2> QED BY <2>3 DEF Loads, Pointers
<1> QED BY <1>1, DataInvariance, PTL

\* What is drawn exists: the brush of an item whose state says it is loaded
\* (GetTextureBrush asks for nothing else), and the texture it was made of.
THEOREM ShownLive == Spec => []ShownIsLive
<1>1. DataInv => ShownIsLive
  BY DEF DataInv, Good, Calm, Pointers, Shown, ShownIsLive
<1> QED BY <1>1, DataInvariance, PTL

\* No buffer, texture or brush is forgotten before it is freed, through every
\* load, failure, refresh and release: but for an update that overtakes the
\* first load, a brush that fails, and the collisions the property names.
THEOREM NoLeak == Spec => []NothingLeaks
<1>1. DataInv => NothingLeaks
  <2> SUFFICES ASSUME DataInv, NEW t \in Tex, Without(t, {"overlap", "torn", "late", "early", "brush"})
               PROVE  heap[t] \subseteq {item[t].ptr, item[t].t, item[t].b}
                                        \cup (IF t \in Icon THEN {1} ELSE {})
    BY DEF NothingLeaks
  <2>1. Calm(t) /\ "brush" \notin faults[t] /\ "early" \notin faults[t]
    BY DEF Calm, Without
  <2> QED BY <2>1 DEF DataInv, Good, Kept
<1> QED BY <1>1, DataInvariance, PTL

\* A picture that is shown is changed only by the loader or the screen: no
\* worker and no dispatcher, however late, takes the brush of an item that still has its owner.
THEOREM ShownStays == Spec => ShownStaysShown
<1>1. Inv /\ DataInv /\ [Next]_vars =>
        [\A t \in Tex :
         /\ owned[t] > 0 /\ item[t].brush = "loaded"
         /\ Without(t, {"overlap"})
         /\ UNCHANGED <<th[Loader], th[Screen], loaderQ>>
         => item'[t] = item[t] \/ (item'[t].brush = "loaded" /\ item'[t].b = item[t].b)]_vars
  BY StepData DEF Stays, Owned
<1> QED BY <1>1, DataInvariance, PTL DEF Spec, ShownStaysShown

=============================================================================
