--------------------------- MODULE MapDropsProofs ---------------------------
(***************************************************************************)
(* Proofs about MapDrops, for any players, droppers and bounds: the object *)
(* list leads to every drop, and the timers are those of the batches, in   *)
(* their order.                                                            *)
(***************************************************************************)
EXTENDS MapDrops, FiniteSetTheorems, SequenceTheorems, WellFoundedInduction, TLAPS

(* Types. *)
Batch == [drops : Seq(Nat) \ {<<>>}, owner : Player, exclusive : BOOLEAN, timer : Nat]
Place == Batch \cup {Nil}
Pile == [drops : Seq(Nat \cup {NoOid}), current : Nat, owner : Player, dropper : Nat]
Object == [type : {"drop", "dropping", "monster", "remains", "reactor"}, index : Nat, index2 : Nat]
Timer == [id : Nat, kind : {"exclusive", "expire"}]
Objects == {os \in UNION {[S -> Object] : S \in SUBSET Nat} : IsFiniteSet(DOMAIN os)}
Fields == [batches : Seq(Place), start : Nat, capacity : Nat \ {0}, dropping : Seq(Pile),
           objects : Objects, timers : Seq(Timer)]

(* The drops of the batches bs and the objects os lead to each other. *)
Living(bs) == {b \in 1 .. Len(bs) : bs[b] # Nil}

Lying(bs, os) ==
  /\ \A b \in Living(bs) : \A j \in 1 .. Len(bs[b].drops) :
       bs[b].drops[j] \in DOMAIN os /\ os[bs[b].drops[j]] = Lies(b, j)
  /\ \A o \in DOMAIN os : os[o].type = "drop" =>
       /\ os[o].index \in Living(bs) /\ os[o].index2 \in 1 .. Len(bs[os[o].index].drops)
       /\ bs[os[o].index].drops[os[o].index2] = o

(* So do those of the batches fs that fall; the rest of them has no ids.   *)
Falls1(fs, os, b) ==
  /\ fs[b].current <= Len(fs[b].drops)
  /\ \A j \in 1 .. fs[b].current :
       fs[b].drops[j] \in DOMAIN os /\ os[fs[b].drops[j]] = Falls(b, j)
  /\ \A j \in (fs[b].current + 1) .. Len(fs[b].drops) : fs[b].drops[j] = NoOid

FallingAt(fs, os) ==
  /\ \A b \in 1 .. Len(fs) : Falls1(fs, os, b)
  /\ \A o \in DOMAIN os : os[o].type = "dropping" =>
       /\ os[o].index \in 1 .. Len(fs) /\ os[o].index2 \in 1 .. fs[os[o].index].current
       /\ fs[os[o].index].drops[os[o].index2] = o

(* The monster that dropped a batch is there till it has fallen, and has   *)
(* no other batch; the reactor is always there.                            *)
Droppers(fs, os) ==
  /\ ReactorOid \in DOMAIN os /\ os[ReactorOid].type = "reactor"
  /\ \A b \in 1 .. Len(fs) : fs[b].dropper # ReactorOid =>
       /\ fs[b].dropper \in DOMAIN os /\ os[fs[b].dropper].type = "monster"
       /\ \A c \in 1 .. Len(fs) : fs[c].dropper = fs[b].dropper => c = b

(* The timers ts are those of the batches bs.                              *)
Timed(bs, ts) ==
  /\ \A b \in Living(bs) : \E i \in 1 .. Len(ts) : ts[i] = TimerOf(bs[b])
  /\ \A i \in 1 .. Len(ts) : \E b \in Living(bs) : IsOf(ts[i], bs[b])
  /\ \A i, j \in 1 .. Len(ts) : \A b, c \in Living(bs) :
       IsOf(ts[i], bs[b]) /\ IsOf(ts[j], bs[c]) => (i < j <=> b < c)

(* The array of batches.                                                   *)
Fitting(w) ==
  /\ Len(w.batches) <= w.capacity /\ w.start <= Len(w.batches)
  /\ \A b \in 1 .. w.start : w.batches[b] = Nil

(* What every part of a handler keeps.                                     *)
Linked(w) ==
  /\ w \in Fields
  /\ Lying(w.batches, w.objects) /\ FallingAt(w.dropping, w.objects) /\ Droppers(w.dropping, w.objects)
  /\ Timed(w.batches, w.timers) /\ Fitting(w)

(* What holds between handlers: nothing that falls has fallen, and         *)
(* dropBatchStart is at a batch.                                           *)
Waiting(fs) == \A b \in 1 .. Len(fs) : fs[b].current < Len(fs[b].drops)
AtBatch(w) == w.start < Len(w.batches) => w.batches[w.start + 1] # Nil

Good(w) == Linked(w) /\ Waiting(w.dropping) /\ AtBatch(w)
-----------------------------------------------------------------------------
(* Loops: a function from the number of a turn to the state after it.      *)

(* A nonempty set of naturals has a least element. *)
LEMMA LeastNatural ==
  ASSUME NEW T \in SUBSET Nat, T # {}
  PROVE  \E z \in T : \A y \in T : z <= y
<1>1. PICK x \in T : \A y \in T : ~(<<y, x>> \in OpToRel(<, Nat))
  BY WFMin, NatLessThanWellFounded
<1>2. \A y \in T : ~(y < x)
  BY <1>1 DEF OpToRel
<1>. QED  BY <1>2

(* What holds before the first turn and is kept by each holds after the last. *)
LEMMA TurnByTurn ==
  ASSUME NEW N \in Nat, NEW T, 0 \in T,
         \A n \in 1..N : n - 1 \in T => n \in T
  PROVE  \A n \in 0..N : n \in T
<1>. DEFINE Bad == {n \in 0..N : n \notin T}
<1>. SUFFICES ASSUME Bad # {} PROVE FALSE
  OBVIOUS
<1>1. PICK z \in Bad : \A y \in Bad : z <= y
  <2>1. Bad \in SUBSET Nat
    OBVIOUS
  <2>. HIDE DEF Bad
  <2>. QED  BY <2>1, LeastNatural
<1>2. z \in 1..N
  BY <1>1
<1>3. z - 1 \notin Bad /\ z - 1 \in 0..N
  BY <1>1, <1>2
<1>. QED  BY <1>1, <1>2, <1>3

(* A loop of N turns over states of W that begins in b: what turn n makes  *)
(* of a state x is t[<<x, n>>], and f[n] is the state after n turns.       *)
IsLoop(t, W, N) == t \in [W \X (1..N) -> W]
IsRun(f, t, W, N, b) ==
  f \in [0..N -> W] /\ f[0] = b /\ \A n \in 1..N : f[n] = t[<<f[n - 1], n>>]

LEMMA LoopRuns ==
  ASSUME NEW N \in Nat, NEW W, NEW b \in W, NEW t, IsLoop(t, W, N)
  PROVE  \E f : IsRun(f, t, W, N, b)
<1>. DEFINE Runs(f, k) == f[0] = b /\ \A n \in 1..k : f[n] = t[<<f[n - 1], n>>]
            T == {k \in 0..N : \E f \in [0..k -> W] : Runs(f, k)}
<1>1. 0 \in T
  <2>1. [n \in 0..0 |-> b] \in [0..0 -> W] /\ Runs([n \in 0..0 |-> b], 0)
    OBVIOUS
  <2>2. \E f \in [0..0 -> W] : Runs(f, 0)
    <3>. HIDE DEF Runs
    <3>. QED  BY <2>1
  <2>. QED  BY <2>2
<1>2. ASSUME NEW k \in 1..N, k - 1 \in T
      PROVE  k \in T
  <2>1. PICK f \in [0..(k - 1) -> W] : Runs(f, k - 1)
    BY <1>2
  <2>. DEFINE g == [n \in 0..k |-> IF n = k THEN t[<<f[k - 1], k>>] ELSE f[n]]
  <2>2. f[k - 1] \in W /\ t[<<f[k - 1], k>>] \in W
    BY <2>1 DEF IsLoop
  <2>3. g \in [0..k -> W]
    BY <2>2
  <2>4. Runs(g, k)
    <3>1. g[0] = b
      BY <2>1
    <3>2. ASSUME NEW n \in 1..k PROVE g[n] = t[<<g[n - 1], n>>]
      <4>1. CASE n = k
        <5>1. g[n] = t[<<f[k - 1], k>>] /\ g[n - 1] = f[k - 1]
          BY <4>1
        <5>. QED  BY <4>1, <5>1
      <4>2. CASE n # k
        <5>1. n \in 1..(k - 1) /\ g[n] = f[n] /\ g[n - 1] = f[n - 1]
          BY <4>2
        <5>. QED  BY <5>1, <2>1
      <4>. QED  BY <4>1, <4>2
    <3>. QED  BY <3>1, <3>2
  <2>5. \E h \in [0..k -> W] : Runs(h, k)
    <3>. HIDE DEF g, Runs
    <3>. QED  BY <2>3, <2>4
  <2>. QED  BY <2>5
<1>. HIDE DEF T
<1>3. N \in T
  BY <1>1, <1>2, TurnByTurn
<1>. QED  BY <1>3 DEF T, IsRun

-----------------------------------------------------------------------------
(* Sequences.                                                              *)

LEMMA SeqTypes ==
  ASSUME NEW S, NEW s \in Seq(S)
  PROVE  /\ Len(s) \in Nat /\ DOMAIN s = 1 .. Len(s)
         /\ \A i \in 1 .. Len(s) : s[i] \in S
BY LenProperties, ElementOfSeq

LEMMA PutAt ==
  ASSUME NEW S, NEW s \in Seq(S), NEW i \in 1 .. Len(s), NEW e \in S
  PROVE  /\ [s EXCEPT ![i] = e] \in Seq(S)
         /\ Len([s EXCEPT ![i] = e]) = Len(s)
         /\ \A j \in 1 .. Len(s) : [s EXCEPT ![i] = e][j] = IF j = i THEN e ELSE s[j]
BY ExceptSeq

LEMMA Appended ==
  ASSUME NEW S, NEW s \in Seq(S), NEW e \in S
  PROVE  /\ Append(s, e) \in Seq(S) /\ Len(Append(s, e)) = Len(s) + 1
         /\ \A j \in 1 .. Len(s) : Append(s, e)[j] = s[j]
         /\ Append(s, e)[Len(s) + 1] = e
BY AppendProperties, SeqTypes

LEMMA CutOut ==
  ASSUME NEW S, NEW s \in Seq(S), NEW m \in Nat, NEW n \in Nat, m <= n + 1, n <= Len(s), 1 <= m
  PROVE  /\ SubSeq(s, m, n) \in Seq(S) /\ Len(SubSeq(s, m, n)) = n - m + 1
         /\ \A j \in 1 .. (n - m + 1) : SubSeq(s, m, n)[j] = s[m + j - 1]
<1>1. Len(s) \in Nat /\ \A i \in m .. n : s[i] \in S
  BY SeqTypes
<1>. QED  BY <1>1, SubSeqProperties

(* The last element goes.                                                  *)
LEMMA FrontIs ==
  ASSUME NEW S, NEW s \in Seq(S), Len(s) # 0
  PROVE  /\ Front(s) \in Seq(S) /\ Len(Front(s)) = Len(s) - 1
         /\ \A j \in 1 .. Len(s) - 1 : Front(s)[j] = s[j]
         /\ Last(s) = s[Len(s)] /\ Last(s) \in S
<1>1. Len(s) \in Nat /\ Len(s) \in 1 .. Len(s) /\ s[Len(s)] \in S
  BY SeqTypes
<1>2. PICK n \in Nat : n = Len(s) - 1
  BY <1>1
<1>3. SubSeq(s, 1, n) \in Seq(S) /\ Len(SubSeq(s, 1, n)) = n - 1 + 1
      /\ \A j \in 1 .. (n - 1 + 1) : SubSeq(s, 1, n)[j] = s[1 + j - 1]
  <2>1. n <= Len(s) /\ 1 <= n + 1 /\ 1 \in Nat /\ 1 <= 1
    BY <1>1, <1>2
  <2>. QED  BY <2>1, CutOut
<1>4. Front(s) = SubSeq(s, 1, n)
  BY <1>2 DEF Front
<1>. QED  BY <1>1, <1>2, <1>3, <1>4 DEF Last

(* The first element goes.                                                 *)
LEMMA TailIs ==
  ASSUME NEW S, NEW s \in Seq(S), s # <<>>
  PROVE  /\ Tail(s) \in Seq(S) /\ Len(Tail(s)) = Len(s) - 1 /\ Len(s) \in Nat \ {0}
         /\ \A j \in 1 .. Len(s) - 1 : Tail(s)[j] = s[j + 1]
         /\ Head(s) = s[1]
BY HeadTailProperties, SeqTypes, EmptySeq

(* Element k goes.                                                         *)
LEMMA RemoveAtIs ==
  ASSUME NEW S, NEW s \in Seq(S), NEW k \in 1 .. Len(s)
  PROVE  /\ RemoveAt(s, k) \in Seq(S) /\ Len(RemoveAt(s, k)) = Len(s) - 1
         /\ \A j \in 1 .. Len(s) - 1 : RemoveAt(s, k)[j] = IF j < k THEN s[j] ELSE s[j + 1]
<1>. DEFINE a == SubSeq(s, 1, k - 1)
            b == SubSeq(s, k + 1, Len(s))
<1>1. Len(s) \in Nat /\ k \in Nat
  BY SeqTypes
<1>2. a \in Seq(S) /\ Len(a) = k - 1 - 1 + 1 /\ \A j \in 1 .. (k - 1 - 1 + 1) : a[j] = s[1 + j - 1]
  BY <1>1, CutOut
<1>3. b \in Seq(S) /\ Len(b) = Len(s) - (k + 1) + 1
      /\ \A j \in 1 .. (Len(s) - (k + 1) + 1) : b[j] = s[(k + 1) + j - 1]
  BY <1>1, CutOut
<1>4. RemoveAt(s, k) = a \o b
  BY DEF RemoveAt
<1>. HIDE DEF a, b
<1>5. /\ a \o b \in Seq(S) /\ Len(a \o b) = Len(a) + Len(b)
      /\ \A i \in 1 .. Len(a) + Len(b) : (a \o b)[i] = IF i <= Len(a) THEN a[i] ELSE b[i - Len(a)]
  BY <1>2, <1>3, ConcatProperties
<1>6. Len(a) = k - 1 /\ Len(b) = Len(s) - k /\ Len(a) + Len(b) = Len(s) - 1
  BY <1>1, <1>2, <1>3
<1>7. ASSUME NEW j \in 1 .. Len(s) - 1
      PROVE  (a \o b)[j] = IF j < k THEN s[j] ELSE s[j + 1]
  <2>1. (a \o b)[j] = IF j <= k - 1 THEN a[j] ELSE b[j - (k - 1)]
    BY <1>5, <1>6
  <2>2. CASE j < k
    BY <1>1, <1>2, <2>1, <2>2
  <2>3. CASE ~(j < k)
    <3>1. j - (k - 1) \in 1 .. (Len(s) - (k + 1) + 1) /\ (k + 1) + (j - (k - 1)) - 1 = j + 1
      BY <1>1, <2>3
    <3>2. b[j - (k - 1)] = s[(k + 1) + (j - (k - 1)) - 1]
      BY <1>3, <3>1
    <3>. QED  BY <1>1, <2>1, <2>3, <3>1, <3>2
  <2>. QED  BY <2>2, <2>3
<1>. QED  BY <1>4, <1>5, <1>6, <1>7

-----------------------------------------------------------------------------
(* The object list and the timers: a new id is free.                       *)

LEMMA ObjectsIs ==
  ASSUME NEW os
  PROVE  os \in Objects <=> /\ DOMAIN os \in SUBSET Nat /\ IsFiniteSet(DOMAIN os)
                            /\ os = [o \in DOMAIN os |-> os[o]]
                            /\ \A o \in DOMAIN os : os[o] \in Object
<1>1. ASSUME os \in Objects
      PROVE  /\ DOMAIN os \in SUBSET Nat /\ IsFiniteSet(DOMAIN os)
             /\ os = [o \in DOMAIN os |-> os[o]]
             /\ \A o \in DOMAIN os : os[o] \in Object
  <2>1. PICK S \in SUBSET Nat : os \in [S -> Object]
    BY <1>1 DEF Objects
  <2>. QED  BY <1>1, <2>1 DEF Objects
<1>2. ASSUME DOMAIN os \in SUBSET Nat, IsFiniteSet(DOMAIN os),
             os = [o \in DOMAIN os |-> os[o]],
             \A o \in DOMAIN os : os[o] \in Object
      PROVE  os \in Objects
  <2>1. os \in [DOMAIN os -> Object]
    BY <1>2
  <2>2. [DOMAIN os -> Object] \in {[S -> Object] : S \in SUBSET Nat}
    BY <1>2
  <2>. QED  BY <1>2, <2>1, <2>2 DEF Objects
<1>. QED  BY <1>1, <1>2

LEMMA NewOidIsNew ==
  ASSUME NEW w, w.objects \in Objects
  PROVE  NewOid(w) \in Nat /\ NewOid(w) \notin DOMAIN w.objects
<1>. DEFINE S == DOMAIN w.objects
            n == Cardinality(S)
<1>1. IsFiniteSet(S)
  BY ObjectsIs
<1>2. n \in Nat
  BY <1>1, FS_CardinalityType
<1>3. \E o \in 0 .. n : o \notin S
  <2>. SUFFICES ASSUME 0 .. n \subseteq S PROVE FALSE
    OBVIOUS
  <2>1. Cardinality(0 .. n) <= n
    BY <1>1, FS_Subset
  <2>2. Cardinality(0 .. n) = n - 0 + 1
    <3>. HIDE DEF n
    <3>. QED  BY <1>2, FS_Interval
  <2>. QED  BY <1>2, <2>1, <2>2
<1>4. NewOid(w) \in 0 .. n /\ NewOid(w) \notin S
  BY <1>3, Zenon DEF NewOid
<1>. QED  BY <1>2, <1>4

LEMMA NewTimerIsNew ==
  ASSUME NEW w, w.timers \in Seq(Timer)
  PROVE  NewTimer(w) \in Nat /\ \A i \in 1 .. Len(w.timers) : w.timers[i].id # NewTimer(w)
<1>. DEFINE n == Len(w.timers)
            Used == {w.timers[i].id : i \in 1 .. n}
<1>1. n \in Nat
  BY SeqTypes
<1>2. IsFiniteSet(Used) /\ Cardinality(Used) <= n /\ Cardinality(Used) \in Nat
  <2>1. IsFiniteSet(1 .. n) /\ Cardinality(1 .. n) = n
    <3>. HIDE DEF n
    <3>1. Cardinality(1 .. n) = (IF 1 > n THEN 0 ELSE n - 1 + 1) /\ IsFiniteSet(1 .. n)
      BY <1>1, FS_Interval
    <3>. QED  BY <1>1, <3>1
  <2>2. IsFiniteSet(Used) /\ Cardinality(Used) <= Cardinality(1 .. n)
    <3>. DEFINE f == [i \in 1 .. n |-> w.timers[i].id]
    <3>1. f \in Surjection(1 .. n, Used)
      BY DEF Surjection
    <3>. HIDE DEF f, Used, n
    <3>. QED  BY <2>1, <3>1, FS_Surjection
  <2>. QED  BY <2>1, <2>2, FS_CardinalityType
<1>3. \E t \in 0 .. n : t \notin Used
  <2>. SUFFICES ASSUME 0 .. n \subseteq Used PROVE FALSE
    OBVIOUS
  <2>. HIDE DEF Used, n
  <2>1. Cardinality(0 .. n) <= Cardinality(Used)
    BY <1>2, FS_Subset
  <2>2. Cardinality(0 .. n) = n - 0 + 1
    BY <1>1, FS_Interval
  <2>. QED  BY <1>1, <1>2, <2>1, <2>2
<1>4. \E t \in 0 .. n : \A i \in 1 .. n : w.timers[i].id # t
  BY <1>3
<1>5. NewTimer(w) \in 0 .. n /\ \A i \in 1 .. n : w.timers[i].id # NewTimer(w)
  BY <1>4, Zenon DEF NewTimer
<1>. QED  BY <1>1, <1>5

(* An object is added.                                                     *)
LEMMA AllocateIs ==
  ASSUME NEW w \in Fields, NEW x \in Object
  PROVE  LET v == Allocate(w, x)
             n == NewOid(w)
         IN  /\ v \in Fields
             /\ v = [w EXCEPT !.objects = v.objects]
             /\ DOMAIN v.objects = DOMAIN w.objects \cup {n}
             /\ n \in Nat /\ n \notin DOMAIN w.objects
             /\ v.objects[n] = x
             /\ \A o \in DOMAIN w.objects : v.objects[o] = w.objects[o]
<1>. DEFINE n == NewOid(w)
            os == [o \in DOMAIN w.objects \cup {n} |-> IF o \in DOMAIN w.objects THEN w.objects[o] ELSE x]
<1>1. w.objects \in Objects
  BY DEF Fields
<1>2. n \in Nat /\ n \notin DOMAIN w.objects
  BY <1>1, NewOidIsNew
<1>3. Allocate(w, x) = [w EXCEPT !.objects = os]
  BY DEF Allocate, Fields
<1>. HIDE DEF n
<1>4. IsFiniteSet(DOMAIN w.objects \cup {n}) /\ DOMAIN w.objects \in SUBSET Nat
  BY <1>1, ObjectsIs, FS_AddElement
<1>5. os \in Objects
  <2>1. \A o \in DOMAIN w.objects : w.objects[o] \in Object
    BY <1>1, ObjectsIs
  <2>2. DOMAIN os = DOMAIN w.objects \cup {n}
    OBVIOUS
  <2>3. DOMAIN os \in SUBSET Nat /\ IsFiniteSet(DOMAIN os) /\ \A o \in DOMAIN os : os[o] \in Object
    BY <1>2, <1>4, <2>1, <2>2
  <2>4. os = [o \in DOMAIN os |-> os[o]]
    OBVIOUS
  <2>. HIDE DEF os
  <2>. QED  BY <2>3, <2>4, ObjectsIs
<1>6. /\ DOMAIN os = DOMAIN w.objects \cup {n} /\ os[n] = x
      /\ \A o \in DOMAIN w.objects : os[o] = w.objects[o]
  BY <1>2
<1>. HIDE DEF os
<1>7. [w EXCEPT !.objects = os] \in Fields /\ [w EXCEPT !.objects = os].objects = os
  BY <1>5 DEF Fields
<1>. QED  BY <1>2, <1>3, <1>6, <1>7 DEF n

(* Objects are taken out.                                                  *)
LEMMA FreeAllIs ==
  ASSUME NEW w \in Fields, NEW S
  PROVE  LET v == FreeAll(w, S)
         IN  /\ v \in Fields
             /\ v = [w EXCEPT !.objects = v.objects]
             /\ DOMAIN v.objects = DOMAIN w.objects \ S
             /\ \A o \in DOMAIN w.objects \ S : v.objects[o] = w.objects[o]
<1>. DEFINE os == [o \in DOMAIN w.objects \ S |-> w.objects[o]]
<1>1. w.objects \in Objects
  BY DEF Fields
<1>2. FreeAll(w, S) = [w EXCEPT !.objects = os]
  BY DEF FreeAll, Fields
<1>3. IsFiniteSet(DOMAIN w.objects \ S) /\ DOMAIN w.objects \in SUBSET Nat
  BY <1>1, ObjectsIs, FS_Difference
<1>4. os \in Objects
  <2>1. \A o \in DOMAIN w.objects : w.objects[o] \in Object
    BY <1>1, ObjectsIs
  <2>3. DOMAIN os \in SUBSET Nat /\ IsFiniteSet(DOMAIN os) /\ \A o \in DOMAIN os : os[o] \in Object
    BY <1>3, <2>1
  <2>4. os = [o \in DOMAIN os |-> os[o]]
    OBVIOUS
  <2>. HIDE DEF os
  <2>. QED  BY <2>3, <2>4, ObjectsIs
<1>6. /\ DOMAIN os = DOMAIN w.objects \ S
      /\ \A o \in DOMAIN w.objects \ S : os[o] = w.objects[o]
  OBVIOUS
<1>. HIDE DEF os
<1>7. [w EXCEPT !.objects = os] \in Fields /\ [w EXCEPT !.objects = os].objects = os
  BY <1>4 DEF Fields
<1>. QED  BY <1>2, <1>6, <1>7

Freed(v, w, S) ==
  /\ v \in Fields /\ v = [w EXCEPT !.objects = v.objects]
  /\ DOMAIN v.objects = DOMAIN w.objects \ S
  /\ \A o \in DOMAIN w.objects \ S : v.objects[o] = w.objects[o]

LEMMA FreedIs == ASSUME NEW w \in Fields, NEW S PROVE Freed(FreeAll(w, S), w, S)
BY FreeAllIs DEF Freed

-----------------------------------------------------------------------------
(* What a change of the object list leaves alone.                          *)

(* The objects of type t are the same.                                     *)
Agree(p, os, t) ==
  /\ \A o \in DOMAIN os : os[o].type = t => o \in DOMAIN p /\ p[o] = os[o]
  /\ \A o \in DOMAIN p : p[o].type = t => o \in DOMAIN os /\ p[o] = os[o]

LEMMA LyingAgrees ==
  ASSUME NEW bs, NEW os, NEW p, Lying(bs, os), Agree(p, os, "drop")
  PROVE  Lying(bs, p)
BY DEF Lying, Agree, Lies

LEMMA FallingAgrees ==
  ASSUME NEW fs, NEW os, NEW p, FallingAt(fs, os), Agree(p, os, "dropping")
  PROVE  FallingAt(fs, p)
BY DEF FallingAt, Falls1, Agree, Falls

LEMMA DroppersAgree ==
  ASSUME NEW fs, NEW os, NEW p, Droppers(fs, os), Agree(p, os, "monster"), Agree(p, os, "reactor")
  PROVE  Droppers(fs, p)
BY DEF Droppers, Agree

(* An object that is no drop comes.                                        *)
LEMMA OtherAllocated ==
  ASSUME NEW w, Good(w), NEW x \in Object, x.type = "monster"
  PROVE  Good(Allocate(w, x))
<1>. DEFINE v == Allocate(w, x)
            n == NewOid(w)
<1>1. /\ v \in Fields
      /\ v = [w EXCEPT !.objects = v.objects]
      /\ DOMAIN v.objects = DOMAIN w.objects \cup {n}
      /\ n \in Nat /\ n \notin DOMAIN w.objects
      /\ v.objects[n] = x
      /\ \A o \in DOMAIN w.objects : v.objects[o] = w.objects[o]
  BY AllocateIs DEF Good, Linked
<1>. HIDE DEF v, n
<1>2. /\ v.batches = w.batches /\ v.start = w.start /\ v.capacity = w.capacity
      /\ v.dropping = w.dropping /\ v.timers = w.timers
  BY <1>1 DEF Good, Linked, Fields
<1>3. Agree(v.objects, w.objects, "drop") /\ Agree(v.objects, w.objects, "dropping")
  BY <1>1 DEF Agree
<1>4. Lying(v.batches, v.objects) /\ FallingAt(v.dropping, v.objects)
  BY <1>2, <1>3, LyingAgrees, FallingAgrees DEF Good, Linked
<1>5. Droppers(v.dropping, v.objects)
  BY <1>1, <1>2 DEF Good, Linked, Droppers
<1>6. Timed(v.batches, v.timers) /\ Fitting(v) /\ Waiting(v.dropping) /\ AtBatch(v)
  BY <1>2 DEF Good, Linked, Fitting, AtBatch
<1>7. Good(v)
  BY <1>1, <1>4, <1>5, <1>6 DEF Good, Linked
<1>. QED  BY <1>7 DEF v

(* A monster that drops nothing more goes.                                 *)
LEMMA MonsterFreed ==
  ASSUME NEW w, Linked(w), NEW oid \in DOMAIN w.objects,
         w.objects[oid].type \in {"monster", "remains"},
         \A b \in 1 .. Len(w.dropping) : w.dropping[b].dropper # oid
  PROVE  LET v == Free(w, oid)
         IN  /\ Linked(v) /\ v = [w EXCEPT !.objects = v.objects]
             /\ \A o \in DOMAIN w.objects : o # oid => o \in DOMAIN v.objects /\ v.objects[o] = w.objects[o]
<1>. DEFINE v == Free(w, oid)
<1>1. /\ v \in Fields
      /\ v = [w EXCEPT !.objects = v.objects]
      /\ DOMAIN v.objects = DOMAIN w.objects \ {oid}
      /\ \A o \in DOMAIN w.objects \ {oid} : v.objects[o] = w.objects[o]
  BY FreeAllIs DEF Linked, Free
<1>. HIDE DEF v
<1>2. /\ v.batches = w.batches /\ v.start = w.start /\ v.capacity = w.capacity
      /\ v.dropping = w.dropping /\ v.timers = w.timers
  BY <1>1 DEF Linked, Fields
<1>3. Agree(v.objects, w.objects, "drop") /\ Agree(v.objects, w.objects, "dropping")
  BY <1>1 DEF Agree
<1>4. Lying(v.batches, v.objects) /\ FallingAt(v.dropping, v.objects)
  BY <1>2, <1>3, LyingAgrees, FallingAgrees DEF Linked
<1>5. Droppers(v.dropping, v.objects)
  BY <1>1, <1>2 DEF Linked, Droppers
<1>6. Timed(v.batches, v.timers) /\ Fitting(v)
  BY <1>2 DEF Linked, Fitting
<1>7. Linked(v)
  BY <1>1, <1>4, <1>5, <1>6 DEF Linked
<1>. QED  BY <1>1, <1>7 DEF v

-----------------------------------------------------------------------------
(* A batch at the end of dropBatches.                                      *)

LEMMA BatchTypes ==
  /\ Nil.drops = <<>>
  /\ \A x \in Batch : /\ x # Nil /\ x.drops \in Seq(Nat) /\ x.drops # <<>> /\ Len(x.drops) \in Nat \ {0}
                      /\ x.exclusive \in BOOLEAN /\ x.timer \in Nat /\ x.owner \in Player
                      /\ TimerOf(x) \in Timer /\ IsOf(TimerOf(x), x)
                      /\ TimerOf(x).id = x.timer
<1>1. Nil.drops = <<>>
  BY DEF Nil
<1>2. ASSUME NEW x \in Batch
      PROVE  /\ x # Nil /\ x.drops \in Seq(Nat) /\ x.drops # <<>> /\ Len(x.drops) \in Nat \ {0}
             /\ x.exclusive \in BOOLEAN /\ x.timer \in Nat /\ x.owner \in Player
             /\ TimerOf(x) \in Timer /\ IsOf(TimerOf(x), x)
             /\ TimerOf(x).id = x.timer
  <2>1. x.drops \in Seq(Nat) /\ x.drops # <<>>
    BY DEF Batch
  <2>2. x # Nil
    BY <1>1, <2>1
  <2>3. Len(x.drops) \in Nat /\ Len(x.drops) # 0
    BY <2>1, LenProperties, EmptySeq
  <2>. QED  BY <2>1, <2>2, <2>3 DEF Batch, TimerOf, Timer, IsOf
<1>. QED  BY <1>1, <1>2

LEMMA LivingTypes ==
  ASSUME NEW bs \in Seq(Place)
  PROVE  /\ Len(bs) \in Nat /\ Living(bs) \subseteq 1 .. Len(bs)
         /\ \A b \in Living(bs) : bs[b] \in Batch
         /\ \A b \in 1 .. Len(bs) : bs[b] \in Batch => b \in Living(bs)
BY SeqTypes, BatchTypes DEF Living, Place

LEMMA LivingAppended ==
  ASSUME NEW bs \in Seq(Place), NEW x \in Batch
  PROVE  /\ Append(bs, x) \in Seq(Place) /\ Len(Append(bs, x)) = Len(bs) + 1
         /\ Living(Append(bs, x)) = Living(bs) \cup {Len(bs) + 1}
         /\ Append(bs, x)[Len(bs) + 1] = x
         /\ \A b \in 1 .. Len(bs) : Append(bs, x)[b] = bs[b]
<1>1. /\ Append(bs, x) \in Seq(Place) /\ Len(Append(bs, x)) = Len(bs) + 1
      /\ Append(bs, x)[Len(bs) + 1] = x
      /\ \A b \in 1 .. Len(bs) : Append(bs, x)[b] = bs[b]
  BY Appended DEF Place
<1>2. Len(bs) \in Nat /\ x # Nil
  BY SeqTypes, BatchTypes
<1>. QED  BY <1>1, <1>2 DEF Living

LEMMA TimedAppended ==
  ASSUME NEW bs \in Seq(Place), NEW ts \in Seq(Timer), NEW x \in Batch, Timed(bs, ts),
         \A i \in 1 .. Len(ts) : ts[i].id # x.timer
  PROVE  Timed(Append(bs, x), Append(ts, TimerOf(x)))
<1>. DEFINE cs == Append(bs, x)
            us == Append(ts, TimerOf(x))
            L == Len(bs)
            N == Len(ts)
<1>1. /\ Len(cs) = L + 1 /\ Living(cs) = Living(bs) \cup {L + 1} /\ L \in Nat
      /\ cs[L + 1] = x /\ \A b \in Living(bs) : cs[b] = bs[b] /\ b \in 1 .. L /\ bs[b] \in Batch
  BY LivingAppended, LivingTypes
<1>2. /\ N \in Nat /\ Len(us) = N + 1 /\ us[N + 1] = TimerOf(x)
      /\ \A i \in 1 .. N : us[i] = ts[i]
  BY Appended, SeqTypes, BatchTypes
<1>3. IsOf(TimerOf(x), x) /\ TimerOf(x).id = x.timer
  BY BatchTypes
<1>4. \A b \in Living(bs) : ~IsOf(TimerOf(x), bs[b])
  <2>. SUFFICES ASSUME NEW b \in Living(bs), bs[b].timer = x.timer PROVE FALSE
    BY <1>3 DEF IsOf
  <2>1. PICK i \in 1 .. N : ts[i] = TimerOf(bs[b])
    BY DEF Timed
  <2>. QED  BY <2>1 DEF TimerOf
<1>5. \A i \in 1 .. N : ~IsOf(ts[i], x)
  BY DEF IsOf
<1>. HIDE DEF cs, us, L, N
<1>6. \A b \in Living(cs) : \E i \in 1 .. Len(us) : us[i] = TimerOf(cs[b])
  <2>1. ASSUME NEW b \in Living(bs) PROVE \E i \in 1 .. Len(us) : us[i] = TimerOf(cs[b])
    <3>1. PICK i \in 1 .. N : ts[i] = TimerOf(bs[b])
      BY DEF Timed, N
    <3>. QED  BY <1>1, <1>2, <3>1
  <2>2. N + 1 \in 1 .. Len(us) /\ us[N + 1] = TimerOf(cs[L + 1])
    BY <1>1, <1>2
  <2>. QED  BY <1>1, <2>1, <2>2
<1>7. \A i \in 1 .. Len(us) : \E b \in Living(cs) : IsOf(us[i], cs[b])
  <2>1. ASSUME NEW i \in 1 .. N PROVE \E b \in Living(cs) : IsOf(us[i], cs[b])
    <3>1. PICK b \in Living(bs) : IsOf(ts[i], bs[b])
      BY DEF Timed, N
    <3>. QED  BY <1>1, <1>2, <3>1
  <2>2. IsOf(us[N + 1], cs[L + 1]) /\ L + 1 \in Living(cs)
    BY <1>1, <1>2, <1>3
  <2>. QED  BY <1>2, <2>1, <2>2
<1>8. ASSUME NEW i \in 1 .. Len(us), NEW b \in Living(cs), IsOf(us[i], cs[b])
      PROVE  \/ i = N + 1 /\ b = L + 1
             \/ i \in 1 .. N /\ b \in Living(bs) /\ IsOf(ts[i], bs[b])
  <2>1. i \in 1 .. N \/ i = N + 1
    BY <1>2
  <2>2. b \in Living(bs) \/ b = L + 1
    BY <1>1
  <2>. QED  BY <1>1, <1>2, <1>4, <1>5, <1>8, <2>1, <2>2
<1>9. ASSUME NEW i \in 1 .. Len(us), NEW j \in 1 .. Len(us), NEW b \in Living(cs), NEW c \in Living(cs),
             IsOf(us[i], cs[b]), IsOf(us[j], cs[c])
      PROVE  i < j <=> b < c
  <2>1. /\ (i = N + 1 /\ b = L + 1) \/ (i \in 1 .. N /\ b \in Living(bs) /\ IsOf(ts[i], bs[b]))
        /\ (j = N + 1 /\ c = L + 1) \/ (j \in 1 .. N /\ c \in Living(bs) /\ IsOf(ts[j], bs[c]))
    BY <1>8, <1>9
  <2>2. i \in 1 .. N /\ j \in 1 .. N /\ b \in Living(bs) /\ c \in Living(bs)
          /\ IsOf(ts[i], bs[b]) /\ IsOf(ts[j], bs[c]) => (i < j <=> b < c)
    BY DEF Timed, N
  <2>3. \A d \in Living(bs) : d \in 1 .. L
    BY <1>1
  <2>. QED  BY <1>1, <1>2, <2>1, <2>2, <2>3
<1>. QED  BY <1>6, <1>7, <1>9 DEF Timed, cs, us

(* In the object list p the drops of a new batch x, the one of number L,   *)
(* lead to it, and the others where they did.                              *)
Joining(L, x, os, p) ==
  /\ \A j \in 1 .. Len(x.drops) : x.drops[j] \in DOMAIN p /\ p[x.drops[j]] = Lies(L, j)
  /\ \A o \in DOMAIN os : os[o].type = "drop" => o \in DOMAIN p /\ p[o] = os[o]
  /\ \A o \in DOMAIN p : p[o].type = "drop" =>
       (o \in DOMAIN os /\ p[o] = os[o]) \/ \E j \in 1 .. Len(x.drops) : o = x.drops[j]

LEMMA LyingAppended ==
  ASSUME NEW bs \in Seq(Place), NEW x \in Batch, NEW os, NEW p, Lying(bs, os),
         Joining(Len(bs) + 1, x, os, p)
  PROVE  Lying(Append(bs, x), p)
<1>. DEFINE cs == Append(bs, x)
            L == Len(bs)
<1>1. /\ Len(cs) = L + 1 /\ Living(cs) = Living(bs) \cup {L + 1} /\ L \in Nat
      /\ cs[L + 1] = x /\ \A b \in Living(bs) : cs[b] = bs[b] /\ b \in 1 .. L
  BY LivingAppended, LivingTypes
<1>. HIDE DEF cs
<1>2. ASSUME NEW b \in Living(cs), NEW j \in 1 .. Len(cs[b].drops)
      PROVE  cs[b].drops[j] \in DOMAIN p /\ p[cs[b].drops[j]] = Lies(b, j)
  <2>1. CASE b = L + 1
    BY <1>1, <2>1 DEF Joining
  <2>2. CASE b \in Living(bs)
    <3>1. bs[b].drops[j] \in DOMAIN os /\ os[bs[b].drops[j]] = Lies(b, j) /\ cs[b] = bs[b]
      BY <1>1, <2>2 DEF Lying
    <3>. QED  BY <3>1 DEF Lies, Joining
  <2>. QED  BY <1>1, <2>1, <2>2
<1>3. ASSUME NEW o \in DOMAIN p, p[o].type = "drop"
      PROVE  /\ p[o].index \in Living(cs) /\ p[o].index2 \in 1 .. Len(cs[p[o].index].drops)
             /\ cs[p[o].index].drops[p[o].index2] = o
  <2>1. CASE o \in DOMAIN os /\ p[o] = os[o]
    BY <1>1, <1>3, <2>1 DEF Lying
  <2>2. CASE \E j \in 1 .. Len(x.drops) : o = x.drops[j]
    <3>1. PICK j \in 1 .. Len(x.drops) : o = x.drops[j]
      BY <2>2
    <3>2. p[o] = Lies(L + 1, j)
      BY <3>1 DEF Joining
    <3>3. p[o].index = L + 1 /\ p[o].index2 = j
      BY <3>2 DEF Lies
    <3>. QED  BY <1>1, <3>1, <3>3
  <2>. QED  BY <1>3, <2>1, <2>2 DEF Joining
<1>. QED  BY <1>2, <1>3 DEF Lying, cs

NewBatch(w, drops, owner, exclusive) ==
  [drops |-> drops, owner |-> owner, exclusive |-> exclusive, timer |-> NewTimer(w)]

LEMMA AddBatchIs ==
  ASSUME NEW w \in Fields, NEW drops \in Seq(Nat) \ {<<>>}, NEW owner \in Player,
         NEW exclusive \in BOOLEAN, Timed(w.batches, w.timers), Fitting(w)
  PROVE  LET v == AddBatch(w, drops, owner, exclusive)
             x == NewBatch(w, drops, owner, exclusive)
         IN  /\ x \in Batch /\ v \in Fields
             /\ v.batches = Append(w.batches, x) /\ v.start = w.start
             /\ v.dropping = w.dropping /\ v.objects = w.objects
             /\ Timed(v.batches, v.timers) /\ Fitting(v)
             /\ AtBatch(w) => AtBatch(v)
<1>. DEFINE v == AddBatch(w, drops, owner, exclusive)
            x == NewBatch(w, drops, owner, exclusive)
            cap == IF Len(w.batches) = w.capacity THEN 2 * w.capacity ELSE w.capacity
            bs == Append(w.batches, x)
            ts == Append(w.timers, TimerOf(x))
<1>1. /\ w.timers \in Seq(Timer) /\ w.batches \in Seq(Place) /\ w.start \in Nat
      /\ w.capacity \in Nat \ {0}
  BY DEF Fields
<1>2. NewTimer(w) \in Nat /\ \A i \in 1 .. Len(w.timers) : w.timers[i].id # NewTimer(w)
  BY <1>1, NewTimerIsNew
<1>3. x \in Batch /\ x.timer = NewTimer(w)
  BY <1>2 DEF NewBatch, Batch
<1>4. TimerOf(x) = [id |-> NewTimer(w), kind |-> IF exclusive THEN "exclusive" ELSE "expire"]
  BY DEF TimerOf, NewBatch
<1>5. v = [w EXCEPT !.capacity = cap, !.batches = bs, !.timers = ts]
  BY <1>4 DEF AddBatch, Fields, NewBatch
<1>. HIDE DEF x
<1>6. TimerOf(x) \in Timer /\ x # Nil
  BY <1>3, BatchTypes
<1>7. bs \in Seq(Place) /\ Len(bs) = Len(w.batches) + 1 /\ bs[Len(w.batches) + 1] = x
      /\ \A b \in 1 .. Len(w.batches) : bs[b] = w.batches[b]
  BY <1>1, <1>3, LivingAppended
<1>8. ts \in Seq(Timer)
  BY <1>1, <1>6, Appended
<1>9. Len(w.batches) \in Nat
  BY <1>1, SeqTypes
<1>10. cap \in Nat \ {0} /\ cap >= w.capacity /\ (Len(w.batches) <= w.capacity => Len(w.batches) + 1 <= cap)
  BY <1>1, <1>9
<1>11. Timed(bs, ts)
  BY <1>1, <1>2, <1>3, TimedAppended
<1>. HIDE DEF cap, bs, ts
<1>12. /\ v \in Fields /\ v.batches = bs /\ v.start = w.start /\ v.capacity = cap
       /\ v.dropping = w.dropping /\ v.objects = w.objects /\ v.timers = ts
  BY <1>5, <1>7, <1>8, <1>10 DEF Fields
<1>. HIDE DEF v
<1>13. Fitting(v)
  <2>1. Len(w.batches) <= w.capacity /\ w.start <= Len(w.batches)
        /\ \A b \in 1 .. w.start : w.batches[b] = Nil
    BY DEF Fitting
  <2>2. Len(v.batches) <= v.capacity /\ v.start <= Len(v.batches)
    BY <1>1, <1>7, <1>9, <1>10, <1>12, <2>1
  <2>3. ASSUME NEW b \in 1 .. v.start PROVE v.batches[b] = Nil
    <3>1. b \in 1 .. Len(w.batches) /\ b \in 1 .. w.start
      BY <1>1, <1>9, <1>12, <2>1
    <3>. QED  BY <1>7, <1>12, <2>1, <3>1
  <2>. QED  BY <2>2, <2>3 DEF Fitting
<1>14. AtBatch(w) => AtBatch(v)
  <2>1. ASSUME AtBatch(w) PROVE v.batches[v.start + 1] # Nil
    <3>1. CASE w.start < Len(w.batches)
      <4>1. w.start + 1 \in 1 .. Len(w.batches) /\ w.batches[w.start + 1] # Nil
        BY <1>1, <1>9, <2>1, <3>1 DEF AtBatch
      <4>. QED  BY <1>7, <1>12, <4>1
    <3>2. CASE w.start = Len(w.batches)
      BY <1>6, <1>7, <1>12, <3>2
    <3>. QED  BY <1>1, <1>9, <3>1, <3>2 DEF Fitting
  <2>. QED  BY <2>1 DEF AtBatch
<1>. QED  BY <1>3, <1>11, <1>12, <1>13, <1>14 DEF v, x, bs

(* A batch of one drop.                                                    *)
LEMMA DropAdded ==
  ASSUME NEW w, Good(w), NEW owner \in Player, NEW exclusive \in BOOLEAN
  PROVE  LET v == AddDrop(w, owner, exclusive)
             n == NewOid(w)
         IN  /\ Good(v) /\ v.dropping = w.dropping
             /\ n \in DOMAIN v.objects /\ v.objects[n].type = "drop" /\ n \notin DOMAIN w.objects
             /\ \A o \in DOMAIN w.objects : o \in DOMAIN v.objects /\ v.objects[o] = w.objects[o]
<1>. DEFINE v == AddDrop(w, owner, exclusive)
            n == NewOid(w)
            u == AddBatch(w, <<n>>, owner, exclusive)
            x == NewBatch(w, <<n>>, owner, exclusive)
            L == Len(w.batches) + 1
            y == [type |-> "drop", index |-> L, index2 |-> 1]
<1>1. /\ w \in Fields /\ w.objects \in Objects /\ w.batches \in Seq(Place)
      /\ Timed(w.batches, w.timers) /\ Fitting(w) /\ AtBatch(w)
      /\ Lying(w.batches, w.objects) /\ FallingAt(w.dropping, w.objects)
      /\ Droppers(w.dropping, w.objects) /\ Waiting(w.dropping)
  BY DEF Good, Linked, Fields
<1>2. n \in Nat /\ n \notin DOMAIN w.objects
  BY <1>1, NewOidIsNew
<1>3. <<n>> \in Seq(Nat) \ {<<>>} /\ Len(<<n>>) = 1 /\ <<n>>[1] = n
  BY <1>2
<1>4. x.drops = <<n>>
  BY DEF NewBatch
<1>5. NewOid(u) = n
  <2>1. u.objects = w.objects
    BY <1>1 DEF AddBatch, Fields
  <2>. QED  BY <2>1 DEF NewOid
<1>6. v = Allocate(u, y)
  BY DEF AddDrop
<1>7. /\ x \in Batch /\ u \in Fields
      /\ u.batches = Append(w.batches, x) /\ u.start = w.start
      /\ u.dropping = w.dropping /\ u.objects = w.objects
      /\ Timed(u.batches, u.timers) /\ Fitting(u) /\ AtBatch(u)
  BY ZenonT(40), <1>1, <1>3, AddBatchIs
<1>8. L \in Nat /\ y \in Object
  BY <1>1, SeqTypes DEF Object
<1>. HIDE DEF u, x
<1>9. /\ v \in Fields
      /\ v = [u EXCEPT !.objects = v.objects]
      /\ DOMAIN v.objects = DOMAIN w.objects \cup {n}
      /\ v.objects[n] = y
      /\ \A o \in DOMAIN w.objects : v.objects[o] = w.objects[o]
  BY <1>5, <1>6, <1>7, <1>8, AllocateIs
<1>. HIDE DEF v, n
<1>10. /\ v.batches = u.batches /\ v.start = u.start /\ v.capacity = u.capacity
       /\ v.dropping = u.dropping /\ v.timers = u.timers
  BY <1>7, <1>9 DEF Fields
<1>11. Timed(v.batches, v.timers) /\ Fitting(v) /\ AtBatch(v)
  BY <1>7, <1>10 DEF Fitting, AtBatch
<1>12. y = Lies(L, 1) /\ y.type = "drop"
  BY DEF Lies
<1>. HIDE DEF y
<1>13. Lying(v.batches, v.objects)
  <2>1. \A j \in 1 .. Len(x.drops) : j = 1 /\ x.drops[j] = n
    BY <1>3, <1>4
  <2>2. \A j \in 1 .. Len(x.drops) : x.drops[j] \in DOMAIN v.objects /\ v.objects[x.drops[j]] = Lies(Len(w.batches) + 1, j)
    BY <1>9, <1>12, <2>1
  <2>3. 1 \in 1 .. Len(x.drops) /\ x.drops[1] = n
    BY <1>3, <1>4
  <2>4. \A o \in DOMAIN v.objects : (o \in DOMAIN w.objects /\ v.objects[o] = w.objects[o]) \/ \E j \in 1 .. Len(x.drops) : o = x.drops[j]
    BY <1>9, <2>3
  <2>5. \A o \in DOMAIN w.objects : o \in DOMAIN v.objects /\ v.objects[o] = w.objects[o]
    BY <1>9
  <2>6. Lying(Append(w.batches, x), v.objects)
    <3>1. Joining(Len(w.batches) + 1, x, w.objects, v.objects)
      BY <2>2, <2>4, <2>5 DEF Joining
    <3>2. w.batches \in Seq(Place) /\ x \in Batch /\ Lying(w.batches, w.objects)
      BY <1>1, <1>7
    <3>. QED  BY <3>1, <3>2, LyingAppended
  <2>. QED  BY <1>7, <1>10, <2>6
<1>14. FallingAt(v.dropping, v.objects) /\ Droppers(v.dropping, v.objects)
  <2>1. \A t \in {"dropping", "monster", "reactor"} : Agree(v.objects, w.objects, t)
    BY <1>2, <1>9, <1>12 DEF Agree
  <2>2. v.dropping = w.dropping
    BY <1>7, <1>10
  <2>. QED  BY <1>1, <2>1, <2>2, FallingAgrees, DroppersAgree
<1>15. Good(v) /\ v.dropping = w.dropping
  BY <1>1, <1>7, <1>9, <1>10, <1>11, <1>13, <1>14 DEF Good, Linked
<1>. QED  BY <1>2, <1>9, <1>12, <1>15 DEF v, n

-----------------------------------------------------------------------------
(* Batches that fall.                                                      *)

LEMMA PileTypes ==
  ASSUME NEW fs \in Seq(Pile)
  PROVE  /\ Len(fs) \in Nat
         /\ \A b \in 1 .. Len(fs) :
              /\ fs[b] \in Pile /\ fs[b].drops \in Seq(Nat \cup {NoOid}) /\ Len(fs[b].drops) \in Nat
              /\ fs[b].current \in Nat /\ fs[b].owner \in Player /\ fs[b].dropper \in Nat
<1>1. Len(fs) \in Nat /\ \A b \in 1 .. Len(fs) : fs[b] \in Pile
  BY SeqTypes
<1>2. \A b \in 1 .. Len(fs) : /\ fs[b].drops \in Seq(Nat \cup {NoOid})
                              /\ fs[b].current \in Nat /\ fs[b].owner \in Player /\ fs[b].dropper \in Nat
  BY <1>1 DEF Pile
<1>. QED  BY <1>1, <1>2, LenProperties

(* The fields of w besides dropping and the objects.                       *)
SameLying(v, w) ==
  v.batches = w.batches /\ v.start = w.start /\ v.capacity = w.capacity /\ v.timers = w.timers

LEMMA LinkedAgain ==
  ASSUME NEW w, NEW v, Linked(w), v \in Fields, SameLying(v, w), Agree(v.objects, w.objects, "drop"),
         FallingAt(v.dropping, v.objects), Droppers(v.dropping, v.objects)
  PROVE  Linked(v) /\ (AtBatch(w) => AtBatch(v))
<1>1. Lying(v.batches, v.objects)
  BY LyingAgrees DEF Linked, SameLying
<1>2. Timed(v.batches, v.timers) /\ Fitting(v) /\ (AtBatch(w) => AtBatch(v))
  BY DEF Linked, SameLying, Fitting, AtBatch
<1>. QED  BY <1>1, <1>2 DEF Linked

(* A batch begins to fall.                                                 *)
LEMMA FallStarted ==
  ASSUME NEW w, Good(w), NEW p \in Player, NEW dropper \in Nat, NEW k \in Nat, k > 1,
         dropper # ReactorOid =>
           /\ dropper \in DOMAIN w.objects /\ w.objects[dropper].type = "monster"
           /\ \A b \in 1 .. Len(w.dropping) : w.dropping[b].dropper # dropper
  PROVE  LET v == StartFalling(w, p, dropper, k)
             n == NewOid(w)
         IN  /\ Good(v) /\ n \in DOMAIN v.objects /\ v.objects[n].type = "dropping"
<1>. DEFINE v == StartFalling(w, p, dropper, k)
            n == NewOid(w)
            L == Len(w.dropping) + 1
            ds == [i \in 1 .. k |-> IF i = 1 THEN n ELSE NoOid]
            x == [drops |-> ds, current |-> 1, owner |-> p, dropper |-> dropper]
            fs == Append(w.dropping, x)
            u == [w EXCEPT !.dropping = fs]
            y == [type |-> "dropping", index |-> L, index2 |-> 1]
<1>1. /\ w \in Fields /\ w.objects \in Objects /\ w.dropping \in Seq(Pile)
      /\ FallingAt(w.dropping, w.objects) /\ Linked(w)
      /\ Droppers(w.dropping, w.objects) /\ Waiting(w.dropping) /\ AtBatch(w)
  BY DEF Good, Linked, Fields
<1>2. n \in Nat /\ n \notin DOMAIN w.objects
  BY <1>1, NewOidIsNew
<1>3. v = Allocate(u, y)
  BY DEF StartFalling
<1>4. NewOid(u) = n
  BY <1>1 DEF NewOid, Fields
<1>. HIDE DEF n, v
<1>5. /\ ds \in Seq(Nat \cup {NoOid}) /\ Len(ds) = k /\ ds[1] = n
      /\ \A j \in 2 .. k : ds[j] = NoOid
  <2>1. ds \in [1 .. k -> Nat \cup {NoOid}]
    BY <1>2
  <2>2. ds \in Seq(Nat \cup {NoOid}) /\ Len(ds) = k
    <3>1. ds \in Seq(Nat \cup {NoOid})
      BY <2>1, SeqDef
    <3>2. DOMAIN ds = 1 .. k /\ DOMAIN ds = 1 .. Len(ds) /\ Len(ds) \in Nat
      BY <3>1, LenProperties
    <3>. QED  BY <3>1, <3>2
  <2>. QED  BY <2>2
<1>. HIDE DEF ds
<1>6. x \in Pile /\ x.drops = ds /\ x.current = 1 /\ x.dropper = dropper
  BY <1>5 DEF Pile
<1>. HIDE DEF x
<1>7. /\ fs \in Seq(Pile) /\ Len(fs) = L /\ fs[L] = x /\ \A b \in 1 .. Len(w.dropping) : fs[b] = w.dropping[b]
  BY <1>1, <1>6, Appended
<1>8. Len(w.dropping) \in Nat /\ y \in Object /\ y = Falls(L, 1) /\ y.type = "dropping"
  BY <1>1, SeqTypes DEF Object, Falls
<1>. HIDE DEF fs, y
<1>9. u \in Fields /\ u.objects = w.objects /\ u.dropping = fs /\ SameLying(u, w)
  BY <1>1, <1>7 DEF Fields, SameLying
<1>. HIDE DEF u
<1>10. /\ v \in Fields
       /\ v = [u EXCEPT !.objects = v.objects]
       /\ DOMAIN v.objects = DOMAIN w.objects \cup {n}
       /\ v.objects[n] = y
       /\ \A o \in DOMAIN w.objects : v.objects[o] = w.objects[o]
  BY <1>3, <1>4, <1>8, <1>9, AllocateIs
<1>11. SameLying(v, w) /\ v.dropping = fs
  BY <1>9, <1>10 DEF SameLying, Fields
<1>12. FallingAt(fs, v.objects)
  <2>1. ASSUME NEW b \in 1 .. Len(w.dropping) PROVE Falls1(fs, v.objects, b)
    <3>1. Falls1(w.dropping, w.objects, b) /\ fs[b] = w.dropping[b]
      BY <1>1, <1>7 DEF FallingAt
    <3>. QED  BY <1>10, <3>1 DEF Falls1
  <2>2. Falls1(fs, v.objects, L)
    BY <1>5, <1>6, <1>7, <1>8, <1>10 DEF Falls1
  <2>3. ASSUME NEW o \in DOMAIN v.objects, v.objects[o].type = "dropping"
        PROVE  /\ v.objects[o].index \in 1 .. L
               /\ v.objects[o].index2 \in 1 .. fs[v.objects[o].index].current
               /\ fs[v.objects[o].index].drops[v.objects[o].index2] = o
    <3>1. CASE o = n
      <4>1. v.objects[o].index = L /\ v.objects[o].index2 = 1 /\ L \in 1 .. L
        BY <1>8, <1>10, <3>1 DEF Falls
      <4>. QED  BY <1>5, <1>6, <1>7, <3>1, <4>1
    <3>2. CASE o \in DOMAIN w.objects
      <4>1. v.objects[o] = w.objects[o] /\ w.objects[o].index \in 1 .. Len(w.dropping)
            /\ w.objects[o].index2 \in 1 .. w.dropping[w.objects[o].index].current
            /\ w.dropping[w.objects[o].index].drops[w.objects[o].index2] = o
        BY <1>1, <1>10, <2>3, <3>2 DEF FallingAt
      <4>2. fs[w.objects[o].index] = w.dropping[w.objects[o].index] /\ w.objects[o].index \in 1 .. L
        BY <1>7, <1>8, <4>1
      <4>. QED  BY <4>1, <4>2
    <3>. QED  BY <1>10, <3>1, <3>2
  <2>. QED  BY <1>7, <1>8, <2>1, <2>2, <2>3 DEF FallingAt
<1>13. Droppers(fs, v.objects)
  <2>1. ReactorOid \in DOMAIN v.objects /\ v.objects[ReactorOid].type = "reactor"
    BY <1>1, <1>10 DEF Droppers
  <2>2. ASSUME NEW b \in 1 .. Len(fs), fs[b].dropper # ReactorOid
        PROVE  /\ fs[b].dropper \in DOMAIN v.objects /\ v.objects[fs[b].dropper].type = "monster"
               /\ \A c \in 1 .. Len(fs) : fs[c].dropper = fs[b].dropper => c = b
    <3>1. CASE b = L
      <4>1. fs[b].dropper = dropper /\ dropper # ReactorOid
        BY <1>6, <1>7, <2>2, <3>1
      <4>2. ASSUME NEW c \in 1 .. Len(w.dropping) PROVE fs[c].dropper # dropper
        BY <1>7, <4>1
      <4>3. dropper \in DOMAIN v.objects /\ v.objects[dropper].type = "monster"
        BY <1>10, <4>1
      <4>4. \A c \in 1 .. Len(fs) : c = L \/ c \in 1 .. Len(w.dropping)
        BY <1>7, <1>8
      <4>. QED  BY <3>1, <4>1, <4>2, <4>3, <4>4
    <3>2. CASE b \in 1 .. Len(w.dropping)
      <4>1. fs[b] = w.dropping[b] /\ w.dropping[b].dropper # ReactorOid
        BY <1>7, <2>2, <3>2
      <4>2. /\ fs[b].dropper \in DOMAIN w.objects /\ w.objects[fs[b].dropper].type = "monster"
            /\ \A c \in 1 .. Len(w.dropping) : w.dropping[c].dropper = fs[b].dropper => c = b
        BY <1>1, <3>2, <4>1 DEF Droppers
      <4>3. fs[b].dropper \in DOMAIN v.objects /\ v.objects[fs[b].dropper].type = "monster"
        BY <1>10, <4>2
      <4>4. fs[L].dropper # fs[b].dropper
        BY <1>6, <1>7, <3>2, <4>1
      <4>5. \A c \in 1 .. Len(fs) : c = L \/ (c \in 1 .. Len(w.dropping) /\ fs[c] = w.dropping[c])
        BY <1>7, <1>8
      <4>. QED  BY <4>2, <4>3, <4>4, <4>5
    <3>. QED  BY <1>7, <1>8, <3>1, <3>2
  <2>. QED  BY <2>1, <2>2 DEF Droppers
<1>14. Waiting(fs)
  BY SMTT(30), <1>1, <1>5, <1>6, <1>7, <1>8 DEF Waiting
<1>15. Agree(v.objects, w.objects, "drop")
  BY <1>2, <1>8, <1>10 DEF Agree
<1>16. Good(v)
  BY <1>1, <1>10, <1>11, <1>12, <1>13, <1>14, <1>15, LinkedAgain DEF Good
<1>. QED  BY <1>8, <1>10, <1>16 DEF v, n

LEMMA PlacesApart ==
  \A b, i, c, j : /\ Falls(b, i) = Falls(c, j) <=> b = c /\ i = j
                  /\ Falls(b, i).type = "dropping" /\ Falls(b, i).index = b /\ Falls(b, i).index2 = i
                  /\ Lies(b, i) = Lies(c, j) <=> b = c /\ i = j
                  /\ Lies(b, i).type = "drop" /\ Lies(b, i).index = b /\ Lies(b, i).index2 = i
                  /\ [Falls(b, i) EXCEPT !.index2 = j] = Falls(b, j)
                  /\ [Falls(b, i) EXCEPT !.index = c] = Falls(c, i)
                  /\ [Lies(b, i) EXCEPT !.index2 = j] = Lies(b, j)
                  /\ [Lies(b, i) EXCEPT !.index = c] = Lies(c, i)
BY DEF Falls, Lies

(* A drop of a batch that falls is removed.                                *)
LEMMA FallingRemoved ==
  ASSUME NEW w, Good(w), NEW oid \in DOMAIN w.objects, w.objects[oid].type = "dropping"
  PROVE  Good(RemoveFalling(w, oid))
<1>. DEFINE os == w.objects
            fs == w.dropping
            b == os[oid].index
            j == os[oid].index2
            ds == fs[b].drops
            cur == fs[b].current
            K == Len(ds)
            moved == ds[cur]
            es == Front([ds EXCEPT ![j] = moved, ![cur] = Last(ds)])
            pile == [fs[b] EXCEPT !.drops = es, !.current = cur - 1]
            gs == [fs EXCEPT ![b] = pile]
            ts == [os EXCEPT ![moved] = [os[moved] EXCEPT !.index2 = j]]
            told == [w EXCEPT !.objects = ts, !.dropping = gs]
            v == RemoveFalling(w, oid)
<1>1. /\ w \in Fields /\ os \in Objects /\ fs \in Seq(Pile) /\ FallingAt(fs, os)
      /\ Linked(w) /\ Droppers(fs, os) /\ Waiting(fs) /\ AtBatch(w)
  BY DEF Good, Linked, Fields
<1>0. /\ b = os[oid].index /\ j = os[oid].index2 /\ ds = fs[b].drops /\ cur = fs[b].current
      /\ K = Len(ds) /\ moved = ds[cur]
  OBVIOUS
<1>a. v = Free([w EXCEPT !.objects[moved].index2 = j,
                         !.dropping[b] = [w.dropping[b] EXCEPT !.drops = es, !.current = @ - 1]], oid)
  BY DEF RemoveFalling
<1>. HIDE DEF b, j, ds, cur, K, moved
<1>2. b \in 1 .. Len(fs) /\ j \in 1 .. cur /\ ds[j] = oid
  BY <1>0, <1>1 DEF FallingAt
<1>3. /\ fs[b] \in Pile /\ ds \in Seq(Nat \cup {NoOid}) /\ K \in Nat /\ cur \in Nat /\ cur < K
      /\ Len(fs) \in Nat /\ j \in Nat /\ j \in 1 .. K /\ cur \in 1 .. K
  <2>1. /\ fs[b] \in Pile /\ ds \in Seq(Nat \cup {NoOid}) /\ K \in Nat /\ cur \in Nat /\ Len(fs) \in Nat
    BY <1>0, <1>1, <1>2, PileTypes
  <2>2. cur < K
    BY <1>0, <1>1, <1>2 DEF Waiting
  <2>. QED  BY <1>2, <2>1, <2>2
<1>4. /\ \A i \in 1 .. cur : ds[i] \in DOMAIN os /\ os[ds[i]] = Falls(b, i)
      /\ \A i \in (cur + 1) .. K : ds[i] = NoOid
  BY <1>0, <1>1, <1>2 DEF FallingAt, Falls1
<1>5. moved \in DOMAIN os /\ os[moved] = Falls(b, cur)
  <2>1. cur \in 1 .. cur
    BY <1>2, <1>3
  <2>. QED  BY <1>0, <1>4, <2>1
<1>6. v = Free(told, oid)
  <2>1. [w EXCEPT !.objects[moved].index2 = j,
                  !.dropping[b] = [w.dropping[b] EXCEPT !.drops = es, !.current = @ - 1]] = told
    <3>. HIDE DEF es
    <3>. QED  BY <1>0, <1>1 DEF Fields
  <2>. QED  BY <1>a, <2>1
<1>. HIDE DEF v
<1>7. /\ es \in Seq(Nat \cup {NoOid}) /\ Len(es) = K - 1
      /\ \A i \in 1 .. K - 1 : es[i] = IF i = cur THEN NoOid ELSE IF i = j THEN moved ELSE ds[i]
  <2>. DEFINE s1 == [ds EXCEPT ![j] = moved]
              s2 == [s1 EXCEPT ![cur] = Last(ds)]
  <2>1. ds[K] = NoOid /\ Last(ds) = NoOid /\ moved \in Nat \cup {NoOid} /\ NoOid \in Nat \cup {NoOid}
    <3>1. K \in (cur + 1) .. K /\ moved \in Nat \cup {NoOid}
      <4>1. cur \in 1 .. Len(ds)
        BY <1>0, <1>3
      <4>2. ds[cur] \in Nat \cup {NoOid}
        BY <1>3, <4>1, SeqTypes
      <4>3. K \in (cur + 1) .. K
        BY <1>3
      <4>. QED  BY <1>0, <4>2, <4>3
    <3>. QED  BY <1>0, <1>4, <3>1 DEF Last
  <2>2. s1 \in Seq(Nat \cup {NoOid}) /\ Len(s1) = Len(ds) /\ \A i \in 1 .. K : s1[i] = IF i = j THEN moved ELSE ds[i]
    <3>1. j \in 1 .. Len(ds) /\ 1 .. Len(ds) = 1 .. K
      BY <1>0, <1>3
    <3>. QED  BY <1>3, <2>1, <3>1, PutAt
  <2>. HIDE DEF s1
  <2>3. s2 \in Seq(Nat \cup {NoOid}) /\ Len(s2) = Len(ds) /\ \A i \in 1 .. K : s2[i] = IF i = cur THEN NoOid ELSE s1[i]
    <3>1. cur \in 1 .. Len(s1) /\ 1 .. Len(s1) = 1 .. K
      BY <1>0, <1>3, <2>2
    <3>2. s2 = [s1 EXCEPT ![cur] = NoOid]
      BY <2>1
    <3>. QED  BY <2>1, <2>2, <3>1, <3>2, PutAt
  <2>4. es = Front(s2)
    BY DEF s1
  <2>. HIDE DEF s2, es
  <2>5. es \in Seq(Nat \cup {NoOid}) /\ Len(es) = K - 1 /\ \A i \in 1 .. K - 1 : es[i] = s2[i]
    <3>1. Len(s2) = Len(ds) /\ Len(ds) = K
      BY <1>0, <2>3
    <3>2. K # 0
      BY <1>3
    <3>. QED  BY ZenonT(40), <2>3, <2>4, <3>1, <3>2, FrontIs
  <2>. QED  BY <1>3, <2>2, <2>3, <2>5
<1>. HIDE DEF es
<1>8. pile \in Pile /\ pile.drops = es /\ pile.current = cur - 1 /\ pile.dropper = fs[b].dropper
  <2>1. cur - 1 \in Nat
    BY <1>3
  <2>. QED  BY <1>0, <1>3, <1>7, <2>1 DEF Pile
<1>. HIDE DEF pile
<1>9. gs \in Seq(Pile) /\ Len(gs) = Len(fs) /\ \A c \in 1 .. Len(fs) : gs[c] = IF c = b THEN pile ELSE fs[c]
  BY <1>1, <1>2, <1>8, PutAt
<1>10. ts \in Objects /\ DOMAIN ts = DOMAIN os
       /\ \A o \in DOMAIN os : ts[o] = IF o = moved THEN Falls(b, j) ELSE os[o]
  <2>1. [os[moved] EXCEPT !.index2 = j] = Falls(b, j)
    BY <1>5, PlacesApart
  <2>2. Falls(b, j) \in Object
    BY <1>2, <1>3 DEF Falls, Object
  <2>3. DOMAIN ts = DOMAIN os /\ \A o \in DOMAIN os : ts[o] = IF o = moved THEN Falls(b, j) ELSE os[o]
    BY <2>1
  <2>4. ts = [o \in DOMAIN ts |-> ts[o]]
    OBVIOUS
  <2>. HIDE DEF ts
  <2>5. DOMAIN os \in SUBSET Nat /\ IsFiniteSet(DOMAIN os) /\ \A o \in DOMAIN os : os[o] \in Object
    BY <1>1, ObjectsIs
  <2>6. \A o \in DOMAIN ts : ts[o] \in Object
    BY <2>2, <2>3, <2>5
  <2>. QED  BY <2>3, <2>4, <2>5, <2>6, ObjectsIs
<1>. HIDE DEF gs, ts
<1>11. told \in Fields /\ told.objects = ts /\ told.dropping = gs /\ SameLying(told, w)
  BY <1>1, <1>9, <1>10 DEF Fields, SameLying
<1>. HIDE DEF told
<1>12. /\ v \in Fields
       /\ v = [told EXCEPT !.objects = v.objects]
       /\ DOMAIN v.objects = DOMAIN os \ {oid}
       /\ \A o \in DOMAIN os \ {oid} : v.objects[o] = IF o = moved THEN Falls(b, j) ELSE os[o]
  <2>1. /\ v \in Fields
        /\ v = [told EXCEPT !.objects = v.objects]
        /\ DOMAIN v.objects = DOMAIN ts \ {oid}
        /\ \A o \in DOMAIN ts \ {oid} : v.objects[o] = ts[o]
    BY <1>6, <1>11, FreeAllIs DEF Free
  <2>. QED  BY <1>10, <2>1
<1>13. SameLying(v, w) /\ v.dropping = gs
  BY <1>11, <1>12 DEF SameLying, Fields
<1>14. moved = oid <=> j = cur
  <2>1. os[oid] = Falls(b, j)
    BY <1>2, <1>4
  <2>2. moved = oid => j = cur
    BY <1>5, <2>1, PlacesApart
  <2>. QED  BY <1>0, <1>2, <2>2
<1>15. FallingAt(gs, v.objects)
  <2>1. ASSUME NEW c \in 1 .. Len(gs), c # b PROVE Falls1(gs, v.objects, c)
    <3>1. gs[c] = fs[c] /\ Falls1(fs, os, c) /\ c \in 1 .. Len(fs)
      BY <1>1, <1>9, <2>1 DEF FallingAt
    <3>2. ASSUME NEW i \in 1 .. fs[c].current
          PROVE  fs[c].drops[i] \in DOMAIN v.objects /\ v.objects[fs[c].drops[i]] = Falls(c, i)
      <4>1. fs[c].drops[i] \in DOMAIN os /\ os[fs[c].drops[i]] = Falls(c, i)
        BY <3>1 DEF Falls1
      <4>2. fs[c].drops[i] # oid /\ fs[c].drops[i] # moved
        <5>1. os[oid] = Falls(b, j)
          BY <1>2, <1>4
        <5>. QED  BY <1>5, <2>1, <4>1, <5>1, PlacesApart
      <4>. QED  BY <1>12, <4>1, <4>2
    <3>. QED  BY <3>1, <3>2 DEF Falls1
  <2>2. Falls1(gs, v.objects, b)
    <3>1. gs[b].drops = es /\ gs[b].current = cur - 1
      BY <1>2, <1>8, <1>9
    <3>2. ASSUME NEW i \in 1 .. cur - 1
          PROVE  es[i] \in DOMAIN v.objects /\ v.objects[es[i]] = Falls(b, i)
      <4>1. CASE i = j
        <5>1. es[i] = moved /\ moved # oid
          BY <1>3, <1>7, <1>14, <4>1
        <5>. QED  BY <1>5, <1>12, <4>1, <5>1
      <4>2. CASE i # j
        <5>1. es[i] = ds[i] /\ ds[i] \in DOMAIN os /\ os[ds[i]] = Falls(b, i)
          BY <1>3, <1>4, <1>7, <4>2
        <5>2. ds[i] # oid /\ ds[i] # moved
          <6>1. os[oid] = Falls(b, j) /\ i # cur
            BY <1>2, <1>3, <1>4
          <6>. QED  BY <1>5, <4>2, <5>1, <6>1, PlacesApart
        <5>. QED  BY <1>12, <5>1, <5>2
      <4>. QED  BY <4>1, <4>2
    <3>3. ASSUME NEW i \in cur .. K - 1 PROVE es[i] = NoOid
      <4>1. i \in 1 .. K - 1 /\ (i = cur \/ (i # j /\ i \in (cur + 1) .. K))
        BY <1>2, <1>3
      <4>. QED  BY <1>4, <1>7, <4>1
    <3>4. cur - 1 <= K - 1 /\ Len(es) = K - 1 /\ (cur - 1) + 1 = cur
      BY <1>3, <1>7
    <3>. QED  BY <3>1, <3>2, <3>3, <3>4 DEF Falls1
  <2>3. ASSUME NEW o \in DOMAIN v.objects, v.objects[o].type = "dropping"
        PROVE  /\ v.objects[o].index \in 1 .. Len(gs)
               /\ v.objects[o].index2 \in 1 .. gs[v.objects[o].index].current
               /\ gs[v.objects[o].index].drops[v.objects[o].index2] = o
    <3>1. o # oid /\ o \in DOMAIN os
      BY <1>12
    <3>2. CASE o = moved
      <4>1. v.objects[o].index = b /\ v.objects[o].index2 = j /\ j \in 1 .. cur - 1
        <5>1. v.objects[o] = Falls(b, j) /\ j # cur
          BY <1>12, <1>14, <3>1, <3>2
        <5>2. j \in 1 .. cur - 1
          BY <1>2, <1>3, <5>1
        <5>. QED  BY <5>1, <5>2, PlacesApart
      <4>2. es[j] = moved /\ gs[b].drops = es /\ gs[b].current = cur - 1
        BY <1>2, <1>3, <1>7, <1>8, <1>9, <4>1
      <4>. QED  BY <1>2, <1>9, <3>2, <4>1, <4>2
    <3>3. CASE o # moved
      <4>. DEFINE c == os[o].index
                  i == os[o].index2
      <4>1. v.objects[o] = os[o]
        BY <1>12, <3>1, <3>3
      <4>2. c \in 1 .. Len(fs) /\ i \in 1 .. fs[c].current /\ fs[c].drops[i] = o
        BY <1>1, <2>3, <3>1, <4>1 DEF FallingAt
      <4>3. CASE c # b
        BY <1>9, <4>1, <4>2, <4>3
      <4>4. CASE c = b
        <5>1. i # cur /\ i # j /\ i \in 1 .. cur
          BY <1>0, <1>2, <3>1, <3>3, <4>2, <4>4
        <5>2. i \in 1 .. cur - 1 /\ es[i] = ds[i] /\ gs[b].drops = es /\ gs[b].current = cur - 1
          <6>1. i \in 1 .. cur - 1 /\ i \in 1 .. K - 1
            BY <1>3, <5>1
          <6>2. es[i] = ds[i]
            BY <1>7, <5>1, <6>1
          <6>. QED  BY <1>2, <1>8, <1>9, <6>1, <6>2
        <5>3. v.objects[o].index = b /\ v.objects[o].index2 = i /\ ds[i] = o
          BY <1>0, <4>1, <4>2, <4>4
        <5>. QED  BY <1>2, <1>9, <5>2, <5>3
      <4>. QED  BY <4>3, <4>4
    <3>. QED  BY <3>2, <3>3
  <2>. QED  BY <2>1, <2>2, <2>3 DEF FallingAt
<1>16. \A c \in 1 .. Len(gs) : gs[c].dropper = fs[c].dropper
  BY <1>0, <1>8, <1>9
<1>17. Droppers(gs, v.objects)
  <2>1. \A o \in DOMAIN os : os[o].type \in {"monster", "reactor"} => o \in DOMAIN v.objects /\ v.objects[o] = os[o]
    <3>1. os[oid].type = "dropping" /\ os[moved].type = "dropping"
      BY <1>5, PlacesApart
    <3>. QED  BY <1>12, <3>1
  <2>. QED  BY <1>1, <1>9, <1>16, <2>1 DEF Droppers
<1>18. Waiting(gs)
  <2>1. \A c \in 1 .. Len(gs) : c # b => gs[c].current < Len(gs[c].drops)
    BY <1>1, <1>9 DEF Waiting
  <2>2. gs[b].current < Len(gs[b].drops)
    BY <1>2, <1>3, <1>7, <1>8, <1>9
  <2>. QED  BY <2>1, <2>2 DEF Waiting
<1>19. Agree(v.objects, os, "drop")
  <2>1. os[oid].type = "dropping" /\ os[moved].type = "dropping" /\ Falls(b, j).type = "dropping"
    BY <1>5, PlacesApart
  <2>. QED  BY <1>12, <2>1 DEF Agree
<1>20. Good(v)
  BY <1>1, <1>12, <1>13, <1>15, <1>17, <1>18, <1>19, LinkedAgain DEF Good
<1>. QED  BY <1>20 DEF v

-----------------------------------------------------------------------------
(* A drop of a batch that lies is removed.                                 *)

(* The object m now has index2 j, and oid is gone.                         *)
Retold(v, w, m, j, oid) ==
  /\ v \in Fields /\ v = [w EXCEPT !.objects = v.objects]
  /\ DOMAIN v.objects = DOMAIN w.objects \ {oid}
  /\ \A o \in DOMAIN v.objects :
       v.objects[o] = IF o = m THEN [w.objects[m] EXCEPT !.index2 = j] ELSE w.objects[o]

LEMMA Untold ==
  ASSUME NEW w \in Fields, NEW m \in DOMAIN w.objects, NEW j \in Nat, NEW oid
  PROVE  Retold(Free([w EXCEPT !.objects[m].index2 = j], oid), w, m, j, oid)
<1>. DEFINE os == w.objects
            x == [os[m] EXCEPT !.index2 = j]
            ts == [os EXCEPT ![m] = x]
            u == [w EXCEPT !.objects = ts]
            v == Free([w EXCEPT !.objects[m].index2 = j], oid)
<1>1. os \in Objects
  BY DEF Fields
<1>2. v = Free(u, oid)
  BY DEF Fields
<1>3. DOMAIN os \in SUBSET Nat /\ IsFiniteSet(DOMAIN os) /\ \A o \in DOMAIN os : os[o] \in Object
  BY <1>1, ObjectsIs
<1>4. x \in Object
  BY <1>3 DEF Object
<1>. HIDE DEF x, v
<1>5. DOMAIN ts = DOMAIN os /\ \A o \in DOMAIN os : ts[o] = IF o = m THEN x ELSE os[o]
  OBVIOUS
<1>6. ts = [o \in DOMAIN ts |-> ts[o]]
  OBVIOUS
<1>. HIDE DEF ts
<1>7. ts \in Objects
  <2>1. \A o \in DOMAIN ts : ts[o] \in Object
    BY <1>3, <1>4, <1>5
  <2>. QED  BY <1>3, <1>5, <1>6, <2>1, ObjectsIs
<1>8. u \in Fields /\ u.objects = ts
  BY <1>7 DEF Fields
<1>9. \A p : [u EXCEPT !.objects = p] = [w EXCEPT !.objects = p]
  BY DEF Fields
<1>. HIDE DEF u
<1>10. /\ v \in Fields /\ v = [u EXCEPT !.objects = v.objects]
       /\ DOMAIN v.objects = DOMAIN ts \ {oid}
       /\ \A o \in DOMAIN ts \ {oid} : v.objects[o] = ts[o]
  <2>1. v = FreeAll(u, {oid})
    BY <1>2 DEF Free
  <2>2. /\ v \in Fields /\ v = [u EXCEPT !.objects = v.objects]
        /\ DOMAIN v.objects = DOMAIN u.objects \ {oid}
        /\ \A o \in DOMAIN u.objects \ {oid} : v.objects[o] = u.objects[o]
    <3>1. Freed(FreeAll(u, {oid}), u, {oid})
      BY <1>8, FreedIs
    <3>2. Freed(v, u, {oid})
      BY <2>1, <3>1
    <3>. QED  BY <3>2 DEF Freed
  <2>. QED  BY <1>8, <2>2
<1>11. /\ v \in Fields /\ v = [w EXCEPT !.objects = v.objects]
       /\ DOMAIN v.objects = DOMAIN os \ {oid}
       /\ \A o \in DOMAIN v.objects : v.objects[o] = IF o = m THEN x ELSE os[o]
  BY <1>5, <1>9, <1>10
<1>. QED  BY <1>11 DEF v, x, Retold

(* Batches with the same timers.                                           *)
LEMMA TimedSame ==
  ASSUME NEW bs, NEW cs, NEW ts, Timed(bs, ts), Living(cs) = Living(bs),
         \A b \in Living(bs) : cs[b].timer = bs[b].timer /\ cs[b].exclusive = bs[b].exclusive
  PROVE  Timed(cs, ts)
<1>1. \A b \in Living(bs) : TimerOf(cs[b]) = TimerOf(bs[b])
  BY DEF TimerOf
<1>2. \A t : \A b \in Living(bs) : IsOf(t, cs[b]) <=> IsOf(t, bs[b])
  BY DEF IsOf
<1>3. \A b \in Living(cs) : \E i \in 1 .. Len(ts) : ts[i] = TimerOf(cs[b])
  BY <1>1 DEF Timed
<1>4. \A i \in 1 .. Len(ts) : \E b \in Living(cs) : IsOf(ts[i], cs[b])
  BY <1>2 DEF Timed
<1>5. \A i, j \in 1 .. Len(ts) : \A b, c \in Living(cs) :
       IsOf(ts[i], cs[b]) /\ IsOf(ts[j], cs[c]) => (i < j <=> b < c)
  <2>. SUFFICES ASSUME NEW i \in 1 .. Len(ts), NEW j \in 1 .. Len(ts),
                       NEW b \in Living(bs), NEW c \in Living(bs), IsOf(ts[i], cs[b]), IsOf(ts[j], cs[c])
                PROVE  i < j <=> b < c
    OBVIOUS
  <2>1. IsOf(ts[i], bs[b]) /\ IsOf(ts[j], bs[c])
    BY <1>2
  <2>. QED  BY <2>1 DEF Timed
<1>. QED  BY <1>3, <1>4, <1>5 DEF Timed

(* A batch goes, and the timer that is its.                                *)
LEMMA TimedRemoved ==
  ASSUME NEW bs \in Seq(Place), NEW ts \in Seq(Timer), NEW cs, NEW us, Timed(bs, ts),
         NEW b \in Living(bs), Living(cs) = Living(bs) \ {b},
         \A c \in Living(cs) : cs[c] = bs[c],
         NEW k \in 1 .. Len(ts), IsOf(ts[k], bs[b]), Len(us) = Len(ts) - 1,
         \A i \in 1 .. Len(ts) - 1 : us[i] = IF i < k THEN ts[i] ELSE ts[i + 1]
  PROVE  Timed(cs, us)
<1>. DEFINE N == Len(ts)
            old(i) == IF i < k THEN i ELSE i + 1
<1>1. N \in Nat /\ k \in Nat /\ Len(us) = N - 1 /\ k <= N /\ 1 <= k
  BY SeqTypes
<1>2. \A c \in Living(bs) : c \in Nat
  BY LivingTypes
<1>3. \A i \in 1 .. Len(us) : old(i) \in 1 .. N /\ old(i) # k /\ us[i] = ts[old(i)]
  BY <1>1
<1>4. \A i \in 1 .. Len(us), j \in 1 .. Len(us) : i < j <=> old(i) < old(j)
  BY <1>1
<1>5. \A h \in 1 .. N : h # k => \E i \in 1 .. Len(us) : old(i) = h
  <2>. SUFFICES ASSUME NEW h \in 1 .. N, h # k PROVE \E i \in 1 .. Len(us) : old(i) = h
    OBVIOUS
  <2>1. CASE h < k
    <3>1. h \in 1 .. Len(us) /\ old(h) = h
      BY <1>1, <2>1
    <3>. QED  BY <3>1
  <2>2. CASE h > k
    <3>1. h - 1 \in 1 .. Len(us) /\ old(h - 1) = h
      BY <1>1, <2>2
    <3>. QED  BY <3>1
  <2>. QED  BY <1>1, <2>1, <2>2
<1>6. \A h \in 1 .. N : \A c \in Living(bs) : IsOf(ts[h], bs[c]) => (h = k <=> c = b)
  <2>. SUFFICES ASSUME NEW h \in 1 .. N, NEW c \in Living(bs), IsOf(ts[h], bs[c])
                PROVE  h = k <=> c = b
    OBVIOUS
  <2>1. (h < k <=> c < b) /\ (k < h <=> b < c)
    BY DEF Timed
  <2>. QED  BY <1>1, <1>2, <2>1
<1>. HIDE DEF N, old
<1>7. ASSUME NEW c \in Living(cs) PROVE \E i \in 1 .. Len(us) : us[i] = TimerOf(cs[c])
  <2>1. c \in Living(bs) /\ c # b /\ cs[c] = bs[c]
    OBVIOUS
  <2>2. PICK h \in 1 .. N : ts[h] = TimerOf(bs[c])
    BY <2>1 DEF Timed, N
  <2>3. IsOf(ts[h], bs[c])
    BY <2>2 DEF IsOf, TimerOf
  <2>4. PICK i \in 1 .. Len(us) : old(i) = h
    BY <1>5, <1>6, <2>1, <2>3
  <2>. QED  BY <1>3, <2>1, <2>2, <2>4
<1>8. ASSUME NEW i \in 1 .. Len(us) PROVE \E c \in Living(cs) : IsOf(us[i], cs[c])
  <2>1. old(i) \in 1 .. N /\ old(i) # k /\ us[i] = ts[old(i)]
    BY <1>3
  <2>2. PICK c \in Living(bs) : IsOf(ts[old(i)], bs[c])
    BY <2>1 DEF Timed, N
  <2>3. c # b
    BY <1>6, <2>1, <2>2
  <2>. QED  BY <2>1, <2>2, <2>3
<1>9. ASSUME NEW i \in 1 .. Len(us), NEW j \in 1 .. Len(us), NEW c \in Living(cs), NEW d \in Living(cs),
             IsOf(us[i], cs[c]), IsOf(us[j], cs[d])
      PROVE  i < j <=> c < d
  <2>1. old(i) \in 1 .. N /\ old(j) \in 1 .. N /\ IsOf(ts[old(i)], bs[c]) /\ IsOf(ts[old(j)], bs[d])
    BY <1>3, <1>9
  <2>2. old(i) < old(j) <=> c < d
    BY ZenonT(40), <2>1 DEF Timed, N
  <2>. QED  BY <1>4, <2>2
<1>. QED  BY <1>7, <1>8, <1>9 DEF Timed

(* What is left of a batch whose drop j goes: the last takes its place.    *)
Rest(ds, j) == Front([ds EXCEPT ![j] = Last(ds)])

LEMMA RestIs ==
  ASSUME NEW ds \in Seq(Nat), ds # <<>>, NEW j \in 1 .. Len(ds)
  PROVE  /\ Len(ds) \in Nat \ {0} /\ Rest(ds, j) \in Seq(Nat) /\ Len(Rest(ds, j)) = Len(ds) - 1
         /\ \A i \in 1 .. Len(ds) - 1 : Rest(ds, j)[i] = IF i = j THEN ds[Len(ds)] ELSE ds[i]
         /\ Last(ds) = ds[Len(ds)]
<1>1. Len(ds) \in Nat /\ Len(ds) \in 1 .. Len(ds) /\ ds[Len(ds)] \in Nat
  BY SeqTypes
<1>. DEFINE s == [ds EXCEPT ![j] = Last(ds)]
<1>2. s \in Seq(Nat) /\ Len(s) = Len(ds) /\ \A i \in 1 .. Len(ds) : s[i] = IF i = j THEN ds[Len(ds)] ELSE ds[i]
  BY <1>1, PutAt DEF Last
<1>3. Rest(ds, j) = Front(s)
  BY DEF Rest
<1>. HIDE DEF s
<1>4. Len(s) # 0
  BY <1>1, <1>2
<1>5. Rest(ds, j) \in Seq(Nat) /\ Len(Rest(ds, j)) = Len(ds) - 1
      /\ \A i \in 1 .. Len(ds) - 1 : Rest(ds, j)[i] = s[i]
  <2>1. Front(s) \in Seq(Nat) /\ Len(Front(s)) = Len(s) - 1 /\ \A i \in 1 .. Len(s) - 1 : Front(s)[i] = s[i]
    BY <1>2, <1>4, FrontIs
  <2>. QED  BY <1>2, <1>3, <2>1
<1>. QED  BY <1>1, <1>2, <1>5 DEF Last

(* The objects once drop j of the batch b of number B is gone.             *)
Without(cs, p, bs, os, oid, B, j, last) ==
  /\ B = os[oid].index /\ j = os[oid].index2 /\ last = bs[B].drops[Len(bs[B].drops)]
  /\ DOMAIN p = DOMAIN os \ {oid}
  /\ \A o \in DOMAIN p : p[o] = IF o = last THEN [os[last] EXCEPT !.index2 = j] ELSE os[o]
  /\ Len(cs) = Len(bs)
  /\ \A c \in 1 .. Len(bs) : c # B => cs[c] = bs[c]
  /\ \/ Len(bs[B].drops) = 1 /\ cs[B] = Nil
     \/ Len(bs[B].drops) # 1 /\ cs[B] # Nil /\ cs[B].drops = Rest(bs[B].drops, j)

OthersSame(p, os) ==
  /\ \A o \in DOMAIN os : os[o].type # "drop" => o \in DOMAIN p /\ p[o] = os[o]
  /\ \A o \in DOMAIN p : p[o].type # "drop" => o \in DOMAIN os /\ p[o] = os[o]

LEMMA LyingRest ==
  ASSUME NEW bs \in Seq(Place), NEW cs, NEW os, NEW p, Lying(bs, os),
         NEW oid \in DOMAIN os, os[oid].type = "drop", NEW B, NEW j, NEW last,
         Without(cs, p, bs, os, oid, B, j, last)
  PROVE  Lying(cs, p) /\ OthersSame(p, os)
<1>. DEFINE ds == bs[B].drops
            K == Len(ds)
<1>w. /\ B = os[oid].index /\ j = os[oid].index2 /\ last = bs[B].drops[Len(bs[B].drops)]
      /\ DOMAIN p = DOMAIN os \ {oid}
      /\ \A o \in DOMAIN p : p[o] = IF o = last THEN [os[last] EXCEPT !.index2 = j] ELSE os[o]
      /\ Len(cs) = Len(bs)
      /\ \A c \in 1 .. Len(bs) : c # B => cs[c] = bs[c]
      /\ \/ Len(bs[B].drops) = 1 /\ cs[B] = Nil
         \/ Len(bs[B].drops) # 1 /\ cs[B] # Nil /\ cs[B].drops = Rest(bs[B].drops, j)
  BY DEF Without
<1>1. B \in Living(bs) /\ j \in 1 .. K /\ ds[j] = oid
  BY <1>w DEF Lying
<1>2. /\ bs[B] \in Batch /\ ds \in Seq(Nat) /\ ds # <<>> /\ K \in Nat \ {0} /\ B \in 1 .. Len(bs)
      /\ Len(bs) \in Nat
  BY <1>1, LivingTypes, BatchTypes
<1>3. /\ \A i \in 1 .. K : ds[i] \in DOMAIN os /\ os[ds[i]] = Lies(B, i)
      /\ last = ds[K] /\ last \in DOMAIN os /\ os[last] = Lies(B, K) /\ os[oid] = Lies(B, j)
  <2>1. \A i \in 1 .. K : ds[i] \in DOMAIN os /\ os[ds[i]] = Lies(B, i)
    BY <1>1 DEF Lying
  <2>2. K \in 1 .. K
    BY <1>2
  <2>. QED  BY <1>1, <1>w, <2>1, <2>2
<1>0. ds = bs[B].drops /\ K = Len(ds)
  OBVIOUS
<1>. HIDE DEF ds, K
<1>4. [os[last] EXCEPT !.index2 = j] = Lies(B, j)
  BY <1>3, PlacesApart
<1>5. \A o \in DOMAIN p : o # oid /\ o \in DOMAIN os /\ p[o] = IF o = last THEN Lies(B, j) ELSE os[o]
  BY <1>4, <1>w
<1>6. last = oid <=> j = K
  <2>1. last = oid => j = K
    BY <1>3 DEF Lies
  <2>. QED  BY <1>1, <1>3, <2>1
<1>7. K # 1 => /\ cs[B] # Nil /\ cs[B].drops = Rest(ds, j) /\ Len(Rest(ds, j)) = K - 1
               /\ \A i \in 1 .. K - 1 : Rest(ds, j)[i] = IF i = j THEN last ELSE ds[i]
  <2>. SUFFICES ASSUME K # 1 PROVE cs[B] # Nil /\ cs[B].drops = Rest(ds, j)
               /\ Len(Rest(ds, j)) = K - 1 /\ \A i \in 1 .. K - 1 : Rest(ds, j)[i] = IF i = j THEN ds[K] ELSE ds[i]
    BY <1>3
  <2>1. Len(Rest(ds, j)) = K - 1 /\ \A i \in 1 .. K - 1 : Rest(ds, j)[i] = IF i = j THEN ds[K] ELSE ds[i]
    <3>1. ds \in Seq(Nat) /\ ds # <<>> /\ j \in 1 .. Len(ds)
      BY <1>0, <1>1, <1>2
    <3>2. Len(Rest(ds, j)) = Len(ds) - 1
          /\ \A i \in 1 .. Len(ds) - 1 : Rest(ds, j)[i] = IF i = j THEN ds[Len(ds)] ELSE ds[i]
      BY <3>1, RestIs
    <3>. QED  BY <1>0, <3>2
  <2>2. cs[B] # Nil /\ cs[B].drops = Rest(ds, j)
    BY <1>0, <1>w
  <2>. QED  BY <2>1, <2>2
<1>8. K = 1 => cs[B] = Nil
  BY <1>0, <1>w
<1>9. \A c \in Living(bs) : c # B => c \in Living(cs) /\ cs[c] = bs[c]
  BY <1>w DEF Living
<1>10. \A c \in Living(cs) : c # B => c \in Living(bs) /\ cs[c] = bs[c]
  BY <1>w DEF Living
<1>11. B \in Living(cs) <=> K # 1
  BY <1>2, <1>7, <1>8, <1>w DEF Living
<1>12. ASSUME NEW c \in Living(cs), NEW i \in 1 .. Len(cs[c].drops)
       PROVE  cs[c].drops[i] \in DOMAIN p /\ p[cs[c].drops[i]] = Lies(c, i)
  <2>1. CASE c # B
    <3>1. cs[c] = bs[c] /\ bs[c].drops[i] \in DOMAIN os /\ os[bs[c].drops[i]] = Lies(c, i)
      BY <1>10, <2>1 DEF Lying
    <3>2. bs[c].drops[i] # oid /\ bs[c].drops[i] # last
      BY <1>3, <2>1, <3>1, PlacesApart
    <3>. QED  BY SMTT(120), <1>5, <1>w, <3>1, <3>2
  <2>2. CASE c = B
    <3>1. K # 1 /\ cs[c].drops = Rest(ds, j) /\ i \in 1 .. K - 1
      BY <1>7, <1>11, <2>2
    <3>2. i \in 1 .. K /\ i # K /\ Rest(ds, j)[i] = IF i = j THEN last ELSE ds[i]
      BY <1>2, <1>7, <3>1
    <3>3. CASE i = j
      <4>1. last # oid /\ last \in DOMAIN os /\ cs[c].drops[i] = last
        BY <1>3, <1>6, <2>2, <3>1, <3>2, <3>3
      <4>2. last \in DOMAIN p
        BY <1>w, <4>1
      <4>3. p[last] = Lies(B, j)
        BY <1>5, <4>2
      <4>. QED  BY <2>2, <3>3, <4>1, <4>2, <4>3
    <3>4. CASE i # j
      <4>1. ds[i] \in DOMAIN os /\ os[ds[i]] = Lies(B, i) /\ ds[i] # oid /\ ds[i] # last
        BY <1>3, <3>2, <3>4, PlacesApart
      <4>. QED  BY SMTT(120), <1>5, <1>w, <2>2, <3>1, <3>2, <3>4, <4>1
    <3>. QED  BY <3>3, <3>4
  <2>. QED  BY <2>1, <2>2
<1>13. ASSUME NEW o \in DOMAIN p, p[o].type = "drop"
       PROVE  /\ p[o].index \in Living(cs) /\ p[o].index2 \in 1 .. Len(cs[p[o].index].drops)
              /\ cs[p[o].index].drops[p[o].index2] = o
  <2>1. o # oid /\ o \in DOMAIN os
    BY <1>5
  <2>2. CASE o = last
    <3>1. p[o].index = B /\ p[o].index2 = j /\ j # K
      BY <1>5, <1>6, <2>1, <2>2, PlacesApart
    <3>2. K # 1 /\ j \in 1 .. K - 1
      BY <1>1, <1>2, <3>1
    <3>3. cs[B].drops = Rest(ds, j) /\ Len(Rest(ds, j)) = K - 1 /\ Rest(ds, j)[j] = last /\ B \in Living(cs)
      BY <1>7, <1>11, <3>2
    <3>. QED  BY <2>2, <3>1, <3>2, <3>3
  <2>3. CASE o # last
    <3>1. p[o] = os[o] /\ os[o].index \in Living(bs) /\ os[o].index2 \in 1 .. Len(bs[os[o].index].drops)
          /\ bs[os[o].index].drops[os[o].index2] = o
      BY <1>5, <1>13, <2>1, <2>3 DEF Lying
    <3>2. CASE os[o].index # B
      BY <1>9, <3>1, <3>2
    <3>3. CASE os[o].index = B
      <4>1. os[o].index2 \in 1 .. K /\ ds[os[o].index2] = o /\ os[o].index2 # K /\ os[o].index2 # j
        BY <1>0, <1>1, <1>3, <2>1, <2>3, <3>1, <3>3
      <4>2. os[o].index2 \in 1 .. K - 1 /\ K # 1
        BY <1>2, <4>1
      <4>. QED  BY <1>7, <1>11, <3>1, <3>3, <4>1, <4>2
    <3>. QED  BY <3>2, <3>3
  <2>. QED  BY <2>2, <2>3
<1>14. \A o \in DOMAIN os : os[o].type # "drop" => o \in DOMAIN p /\ p[o] = os[o]
  <2>1. os[oid].type = "drop" /\ os[last].type = "drop"
    BY <1>3, PlacesApart
  <2>. QED  BY <1>5, <1>w, <2>1
<1>15. \A o \in DOMAIN p : p[o].type # "drop" => o \in DOMAIN os /\ p[o] = os[o]
  BY <1>5, PlacesApart
<1>. QED  BY <1>12, <1>13, <1>14, <1>15 DEF Lying, OthersSame

(* map_remove_drop up to its loop.                                         *)
Unswept(w, oid) ==
  LET b == w.objects[oid].index
      batch == w.batches[b]
      drops == Rest(batch.drops, w.objects[oid].index2)
      gone == Free([w EXCEPT !.objects[Last(batch.drops)].index2 = w.objects[oid].index2], oid)
  IN  IF drops # <<>> THEN [gone EXCEPT !.batches[b].drops = drops]
      ELSE [Stop(gone, batch.timer) EXCEPT !.batches[b] = Nil]

LEMMA LyingRemoved ==
  ASSUME NEW w, Linked(w), NEW oid \in DOMAIN w.objects, w.objects[oid].type = "drop"
  PROVE  /\ Linked(Unswept(w, oid)) /\ Unswept(w, oid).dropping = w.dropping
         /\ OthersSame(Unswept(w, oid).objects, w.objects)
<1>. DEFINE os == w.objects
            bs == w.batches
            B == os[oid].index
            j == os[oid].index2
            ds == bs[B].drops
            last == Last(ds)
            gone == Free([w EXCEPT !.objects[last].index2 = j], oid)
            p == gone.objects
            v == Unswept(w, oid)
<1>1. /\ w \in Fields /\ os \in Objects /\ bs \in Seq(Place) /\ w.timers \in Seq(Timer)
      /\ w.start \in Nat /\ Lying(bs, os) /\ FallingAt(w.dropping, os) /\ Droppers(w.dropping, os)
      /\ Timed(bs, w.timers) /\ Fitting(w)
  BY DEF Linked, Fields
<1>0. /\ B = os[oid].index /\ j = os[oid].index2 /\ ds = bs[B].drops /\ last = Last(ds)
      /\ gone = Free([w EXCEPT !.objects[last].index2 = j], oid)
  OBVIOUS
<1>a. v = IF Rest(ds, j) # <<>> THEN [gone EXCEPT !.batches[B].drops = Rest(ds, j)]
          ELSE [Stop(gone, bs[B].timer) EXCEPT !.batches[B] = Nil]
  BY DEF Unswept
<1>. SUFFICES Linked(v) /\ v.dropping = w.dropping /\ OthersSame(v.objects, os)
  OBVIOUS
<1>. HIDE DEF B, j, ds, last, gone, v
<1>2. B \in Living(bs) /\ j \in 1 .. Len(ds) /\ ds[j] = oid
  BY <1>0, <1>1 DEF Lying
<1>3. /\ bs[B] \in Batch /\ ds \in Seq(Nat) /\ ds # <<>> /\ Len(ds) \in Nat \ {0} /\ B \in 1 .. Len(bs)
      /\ Len(bs) \in Nat /\ j \in Nat
  <2>1. bs[B] \in Batch /\ B \in 1 .. Len(bs) /\ Len(bs) \in Nat
    BY <1>1, <1>2, LivingTypes
  <2>2. ds \in Seq(Nat) /\ ds # <<>> /\ Len(ds) \in Nat \ {0}
    BY <1>0, <2>1, BatchTypes
  <2>. QED  BY <1>2, <2>1, <2>2
<1>4. /\ Rest(ds, j) \in Seq(Nat) /\ Len(Rest(ds, j)) = Len(ds) - 1 /\ last = ds[Len(ds)]
      /\ Rest(ds, j) = <<>> <=> Len(ds) = 1
  <2>1. Rest(ds, j) \in Seq(Nat) /\ Len(Rest(ds, j)) = Len(ds) - 1 /\ Last(ds) = ds[Len(ds)]
    BY <1>2, <1>3, RestIs
  <2>2. Rest(ds, j) = <<>> <=> Len(Rest(ds, j)) = 0
    BY <2>1, EmptySeq
  <2>3. Len(Rest(ds, j)) = 0 <=> Len(ds) = 1
    BY <1>3, <2>1
  <2>. QED  BY <1>0, <2>1, <2>2, <2>3
<1>5. last \in DOMAIN os
  <2>1. Len(ds) \in 1 .. Len(ds)
    BY <1>3
  <2>. QED  BY <1>0, <1>1, <1>2, <1>4, <2>1 DEF Lying
<1>6. /\ gone \in Fields /\ gone = [w EXCEPT !.objects = p]
      /\ DOMAIN p = DOMAIN os \ {oid}
      /\ \A o \in DOMAIN p : p[o] = IF o = last THEN [os[last] EXCEPT !.index2 = j] ELSE os[o]
  <2>1. Retold(gone, w, last, j, oid)
    BY <1>0, <1>1, <1>3, <1>5, Untold
  <2>. QED  BY <2>1 DEF Retold
<1>7. /\ gone.batches = bs /\ gone.start = w.start /\ gone.capacity = w.capacity
      /\ gone.dropping = w.dropping /\ gone.timers = w.timers
  BY <1>1, <1>6 DEF Fields
<1>8. ASSUME NEW cs \in Seq(Place), Len(cs) = Len(bs), \A c \in 1 .. Len(bs) : c # B => cs[c] = bs[c],
             \/ Len(ds) = 1 /\ cs[B] = Nil
             \/ Len(ds) # 1 /\ cs[B] # Nil /\ cs[B].drops = Rest(ds, j),
             NEW ts \in Seq(Timer), Timed(cs, ts),
             v = [gone EXCEPT !.batches = cs, !.timers = ts]
      PROVE  Linked(v) /\ v.dropping = w.dropping /\ OthersSame(v.objects, os)
  <2>1. /\ v \in Fields /\ v.batches = cs /\ v.timers = ts /\ v.start = w.start /\ v.capacity = w.capacity
        /\ v.dropping = w.dropping /\ v.objects = p
    BY <1>6, <1>7, <1>8 DEF Fields
  <2>2. Lying(cs, p) /\ OthersSame(p, os)
    <3>1. \/ Len(bs[B].drops) = 1 /\ cs[B] = Nil
          \/ Len(bs[B].drops) # 1 /\ cs[B] # Nil /\ cs[B].drops = Rest(bs[B].drops, j)
      BY <1>0, <1>8
    <3>2. last = bs[B].drops[Len(bs[B].drops)]
      BY <1>0, <1>4
    <3>. HIDE DEF p
    <3>3. Without(cs, p, bs, os, oid, B, j, last)
      BY <1>0, <1>6, <1>8, <3>1, <3>2 DEF Without
    <3>. QED  BY <1>1, <3>3, LyingRest
  <2>3. Agree(p, os, "dropping") /\ Agree(p, os, "monster") /\ Agree(p, os, "reactor")
    BY <2>2 DEF Agree, OthersSame
  <2>4. FallingAt(v.dropping, v.objects) /\ Droppers(v.dropping, v.objects)
    BY <1>1, <2>1, <2>3, FallingAgrees, DroppersAgree
  <2>5. Fitting(v)
    <3>1. /\ Len(bs) <= w.capacity /\ w.start <= Len(bs) /\ \A b \in 1 .. w.start : bs[b] = Nil
      BY <1>1 DEF Fitting
    <3>2. \A b \in 1 .. w.start : b # B /\ b \in 1 .. Len(bs)
      BY <1>1, <1>2, <1>3, <3>1 DEF Living
    <3>3. \A b \in 1 .. w.start : cs[b] = Nil
      BY <1>8, <3>1, <3>2
    <3>. QED  BY <1>8, <2>1, <3>1, <3>3 DEF Fitting
  <2>. QED  BY <1>8, <2>1, <2>2, <2>4, <2>5 DEF Linked
<1>9. CASE Len(ds) # 1
  <2>. DEFINE x == [bs[B] EXCEPT !.drops = Rest(ds, j)]
              cs == [bs EXCEPT ![B] = x]
  <2>1. x \in Batch /\ x.drops = Rest(ds, j) /\ x.timer = bs[B].timer /\ x.exclusive = bs[B].exclusive
    BY <1>3, <1>4, <1>9 DEF Batch
  <2>. HIDE DEF x
  <2>2. cs \in Seq(Place) /\ Len(cs) = Len(bs) /\ \A c \in 1 .. Len(bs) : cs[c] = IF c = B THEN x ELSE bs[c]
    BY <1>1, <1>3, <2>1, PutAt DEF Place
  <2>3. v = [gone EXCEPT !.batches = cs, !.timers = w.timers]
    <3>1. v = [gone EXCEPT !.batches[B].drops = Rest(ds, j)]
      BY <1>4, <1>9, <1>a
    <3>. QED  BY <1>6, <1>7, <3>1 DEF Fields, x
  <2>. HIDE DEF cs
  <2>4. x # Nil
    BY <2>1, BatchTypes
  <2>5. Timed(cs, w.timers)
    <3>1. Living(cs) = Living(bs)
      BY <1>2, <1>3, <2>2, <2>4 DEF Living
    <3>2. \A b \in Living(bs) : cs[b].timer = bs[b].timer /\ cs[b].exclusive = bs[b].exclusive
      BY <2>1, <2>2 DEF Living
    <3>. QED  BY <1>1, <3>1, <3>2, TimedSame
  <2>6. cs[B] # Nil /\ cs[B].drops = Rest(ds, j) /\ \A c \in 1 .. Len(bs) : c # B => cs[c] = bs[c]
    BY <1>3, <2>1, <2>2, <2>4
  <2>. QED  BY <1>1, <1>8, <1>9, <2>2, <2>3, <2>5, <2>6
<1>10. CASE Len(ds) = 1
  <2>. DEFINE cs == [bs EXCEPT ![B] = Nil]
              k == CHOOSE i \in 1 .. Len(w.timers) : w.timers[i].id = bs[B].timer
              ts == RemoveAt(w.timers, k)
  <2>1. k \in 1 .. Len(w.timers) /\ w.timers[k].id = bs[B].timer
    <3>1. \E i \in 1 .. Len(w.timers) : w.timers[i].id = bs[B].timer
      <4>1. PICK i \in 1 .. Len(w.timers) : w.timers[i] = TimerOf(bs[B])
        BY <1>1, <1>2 DEF Timed
      <4>. QED  BY <4>1 DEF TimerOf
    <3>. QED  BY <3>1
  <2>2. v = [gone EXCEPT !.batches = cs, !.timers = ts]
    <3>1. v = [Stop(gone, bs[B].timer) EXCEPT !.batches[B] = Nil]
      BY <1>4, <1>10, <1>a
    <3>2. Stop(gone, bs[B].timer) = [gone EXCEPT !.timers = ts]
      BY <1>6, <1>7 DEF Stop, Fields
    <3>. HIDE DEF ts
    <3>. QED  BY <1>6, <1>7, <3>1, <3>2 DEF Fields
  <2>. HIDE DEF k
  <2>3. ts \in Seq(Timer) /\ Len(ts) = Len(w.timers) - 1
        /\ \A i \in 1 .. Len(w.timers) - 1 : ts[i] = IF i < k THEN w.timers[i] ELSE w.timers[i + 1]
    BY <1>1, <2>1, RemoveAtIs
  <2>4. cs \in Seq(Place) /\ Len(cs) = Len(bs) /\ \A c \in 1 .. Len(bs) : cs[c] = IF c = B THEN Nil ELSE bs[c]
    BY <1>1, <1>3, PutAt DEF Place
  <2>. HIDE DEF cs, ts
  <2>5. Living(cs) = Living(bs) \ {B} /\ \A c \in Living(cs) : cs[c] = bs[c]
    BY <2>4 DEF Living
  <2>6. IsOf(w.timers[k], bs[B])
    BY <2>1 DEF IsOf
  <2>7. Timed(cs, ts)
    BY <1>1, <1>2, <2>1, <2>3, <2>5, <2>6, TimedRemoved
  <2>8. cs[B] = Nil /\ \A c \in 1 .. Len(bs) : c # B => cs[c] = bs[c]
    BY <1>3, <2>4
  <2>. QED  BY <1>8, <1>10, <2>2, <2>3, <2>4, <2>7, <2>8
<1>. QED  BY <1>9, <1>10

-----------------------------------------------------------------------------
(* dropBatchStart passes the empty places.                                 *)

(* Batches moved to the front by s places.                                 *)
LEMMA TimedShifted ==
  ASSUME NEW bs \in Seq(Place), NEW cs \in Seq(Place), NEW ts, Timed(bs, ts), NEW s \in Nat,
         \A b \in Living(cs) : b + s \in Living(bs) /\ cs[b] = bs[b + s],
         \A b \in Living(bs) : b - s \in Living(cs) /\ cs[b - s] = bs[b]
  PROVE  Timed(cs, ts)
<1>0. /\ \A b \in Living(bs) : b \in Nat
      /\ \A b \in Living(cs) : b \in Nat
  BY LivingTypes
<1>1. ASSUME NEW b \in Living(cs) PROVE \E i \in 1 .. Len(ts) : ts[i] = TimerOf(cs[b])
  BY DEF Timed
<1>2. ASSUME NEW i \in 1 .. Len(ts) PROVE \E b \in Living(cs) : IsOf(ts[i], cs[b])
  <2>1. PICK b \in Living(bs) : IsOf(ts[i], bs[b])
    BY DEF Timed
  <2>2. b - s \in Living(cs) /\ cs[b - s] = bs[b]
    OBVIOUS
  <2>. QED  BY <2>1, <2>2
<1>3. ASSUME NEW i \in 1 .. Len(ts), NEW j \in 1 .. Len(ts), NEW b \in Living(cs), NEW c \in Living(cs),
             IsOf(ts[i], cs[b]), IsOf(ts[j], cs[c])
      PROVE  i < j <=> b < c
  <2>1. i < j <=> b + s < c + s
    BY <1>3 DEF Timed
  <2>. QED  BY <1>0, <2>1
<1>. QED  BY <1>1, <1>2, <1>3 DEF Timed

(* What the loop keeps of w.                                               *)
Sweeping(v, w) ==
  Linked(v) /\ v.dropping = w.dropping /\ OthersSame(v.objects, w.objects)

LEMMA SweepingOn ==
  ASSUME NEW u, NEW v, NEW w, Sweeping(v, w), Sweeping(u, v)
  PROVE  Sweeping(u, w)
BY DEF Sweeping, OthersSame

LEMMA Shifted ==
  ASSUME NEW w, Linked(w), NEW s \in 1 .. Len(w.batches), \A b \in 1 .. s : w.batches[b] = Nil,
         Len(w.batches) - s < w.capacity \div 4
  PROVE  LET v == Shift(w, s)
         IN  Sweeping(v, w) /\ v.start = 0 /\ Len(v.batches) = Len(w.batches) - s
<1>. DEFINE os == w.objects
            bs == w.batches
            L == Len(bs)
            cs == SubSeq(bs, s + 1, L)
            p == [o \in DOMAIN os |-> IF os[o].type = "drop" THEN [os[o] EXCEPT !.index = os[o].index - s] ELSE os[o]]
            cap == w.capacity \div 2
            v == Shift(w, s)
<1>1. /\ w \in Fields /\ os \in Objects /\ bs \in Seq(Place) /\ w.capacity \in Nat \ {0}
      /\ Lying(bs, os) /\ FallingAt(w.dropping, os) /\ Droppers(w.dropping, os)
      /\ Timed(bs, w.timers) /\ Fitting(w) /\ L \in Nat /\ s \in Nat /\ s <= L /\ 1 <= s
  BY SeqTypes DEF Linked, Fields
<1>2. v = [w EXCEPT !.batches = cs, !.start = 0, !.capacity = cap, !.objects = p]
  BY <1>1 DEF Shift, Fields
<1>. HIDE DEF v
<1>3. cs \in Seq(Place) /\ Len(cs) = L - s /\ \A j \in 1 .. L - s : cs[j] = bs[s + j]
  <2>1. s + 1 \in Nat /\ s + 1 <= L + 1 /\ 1 <= s + 1 /\ L <= L
    BY <1>1
  <2>2. cs \in Seq(Place) /\ Len(cs) = L - (s + 1) + 1 /\ \A j \in 1 .. (L - (s + 1) + 1) : cs[j] = bs[(s + 1) + j - 1]
    BY <1>1, <2>1, CutOut
  <2>3. L - (s + 1) + 1 = L - s /\ \A j \in 1 .. L - s : (s + 1) + j - 1 = s + j
    BY <1>1
  <2>. QED  BY <2>2, <2>3
<1>. HIDE DEF cs
<1>4. \A b \in Living(bs) : b \in (s + 1) .. L
  BY <1>1 DEF Living
<1>5. /\ \A b \in Living(cs) : b + s \in Living(bs) /\ cs[b] = bs[b + s]
      /\ \A b \in Living(bs) : b - s \in Living(cs) /\ cs[b - s] = bs[b]
  <2>1. ASSUME NEW b \in Living(cs) PROVE b + s \in Living(bs) /\ cs[b] = bs[b + s]
    <3>1. b \in 1 .. L - s /\ cs[b] # Nil /\ b + s = s + b /\ b + s \in 1 .. L
      BY <1>1, <1>3 DEF Living
    <3>. QED  BY <1>3, <3>1 DEF Living
  <2>2. ASSUME NEW b \in Living(bs) PROVE b - s \in Living(cs) /\ cs[b - s] = bs[b]
    <3>1. b - s \in 1 .. L - s /\ s + (b - s) = b /\ bs[b] # Nil
      BY <1>1, <1>4 DEF Living
    <3>. QED  BY <1>3, <3>1 DEF Living
  <2>. QED  BY <2>1, <2>2
<1>6. Timed(cs, w.timers)
  BY <1>1, <1>3, <1>5, TimedShifted
<1>7. /\ DOMAIN p = DOMAIN os
      /\ \A o \in DOMAIN os : os[o].type # "drop" => p[o] = os[o]
      /\ \A o \in DOMAIN os : os[o].type = "drop" => p[o] = [os[o] EXCEPT !.index = os[o].index - s]
  OBVIOUS
<1>8. p = [o \in DOMAIN p |-> p[o]]
  OBVIOUS
<1>. HIDE DEF p
<1>9. \A o \in DOMAIN os : os[o] \in Object /\ os[o] = [type |-> os[o].type, index |-> os[o].index, index2 |-> os[o].index2]
  <2>1. \A o \in DOMAIN os : os[o] \in Object
    BY <1>1, ObjectsIs
  <2>. QED  BY <2>1 DEF Object
<1>10. \A o \in DOMAIN os : os[o].type = "drop" =>
         /\ os[o].index \in Living(bs) /\ os[o].index \in (s + 1) .. L
         /\ p[o] = Lies(os[o].index - s, os[o].index2)
  <2>. SUFFICES ASSUME NEW o \in DOMAIN os, os[o].type = "drop"
                PROVE  /\ os[o].index \in Living(bs) /\ os[o].index \in (s + 1) .. L
                       /\ p[o] = Lies(os[o].index - s, os[o].index2)
    OBVIOUS
  <2>1. os[o].index \in Living(bs)
    BY <1>1 DEF Lying
  <2>2. p[o] = [type |-> "drop", index |-> os[o].index - s, index2 |-> os[o].index2]
    <3>1. p[o] = [os[o] EXCEPT !.index = os[o].index - s]
      BY <1>7
    <3>2. os[o] \in Object
      BY <1>9
    <3>3. \A i : \A x \in Object : [x EXCEPT !.index = i] = [type |-> x.type, index |-> i, index2 |-> x.index2]
      BY DEF Object
    <3>. QED  BY <3>1, <3>2, <3>3
  <2>. QED  BY <1>4, <2>1, <2>2 DEF Lies
<1>11. p \in Objects
  <2>1. \A o \in DOMAIN p : p[o] \in Object
    <3>. SUFFICES ASSUME NEW o \in DOMAIN os PROVE p[o] \in Object
      BY <1>7
    <3>1. CASE os[o].type = "drop"
      <4>1. os[o].index - s \in Nat
        <5>1. os[o].index \in (s + 1) .. L
          BY <1>10, <3>1
        <5>. HIDE DEF L
        <5>. QED  BY <1>1, <5>1
      <4>2. os[o].index2 \in Nat
        BY <1>9 DEF Object
      <4>3. Lies(os[o].index - s, os[o].index2) \in Object
        BY <4>1, <4>2 DEF Lies, Object
      <4>. QED  BY <1>10, <3>1, <4>3
    <3>2. CASE os[o].type # "drop"
      BY <1>7, <1>9, <3>2
    <3>. QED  BY <3>1, <3>2
  <2>2. DOMAIN os \in SUBSET Nat /\ IsFiniteSet(DOMAIN os)
    BY <1>1, ObjectsIs
  <2>. QED  BY <1>7, <1>8, <2>1, <2>2, ObjectsIs
<1>12. Lying(cs, p)
  <2>1. ASSUME NEW b \in Living(cs), NEW j \in 1 .. Len(cs[b].drops)
        PROVE  cs[b].drops[j] \in DOMAIN p /\ p[cs[b].drops[j]] = Lies(b, j)
    <3>1. b + s \in Living(bs) /\ cs[b] = bs[b + s]
      BY <1>5
    <3>2. bs[b + s].drops[j] \in DOMAIN os /\ os[bs[b + s].drops[j]] = Lies(b + s, j)
      BY <1>1, <3>1 DEF Lying
    <3>3. p[bs[b + s].drops[j]] = Lies((b + s) - s, j)
      BY SMTT(30), <1>10, <3>2, PlacesApart
    <3>4. (b + s) - s = b
      <4>1. b \in Nat
        BY <1>3, LivingTypes
      <4>. QED  BY <1>1, <4>1
    <3>. QED  BY <1>7, <3>1, <3>2, <3>3, <3>4
  <2>2. ASSUME NEW o \in DOMAIN p, p[o].type = "drop"
        PROVE  /\ p[o].index \in Living(cs) /\ p[o].index2 \in 1 .. Len(cs[p[o].index].drops)
               /\ cs[p[o].index].drops[p[o].index2] = o
    <3>1. o \in DOMAIN os /\ os[o].type = "drop"
      BY <1>7, <2>2
    <3>2. p[o].index = os[o].index - s /\ p[o].index2 = os[o].index2 /\ os[o].index \in Living(bs)
      BY <1>10, <3>1, PlacesApart
    <3>3. os[o].index - s \in Living(cs) /\ cs[os[o].index - s] = bs[os[o].index]
      BY <1>5, <3>2
    <3>4. os[o].index2 \in 1 .. Len(bs[os[o].index].drops) /\ bs[os[o].index].drops[os[o].index2] = o
      BY <1>1, <3>1 DEF Lying
    <3>. QED  BY <3>2, <3>3, <3>4
  <2>. QED  BY <2>1, <2>2 DEF Lying
<1>13. OthersSame(p, os)
  <2>1. \A o \in DOMAIN os : os[o].type = "drop" => p[o].type = "drop"
    BY <1>10, PlacesApart
  <2>. QED  BY <1>7, <2>1 DEF OthersSame
<1>14. Agree(p, os, "dropping") /\ Agree(p, os, "monster") /\ Agree(p, os, "reactor")
  BY <1>13 DEF Agree, OthersSame
<1>15. cap \in Nat \ {0} /\ L - s <= cap
  <2>1. w.capacity \div 4 <= w.capacity \div 2 /\ w.capacity \div 4 \in Nat /\ w.capacity \div 2 \in Nat
    BY <1>1
  <2>2. L - s \in Nat /\ L - s < w.capacity \div 4
    BY <1>1
  <2>. HIDE DEF bs, L
  <2>3. w.capacity \div 2 > 0
    BY <2>1, <2>2
  <2>. QED  BY <2>1, <2>2, <2>3
<1>. HIDE DEF cap
<1>16. /\ v \in Fields /\ v.batches = cs /\ v.start = 0 /\ v.capacity = cap /\ v.objects = p
       /\ v.dropping = w.dropping /\ v.timers = w.timers
  BY <1>1, <1>2, <1>3, <1>11, <1>15 DEF Fields
<1>17. FallingAt(v.dropping, v.objects) /\ Droppers(v.dropping, v.objects)
  BY <1>1, <1>14, <1>16, FallingAgrees, DroppersAgree
<1>18. Fitting(v)
  BY <1>1, <1>3, <1>15, <1>16 DEF Fitting
<1>19. Linked(v)
  BY <1>6, <1>12, <1>16, <1>17, <1>18 DEF Linked
<1>20. Sweeping(v, w) /\ v.start = 0 /\ Len(v.batches) = Len(w.batches) - s
  BY <1>3, <1>13, <1>16, <1>19 DEF Sweeping
<1>. QED  BY <1>20 DEF v

(* A turn of the loop: it ends at a batch or gets on.                      *)
Remaining(w) == Len(w.batches) - w.start

LEMMA SweepStepIs ==
  ASSUME NEW w, Linked(w)
  PROVE  LET v == SweepStep(w)
         IN  /\ Sweeping(v, w) /\ Len(v.batches) <= Len(w.batches)
             /\ AtBatch(w) => AtBatch(v)
             /\ ~AtBatch(w) => Remaining(v) = Remaining(w) - 1
<1>. DEFINE v == SweepStep(w)
            bs == w.batches
            L == Len(bs)
            s == w.start + 1
<1>1. /\ w \in Fields /\ w.start \in Nat /\ L \in Nat /\ w.start <= L /\ Fitting(w) /\ bs \in Seq(Place)
      /\ \A b \in 1 .. w.start : bs[b] = Nil
  BY SeqTypes DEF Linked, Fields, Fitting
<1>2. CASE s > L \/ bs[s] # Nil
  <2>1. v = w
    BY <1>2 DEF SweepStep
  <2>2. AtBatch(w)
    BY <1>1, <1>2 DEF AtBatch
  <2>3. Sweeping(w, w)
    BY DEF Sweeping, OthersSame
  <2>. QED  BY <1>1, <2>1, <2>2, <2>3
<1>3. CASE ~(s > L \/ bs[s] # Nil)
  <2>1. s \in 1 .. L /\ bs[s] = Nil
    BY <1>1, <1>3
  <2>2. \A b \in 1 .. s : bs[b] = Nil
    <3>1. \A b \in 1 .. s : b = s \/ b \in 1 .. w.start
      BY <1>1
    <3>. QED  BY <1>1, <2>1, <3>1
  <2>3. ~AtBatch(w)
    BY <1>1, <2>1 DEF AtBatch
  <2>4. CASE L - s < w.capacity \div 4
    <3>1. v = Shift(w, s)
      BY <1>3, <2>4 DEF SweepStep
    <3>2. Sweeping(v, w) /\ v.start = 0 /\ Len(v.batches) = L - s
      BY <2>1, <2>2, <2>4, <3>1, Shifted
    <3>3. Remaining(v) = Remaining(w) - 1 /\ Len(v.batches) <= L
      BY <1>1, <3>2 DEF Remaining
    <3>. QED  BY <2>3, <3>2, <3>3
  <2>5. CASE ~(L - s < w.capacity \div 4)
    <3>1. v = [w EXCEPT !.start = s]
      BY <1>3, <2>5 DEF SweepStep
    <3>0. s \in Nat
      BY <1>1
    <3>. HIDE DEF v, s
    <3>2. v \in Fields /\ v.batches = bs /\ v.start = s /\ v.capacity = w.capacity
          /\ v.dropping = w.dropping /\ v.timers = w.timers /\ v.objects = w.objects
      BY <1>1, <3>0, <3>1 DEF Fields
    <3>3. Fitting(v)
      BY <1>1, <2>1, <2>2, <3>2 DEF Fitting
    <3>4. Linked(v)
      BY <3>2, <3>3 DEF Linked
    <3>5. Sweeping(v, w)
      BY <3>2, <3>4 DEF Sweeping, OthersSame
    <3>6. Remaining(v) = Remaining(w) - 1 /\ Len(v.batches) <= L
      BY <1>1, <3>2 DEF Remaining, s
    <3>. QED  BY <2>3, <3>5, <3>6 DEF v
  <2>. QED  BY <2>4, <2>5
<1>. QED  BY <1>2, <1>3

LEMMA Swept ==
  ASSUME NEW w, Linked(w)
  PROVE  Sweeping(Sweep(w), w) /\ AtBatch(Sweep(w))
<1>. DEFINE N == Len(w.batches)
            W == {v \in Fields : Sweeping(v, w) /\ Len(v.batches) <= N}
            t == [x \in W \X (1 .. N) |-> SweepStep(x[1])]
            Run(f) == f = [n \in 0 .. N |-> IF n = 0 THEN w ELSE SweepStep(f[n - 1])]
            run == CHOOSE f : Run(f)
<1>1. N \in Nat /\ w \in W
  BY SeqTypes DEF Linked, Fields, Sweeping, OthersSame
<1>2. Sweep(w) = run[N]
  BY Zenon DEF Sweep
<1>3. ASSUME NEW v \in W
      PROVE  /\ SweepStep(v) \in W
             /\ AtBatch(v) => AtBatch(SweepStep(v))
             /\ ~AtBatch(v) => Remaining(SweepStep(v)) = Remaining(v) - 1
  <2>1. Linked(v) /\ v \in Fields /\ Len(v.batches) \in Nat
    BY SeqTypes DEF Sweeping, Fields
  <2>2. /\ Sweeping(SweepStep(v), v) /\ Len(SweepStep(v).batches) <= Len(v.batches)
        /\ AtBatch(v) => AtBatch(SweepStep(v))
        /\ ~AtBatch(v) => Remaining(SweepStep(v)) = Remaining(v) - 1
    BY <2>1, SweepStepIs
  <2>3. Sweeping(SweepStep(v), w)
    BY <2>2, SweepingOn
  <2>4. SweepStep(v) \in Fields /\ Len(SweepStep(v).batches) \in Nat
    <3>1. SweepStep(v) \in Fields
      BY <2>2 DEF Sweeping, Linked
    <3>. QED  BY <3>1, SeqTypes DEF Fields
  <2>5. SweepStep(v) \in W
    BY <1>1, <2>1, <2>2, <2>3, <2>4
  <2>. QED  BY <2>2, <2>5
<1>4. \A v \in W : v \in Fields /\ Sweeping(v, w) /\ Len(v.batches) \in Nat /\ v.start \in Nat /\ Len(v.batches) <= N
                   /\ v.start <= Len(v.batches)
  BY SeqTypes DEF Fields, Sweeping, Linked, Fitting
<1>. HIDE DEF N, W
<1>5. IsLoop(t, W, N)
  BY <1>3 DEF IsLoop
<1>6. PICK f : IsRun(f, t, W, N, w)
  BY <1>1, <1>5, LoopRuns
<1>7. f \in [0 .. N -> W] /\ f[0] = w /\ \A n \in 1 .. N : f[n] = SweepStep(f[n - 1])
  <2>1. f \in [0 .. N -> W] /\ f[0] = w /\ \A n \in 1 .. N : f[n] = t[<<f[n - 1], n>>]
    BY <1>6 DEF IsRun
  <2>2. \A n \in 1 .. N : n - 1 \in 0 .. N
    BY <1>1
  <2>3. \A n \in 1 .. N : f[n - 1] \in W
    BY <2>1, <2>2
  <2>4. \A n \in 1 .. N : t[<<f[n - 1], n>>] = SweepStep(f[n - 1])
    BY <2>3
  <2>. QED  BY <2>1, <2>4
<1>. HIDE DEF t
<1>8. Run(f)
  <2>1. \A n \in 0 .. N : f[n] = IF n = 0 THEN w ELSE SweepStep(f[n - 1])
    <3>1. \A n \in 0 .. N : n = 0 \/ n \in 1 .. N
      BY <1>1
    <3>. QED  BY <1>7, <3>1
  <2>2. f = [n \in 0 .. N |-> f[n]]
    BY <1>7
  <2>. QED  BY <2>1, <2>2
<1>9. Run(run)
  <2>. HIDE DEF Run
  <2>. QED  BY <1>8
<1>. HIDE DEF run
<1>10. run[0] = w /\ \A n \in 1 .. N : run[n] = SweepStep(run[n - 1])
  <2>1. \A n \in 1 .. N : n \in 0 .. N /\ n # 0
    BY <1>1
  <2>2. 0 \in 0 .. N
    BY <1>1
  <2>3. \A n \in 0 .. N : run[n] = IF n = 0 THEN w ELSE SweepStep(run[n - 1])
    BY <1>9, Zenon
  <2>. QED  BY <2>1, <2>2, <2>3
<1>. HIDE DEF Run
<1>. DEFINE T == {n \in 0 .. N : run[n] \in W /\ (AtBatch(run[n]) \/ Remaining(run[n]) <= N - n)}
<1>11. 0 \in T
  <2>1. Remaining(w) <= N
    <3>1. Len(w.batches) = N
      BY DEF N
    <3>. QED  BY <1>1, <1>4, <3>1 DEF Remaining
  <2>. QED  BY <1>1, <1>10, <2>1
<1>12. ASSUME NEW n \in 1 .. N, n - 1 \in T PROVE n \in T
  <2>1. run[n - 1] \in W /\ run[n] = SweepStep(run[n - 1]) /\ n \in 0 .. N
    BY <1>1, <1>10, <1>12
  <2>2. run[n] \in W
    BY <1>3, <2>1
  <2>3. CASE AtBatch(run[n - 1])
    BY <1>3, <2>1, <2>2, <2>3
  <2>4. CASE ~AtBatch(run[n - 1])
    <3>1. Remaining(run[n - 1]) <= N - (n - 1) /\ Remaining(run[n]) = Remaining(run[n - 1]) - 1
      BY <1>3, <1>12, <2>1, <2>4
    <3>2. Remaining(run[n - 1]) \in Int
      BY <1>4, <2>1 DEF Remaining
    <3>3. Remaining(run[n]) <= N - n
      BY <1>1, <3>1, <3>2
    <3>. QED  BY <2>1, <2>2, <3>3
  <2>. QED  BY <2>3, <2>4
<1>13. N \in T
  <2>1. \A n \in 0 .. N : n \in T
    <3>. HIDE DEF T
    <3>. QED  BY <1>1, <1>11, <1>12, TurnByTurn
  <2>. QED  BY <1>1, <2>1
<1>14. run[N] \in W /\ AtBatch(run[N])
  <2>1. run[N] \in W /\ (AtBatch(run[N]) \/ Remaining(run[N]) <= 0)
    BY <1>1, <1>13
  <2>2. Remaining(run[N]) <= 0 => AtBatch(run[N])
    BY <1>4, <2>1 DEF Remaining, AtBatch
  <2>. QED  BY <2>1, <2>2
<1>. QED  BY <1>2, <1>4, <1>14

(* map_remove_drop                                                         *)
LEMMA LyingSwept ==
  ASSUME NEW w, Good(w), NEW oid \in DOMAIN w.objects, w.objects[oid].type = "drop"
  PROVE  Good(RemoveLying(w, oid)) /\ Sweeping(RemoveLying(w, oid), w)
<1>. DEFINE u == Unswept(w, oid)
<1>1. RemoveLying(w, oid) = Sweep(u)
  BY DEF RemoveLying, Unswept, Rest
<1>2. Sweeping(u, w)
  BY LyingRemoved DEF Good, Sweeping
<1>. HIDE DEF u
<1>3. Sweeping(Sweep(u), u) /\ AtBatch(Sweep(u))
  BY <1>2, Swept DEF Sweeping
<1>4. Sweeping(Sweep(u), w)
  BY <1>2, <1>3, SweepingOn
<1>. QED  BY <1>1, <1>3, <1>4 DEF Good, Sweeping

LEMMA DropRemoved ==
  ASSUME NEW w, Good(w), NEW oid \in DOMAIN w.objects, w.objects[oid].type \in {"drop", "dropping"}
  PROVE  Good(RemoveDrop(w, oid))
BY LyingSwept, FallingRemoved DEF RemoveDrop

-----------------------------------------------------------------------------
(* One more drop of a batch falls.                                         *)

(* A drop of the batch b has come, no other batch has fallen.              *)
OneMore(v, w, b) ==
  LET batch == v.dropping[b]
  IN  /\ Linked(v) /\ AtBatch(v)
      /\ Len(v.dropping) = Len(w.dropping)
      /\ \A c \in 1 .. Len(w.dropping) : c # b => v.dropping[c].current < Len(v.dropping[c].drops)
      /\ Len(batch.drops) = Len(w.dropping[b].drops)
      /\ batch.current = w.dropping[b].current + 1
      /\ batch.dropper = w.dropping[b].dropper
      /\ NewOid(w) = batch.drops[batch.current]
      /\ NewOid(w) \in DOMAIN v.objects /\ v.objects[NewOid(w)].type = "dropping"

LEMMA OneFallen ==
  ASSUME NEW w, Good(w), NEW b \in 1 .. Len(w.dropping)
  PROVE  OneMore(Fallen(w, b), w, b)
<1>. DEFINE os == w.objects
            fs == w.dropping
            ds == fs[b].drops
            cur == fs[b].current
            n == NewOid(w)
            es == [ds EXCEPT ![cur + 1] = n]
            pile == [fs[b] EXCEPT !.drops = es, !.current = cur + 1]
            gs == [fs EXCEPT ![b] = pile]
            u == [w EXCEPT !.dropping = gs]
            y == Falls(b, cur + 1)
            v == Fallen(w, b)
<1>1. /\ w \in Fields /\ os \in Objects /\ fs \in Seq(Pile) /\ FallingAt(fs, os)
      /\ Linked(w) /\ Droppers(fs, os) /\ Waiting(fs) /\ AtBatch(w)
  BY DEF Good, Linked, Fields
<1>2. n \in Nat /\ n \notin DOMAIN os
  BY <1>1, NewOidIsNew
<1>a. v = Allocate([w EXCEPT !.dropping[b].drops[cur + 1] = n, !.dropping[b].current = cur + 1], y)
  BY DEF Fallen, Falls
<1>0. ds = fs[b].drops /\ cur = fs[b].current /\ n = NewOid(w) /\ y = Falls(b, cur + 1)
  OBVIOUS
<1>. HIDE DEF n, v, ds, cur, y
<1>3. /\ fs[b] \in Pile /\ ds \in Seq(Nat \cup {NoOid}) /\ Len(ds) \in Nat /\ cur \in Nat /\ cur < Len(ds)
      /\ Len(fs) \in Nat /\ b \in Nat /\ cur + 1 \in 1 .. Len(ds)
  <2>1. /\ fs[b] \in Pile /\ ds \in Seq(Nat \cup {NoOid}) /\ Len(ds) \in Nat /\ cur \in Nat /\ Len(fs) \in Nat
    BY <1>0, <1>1, PileTypes
  <2>2. cur < Len(ds)
    BY <1>0, <1>1 DEF Waiting
  <2>. QED  BY <2>1, <2>2
<1>4. v = Allocate(u, y)
  <2>1. [w EXCEPT !.dropping[b].drops[cur + 1] = n, !.dropping[b].current = cur + 1] = u
    <3>1. w.dropping[b].drops = ds
      BY <1>0
    <3>. QED  BY <1>1, <1>3, <3>1 DEF Fields, Pile
  <2>. QED  BY <1>a, <2>1
<1>5. /\ es \in Seq(Nat \cup {NoOid}) /\ Len(es) = Len(ds)
      /\ \A i \in 1 .. Len(ds) : es[i] = IF i = cur + 1 THEN n ELSE ds[i]
  BY <1>2, <1>3, PutAt
<1>. HIDE DEF es
<1>6. /\ pile \in Pile /\ pile.drops = es /\ pile.current = cur + 1 /\ pile.dropper = fs[b].dropper
  <2>1. cur + 1 \in Nat
    BY <1>3
  <2>. QED  BY <1>3, <1>5, <2>1 DEF Pile
<1>. HIDE DEF pile
<1>7. gs \in Seq(Pile) /\ Len(gs) = Len(fs) /\ \A c \in 1 .. Len(fs) : gs[c] = IF c = b THEN pile ELSE fs[c]
  BY <1>1, <1>6, PutAt
<1>. HIDE DEF gs
<1>8. u \in Fields /\ u.objects = os /\ u.dropping = gs /\ SameLying(u, w)
  BY <1>1, <1>7 DEF Fields, SameLying
<1>9. NewOid(u) = n
  BY <1>0, <1>8 DEF NewOid
<1>. HIDE DEF u
<1>10. y \in Object /\ y.type = "dropping"
  <2>1. cur + 1 \in Nat
    BY <1>3
  <2>. QED  BY <1>0, <1>3, <2>1 DEF Object, Falls
<1>11. /\ v \in Fields
       /\ v = [u EXCEPT !.objects = v.objects]
       /\ DOMAIN v.objects = DOMAIN os \cup {n}
       /\ v.objects[n] = y
       /\ \A o \in DOMAIN os : v.objects[o] = os[o]
  BY <1>4, <1>8, <1>9, <1>10, AllocateIs
<1>12. SameLying(v, w) /\ v.dropping = gs
  BY <1>8, <1>11 DEF SameLying, Fields
<1>13. FallingAt(gs, v.objects)
  <2>1. ASSUME NEW c \in 1 .. Len(gs), c # b PROVE Falls1(gs, v.objects, c)
    <3>1. gs[c] = fs[c] /\ Falls1(fs, os, c)
      BY <1>1, <1>7, <2>1 DEF FallingAt
    <3>. QED  BY <1>11, <3>1 DEF Falls1
  <2>2. Falls1(gs, v.objects, b)
    <3>0. Falls1(fs, os, b)
      BY <1>1 DEF FallingAt
    <3>1. gs[b].drops = es /\ gs[b].current = cur + 1
      BY <1>6, <1>7
    <3>2. ASSUME NEW i \in 1 .. cur + 1 PROVE es[i] \in DOMAIN v.objects /\ v.objects[es[i]] = Falls(b, i)
      <4>1. CASE i = cur + 1
        BY <1>0, <1>3, <1>5, <1>11, <4>1
      <4>2. CASE i # cur + 1
        <5>1. i \in 1 .. cur /\ i \in 1 .. Len(ds)
          BY <1>3, <4>2
        <5>2. es[i] = ds[i] /\ ds[i] \in DOMAIN os /\ os[ds[i]] = Falls(b, i)
          BY <1>0, <1>5, <3>0, <4>2, <5>1 DEF Falls1
        <5>. QED  BY <1>11, <5>2
      <4>. QED  BY <4>1, <4>2
    <3>3. ASSUME NEW i \in (cur + 1) + 1 .. Len(es) PROVE es[i] = NoOid
      <4>1. i \in (cur + 1) .. Len(ds) /\ i # cur + 1 /\ i \in 1 .. Len(ds)
        BY <1>3, <1>5
      <4>. QED  BY <1>0, <1>5, <3>0, <4>1 DEF Falls1
    <3>4. cur + 1 <= Len(es)
      BY <1>3, <1>5
    <3>. QED  BY <3>1, <3>2, <3>3, <3>4 DEF Falls1
  <2>3. ASSUME NEW o \in DOMAIN v.objects, v.objects[o].type = "dropping"
        PROVE  /\ v.objects[o].index \in 1 .. Len(gs)
               /\ v.objects[o].index2 \in 1 .. gs[v.objects[o].index].current
               /\ gs[v.objects[o].index].drops[v.objects[o].index2] = o
    <3>1. CASE o = n
      <4>1. v.objects[o].index = b /\ v.objects[o].index2 = cur + 1
        BY <1>0, <1>11, <3>1, PlacesApart
      <4>2. gs[b].current = cur + 1 /\ gs[b].drops = es /\ es[cur + 1] = n
        BY <1>3, <1>5, <1>6, <1>7
      <4>3. cur + 1 \in 1 .. cur + 1
        BY <1>3
      <4>. QED  BY <1>7, <3>1, <4>1, <4>2, <4>3
    <3>2. CASE o # n
      <4>. DEFINE c == os[o].index
                  i == os[o].index2
      <4>1. o \in DOMAIN os /\ v.objects[o] = os[o]
        BY <1>11, <3>2
      <4>2. c \in 1 .. Len(fs) /\ i \in 1 .. fs[c].current /\ fs[c].drops[i] = o
        BY <1>1, <2>3, <4>1 DEF FallingAt
      <4>3. CASE c # b
        BY <1>7, <4>1, <4>2, <4>3
      <4>4. CASE c = b
        <5>1. i \in 1 .. cur /\ ds[i] = o
          BY <1>0, <4>2, <4>4
        <5>. HIDE DEF i
        <5>2. i \in 1 .. cur + 1 /\ i # cur + 1 /\ i \in 1 .. Len(ds)
          BY <1>3, <5>1
        <5>3. gs[b].drops = es /\ gs[b].current = cur + 1 /\ es[i] = o
          BY <1>5, <1>6, <1>7, <5>1, <5>2
        <5>. QED  BY <1>7, <4>1, <4>2, <4>4, <5>2, <5>3 DEF i
      <4>. QED  BY <4>3, <4>4
    <3>. QED  BY <3>1, <3>2
  <2>. QED  BY <2>1, <2>2, <2>3 DEF FallingAt
<1>14. \A c \in 1 .. Len(gs) : gs[c].dropper = fs[c].dropper
  BY <1>6, <1>7
<1>15. Droppers(gs, v.objects)
  BY SMTT(30), <1>1, <1>7, <1>11, <1>14 DEF Droppers
<1>16. Agree(v.objects, os, "drop")
  BY <1>2, <1>10, <1>11 DEF Agree
<1>17. Linked(v) /\ AtBatch(v)
  BY <1>1, <1>11, <1>12, <1>13, <1>15, <1>16, LinkedAgain
<1>18. \A c \in 1 .. Len(fs) : c # b => gs[c].current < Len(gs[c].drops)
  BY <1>1, <1>7 DEF Waiting
<1>19. /\ gs[b].drops = es /\ gs[b].current = cur + 1 /\ gs[b].dropper = fs[b].dropper
       /\ Len(es) = Len(ds) /\ es[cur + 1] = n
  BY <1>3, <1>5, <1>6, <1>7
<1>20. OneMore(v, w, b)
  BY <1>0, <1>7, <1>10, <1>11, <1>12, <1>17, <1>18, <1>19 DEF OneMore
<1>. QED  BY <1>20 DEF v

-----------------------------------------------------------------------------
(* A batch that has fallen moves to dropBatches.                           *)

(* What the objects are told: the drops of the batch b lie in batch L, and *)
(* those of the last batch that falls are in b.                            *)
Told(p, os, fs, b, L) ==
  /\ DOMAIN p = DOMAIN os
  /\ \A o \in DOMAIN os :
       LET q == IF \E i \in 1 .. fs[Len(fs)].current : fs[Len(fs)].drops[i] = o
                THEN [os[o] EXCEPT !.index = b] ELSE os[o]
       IN  p[o] = IF o \in Range(fs[b].drops) THEN [q EXCEPT !.type = "drop", !.index = L] ELSE q

Moved(p, os, fs, b, L) ==
  /\ DOMAIN p = DOMAIN os
  /\ \A o \in DOMAIN os : os[o].type # "dropping" => p[o] = os[o]
  /\ \A c \in 1 .. Len(fs) : \A j \in 1 .. fs[c].current :
       /\ fs[c].drops[j] \in DOMAIN os
       /\ p[fs[c].drops[j]] = IF c = b THEN Lies(L, j) ELSE IF c = Len(fs) THEN Falls(b, j) ELSE Falls(c, j)

LEMMA ToldMoved ==
  ASSUME NEW fs \in Seq(Pile), NEW os, FallingAt(fs, os), NEW b \in 1 .. Len(fs),
         fs[b].current = Len(fs[b].drops), NEW L, NEW p, Told(p, os, fs, b, L)
  PROVE  Moved(p, os, fs, b, L)
<1>. DEFINE N == Len(fs)
            InLast(o) == \E i \in 1 .. fs[N].current : fs[N].drops[i] = o
            q(o) == IF InLast(o) THEN [os[o] EXCEPT !.index = b] ELSE os[o]
<1>1. N \in Nat /\ b \in 1 .. N /\ N \in 1 .. N
  BY PileTypes
<1>2. \A c \in 1 .. N : \A j \in 1 .. fs[c].current : fs[c].drops[j] \in DOMAIN os /\ os[fs[c].drops[j]] = Falls(c, j)
  BY DEF FallingAt, Falls1
<1>3. \A o : o \in Range(fs[b].drops) <=> \E j \in 1 .. fs[b].current : fs[b].drops[j] = o
  <2>1. DOMAIN fs[b].drops = 1 .. fs[b].current
    <3>1. fs[b].drops \in Seq(Nat \cup {NoOid})
      BY PileTypes
    <3>. QED  BY <3>1, SeqTypes
  <2>. QED  BY <2>1 DEF Range
<1>4. /\ DOMAIN p = DOMAIN os
      /\ \A o \in DOMAIN os : p[o] = IF o \in Range(fs[b].drops) THEN [q(o) EXCEPT !.type = "drop", !.index = L] ELSE q(o)
  BY Zenon DEF Told
<1>5. \A o : InLast(o) <=> \E i \in 1 .. fs[N].current : fs[N].drops[i] = o
  OBVIOUS
<1>6. \A o : q(o) = IF InLast(o) THEN [os[o] EXCEPT !.index = b] ELSE os[o]
  OBVIOUS
<1>. HIDE DEF q, InLast, N
<1>7. ASSUME NEW o \in DOMAIN os, os[o].type # "dropping" PROVE p[o] = os[o]
  <2>1. ~InLast(o)
    BY <1>1, <1>2, <1>5, <1>7, PlacesApart
  <2>2. o \notin Range(fs[b].drops)
    BY <1>1, <1>2, <1>3, <1>7, PlacesApart
  <2>. QED  BY <1>4, <1>6, <2>1, <2>2
<1>8. ASSUME NEW c \in 1 .. N, NEW j \in 1 .. fs[c].current
      PROVE  /\ fs[c].drops[j] \in DOMAIN os
             /\ p[fs[c].drops[j]] = IF c = b THEN Lies(L, j) ELSE IF c = N THEN Falls(b, j) ELSE Falls(c, j)
  <2>. DEFINE o == fs[c].drops[j]
  <2>1. o \in DOMAIN os /\ os[o] = Falls(c, j)
    BY <1>2
  <2>2. \A d \in 1 .. N : \A i \in 1 .. fs[d].current : fs[d].drops[i] = o => d = c
    BY <1>2, <2>1, PlacesApart
  <2>3. \E i \in 1 .. fs[c].current : fs[c].drops[i] = o
    OBVIOUS
  <2>. HIDE DEF o
  <2>4. InLast(o) <=> c = N
    BY <1>1, <1>5, <2>2, <2>3
  <2>5. o \in Range(fs[b].drops) <=> c = b
    BY <1>1, <1>3, <2>2, <2>3
  <2>6. q(o) = Falls(IF c = N THEN b ELSE c, j)
    BY <1>6, <2>1, <2>4, PlacesApart
  <2>7. ASSUME NEW d PROVE [Falls(d, j) EXCEPT !.type = "drop", !.index = L] = Lies(L, j)
    <3>1. [Falls(d, j) EXCEPT !.type = "drop"] = Lies(d, j)
      BY DEF Falls, Lies
    <3>2. [Lies(d, j) EXCEPT !.index = L] = Lies(L, j)
      BY PlacesApart
    <3>. QED  BY <3>1, <3>2
  <2>8. p[o] = IF c = b THEN Lies(L, j) ELSE IF c = N THEN Falls(b, j) ELSE Falls(c, j)
    <3>1. CASE c = b
      <4>1. p[o] = [q(o) EXCEPT !.type = "drop", !.index = L]
        BY <1>4, <2>1, <2>5, <3>1
      <4>. QED  BY <2>6, <2>7, <3>1, <4>1
    <3>2. CASE c # b
      BY <1>4, <2>1, <2>5, <2>6, <3>2
    <3>. QED  BY <3>1, <3>2
  <2>. QED  BY <2>1, <2>8 DEF o
<1>. QED  BY <1>4, <1>7, <1>8 DEF Moved, N

(* The batch b is out of the row of those that fall.                       *)
Closed(gs, fs, b) ==
  /\ gs \in Seq(Pile) /\ Len(gs) = Len(fs) - 1
  /\ \A c \in 1 .. Len(fs) - 1 : gs[c] = IF c = b THEN fs[Len(fs)] ELSE fs[c]

LEMMA ClosedIs ==
  ASSUME NEW fs \in Seq(Pile), NEW b \in 1 .. Len(fs)
  PROVE  Closed(Front([fs EXCEPT ![b] = Last(fs)]), fs, b)
<1>. DEFINE s == [fs EXCEPT ![b] = Last(fs)]
<1>1. Len(fs) \in Nat /\ Len(fs) \in 1 .. Len(fs) /\ fs[Len(fs)] \in Pile
  BY PileTypes
<1>2. s \in Seq(Pile) /\ Len(s) = Len(fs) /\ \A c \in 1 .. Len(fs) : s[c] = IF c = b THEN fs[Len(fs)] ELSE fs[c]
  BY <1>1, PutAt DEF Last
<1>. HIDE DEF s
<1>a. Len(s) # 0 /\ Len(s) = Len(fs) /\ \A c \in 1 .. Len(fs) - 1 : c \in 1 .. Len(fs)
  BY <1>1, <1>2
<1>3. Front(s) \in Seq(Pile) /\ Len(Front(s)) = Len(s) - 1 /\ \A c \in 1 .. Len(s) - 1 : Front(s)[c] = s[c]
  BY <1>2, <1>a, FrontIs
<1>4. \A c \in 1 .. Len(fs) - 1 : Front(s)[c] = IF c = b THEN fs[Len(fs)] ELSE fs[c]
  BY <1>2, <1>3, <1>a
<1>5. Closed(Front(s), fs, b)
  BY <1>2, <1>3, <1>4 DEF Closed
<1>. QED  BY <1>5 DEF s

LEMMA FallingClosed ==
  ASSUME NEW fs \in Seq(Pile), NEW os, FallingAt(fs, os), NEW b \in 1 .. Len(fs),
         NEW L, NEW p, Moved(p, os, fs, b, L), NEW gs, Closed(gs, fs, b)
  PROVE  FallingAt(gs, p)
<1>. DEFINE N == Len(fs)
<1>1. N \in Nat /\ b \in 1 .. N /\ N \in 1 .. N /\ Len(gs) = N - 1 /\ \A c \in 1 .. N - 1 : c \in 1 .. N /\ c # N
  BY PileTypes DEF Closed
<1>2. \A c \in 1 .. N - 1 : gs[c] = IF c = b THEN fs[N] ELSE fs[c]
  BY DEF Closed
<1>3. /\ DOMAIN p = DOMAIN os
      /\ \A o \in DOMAIN os : os[o].type # "dropping" => p[o] = os[o]
      /\ \A c \in 1 .. N : \A j \in 1 .. fs[c].current :
           /\ fs[c].drops[j] \in DOMAIN os
           /\ p[fs[c].drops[j]] = IF c = b THEN Lies(L, j) ELSE IF c = N THEN Falls(b, j) ELSE Falls(c, j)
  BY DEF Moved
<1>4. \A c \in 1 .. N : fs[c].current <= Len(fs[c].drops)
                        /\ \A j \in (fs[c].current + 1) .. Len(fs[c].drops) : fs[c].drops[j] = NoOid
  BY DEF FallingAt, Falls1
<1>. HIDE DEF N
<1>5. ASSUME NEW c \in 1 .. Len(gs) PROVE Falls1(gs, p, c)
  <2>0. c \in 1 .. N - 1 /\ c \in 1 .. N /\ c # N
    BY <1>1
  <2>1. CASE c = b
    <3>1. gs[c] = fs[N] /\ N # b
      BY <1>2, <2>0, <2>1
    <3>. QED  BY <1>1, <1>3, <1>4, <2>1, <3>1 DEF Falls1
  <2>2. CASE c # b
    <3>1. gs[c] = fs[c]
      BY <1>2, <2>0, <2>2
    <3>. QED  BY <1>3, <1>4, <2>0, <2>2, <3>1 DEF Falls1
  <2>. QED  BY <2>1, <2>2
<1>6. ASSUME NEW o \in DOMAIN p, p[o].type = "dropping"
      PROVE  /\ p[o].index \in 1 .. Len(gs) /\ p[o].index2 \in 1 .. gs[p[o].index].current
             /\ gs[p[o].index].drops[p[o].index2] = o
  <2>1. o \in DOMAIN os /\ os[o].type = "dropping"
    BY <1>3, <1>6
  <2>2. PICK c \in 1 .. N : \E i \in 1 .. fs[c].current : fs[c].drops[i] = o
    BY <2>1 DEF FallingAt, N
  <2>3. PICK i \in 1 .. fs[c].current : fs[c].drops[i] = o
    BY <2>2
  <2>4. p[o] = IF c = b THEN Lies(L, i) ELSE IF c = N THEN Falls(b, i) ELSE Falls(c, i)
    BY <1>3, <2>3
  <2>5. c # b
    BY <1>6, <2>4, PlacesApart
  <2>6. CASE c = N
    <3>1. p[o].index = b /\ p[o].index2 = i /\ b \in 1 .. N - 1 /\ gs[b] = fs[N]
      <4>1. b \in 1 .. N - 1
        BY <1>1, <2>5, <2>6
      <4>. QED  BY <1>2, <2>4, <2>5, <2>6, <4>1, PlacesApart
    <3>. QED  BY <1>1, <2>3, <2>6, <3>1
  <2>7. CASE c # N
    <3>1. p[o].index = c /\ p[o].index2 = i /\ c \in 1 .. N - 1 /\ gs[c] = fs[c]
      <4>1. c \in 1 .. N - 1
        BY <1>1, <2>7
      <4>. QED  BY <1>2, <2>4, <2>5, <2>7, <4>1, PlacesApart
    <3>. QED  BY <1>1, <2>3, <3>1
  <2>. QED  BY <2>6, <2>7
<1>. QED  BY <1>5, <1>6 DEF FallingAt

LEMMA DroppersClosed ==
  ASSUME NEW fs \in Seq(Pile), NEW os, Droppers(fs, os), NEW b \in 1 .. Len(fs),
         NEW L, NEW p, Moved(p, os, fs, b, L), NEW gs, Closed(gs, fs, b)
  PROVE  /\ Droppers(gs, p)
         /\ fs[b].dropper # ReactorOid => \A c \in 1 .. Len(gs) : gs[c].dropper # fs[b].dropper
<1>. DEFINE N == Len(fs)
            old(c) == IF c = b THEN N ELSE c
<1>1. N \in Nat /\ b \in 1 .. N /\ Len(gs) = N - 1
  BY PileTypes DEF Closed
<1>2. \A c \in 1 .. N - 1 : gs[c] = fs[old(c)]
  BY DEF Closed
<1>3. \A c \in 1 .. N - 1 : old(c) \in 1 .. N /\ old(c) # b
  BY <1>1
<1>4. \A c, d \in 1 .. N - 1 : old(c) = old(d) => c = d
  BY <1>1
<1>5. \A o \in DOMAIN os : os[o].type # "dropping" => o \in DOMAIN p /\ p[o] = os[o]
  BY DEF Moved
<1>6. \A c, d \in 1 .. N : fs[c].dropper # ReactorOid /\ fs[d].dropper = fs[c].dropper => d = c
  BY DEF Droppers
<1>7. \A c \in 1 .. N : fs[c].dropper # ReactorOid => fs[c].dropper \in DOMAIN os /\ os[fs[c].dropper].type = "monster"
  BY DEF Droppers
<1>. HIDE DEF old, N
<1>8. ReactorOid \in DOMAIN p /\ p[ReactorOid].type = "reactor"
  BY <1>5 DEF Droppers
<1>9. ASSUME NEW c \in 1 .. Len(gs), gs[c].dropper # ReactorOid
      PROVE  /\ gs[c].dropper \in DOMAIN p /\ p[gs[c].dropper].type = "monster"
             /\ \A d \in 1 .. Len(gs) : gs[d].dropper = gs[c].dropper => d = c
  <2>1. gs[c] = fs[old(c)] /\ old(c) \in 1 .. N
    BY <1>1, <1>2, <1>3
  <2>2. gs[c].dropper \in DOMAIN p /\ p[gs[c].dropper].type = "monster"
    BY <1>5, <1>7, <1>9, <2>1
  <2>3. ASSUME NEW d \in 1 .. Len(gs), gs[d].dropper = gs[c].dropper PROVE d = c
    <3>1. gs[d] = fs[old(d)] /\ old(d) \in 1 .. N
      BY <1>1, <1>2, <1>3
    <3>2. old(d) = old(c)
      BY <1>6, <1>9, <2>1, <2>3, <3>1
    <3>. QED  BY <1>1, <1>4, <3>2
  <2>. QED  BY <2>2, <2>3
<1>10. ASSUME fs[b].dropper # ReactorOid, NEW c \in 1 .. Len(gs), gs[c].dropper = fs[b].dropper PROVE FALSE
  <2>1. gs[c] = fs[old(c)] /\ old(c) \in 1 .. N /\ old(c) # b
    BY <1>1, <1>2, <1>3
  <2>. QED  BY <1>1, <1>6, <1>10, <2>1
<1>. QED  BY <1>8, <1>9, <1>10 DEF Droppers

(* The batch b has settled.                                                *)
LEMMA BatchSettled ==
  ASSUME NEW w, Linked(w), AtBatch(w), NEW b \in 1 .. Len(w.dropping),
         w.dropping[b].current = Len(w.dropping[b].drops), w.dropping[b].current # 0,
         \A c \in 1 .. Len(w.dropping) : c # b => w.dropping[c].current < Len(w.dropping[c].drops)
  PROVE  LET v == Settled(w, b)
         IN  /\ Good(v)
             /\ \A o \in DOMAIN w.objects : w.objects[o].type # "dropping" => o \in DOMAIN v.objects /\ v.objects[o] = w.objects[o]
             /\ \A j \in 1 .. Len(w.dropping[b].drops) :
                  w.dropping[b].drops[j] \in DOMAIN v.objects /\ v.objects[w.dropping[b].drops[j]].type = "drop"
             /\ w.dropping[b].dropper # ReactorOid =>
                  \A c \in 1 .. Len(v.dropping) : v.dropping[c].dropper # w.dropping[b].dropper
<1>. DEFINE os == w.objects
            fs == w.dropping
            ds == fs[b].drops
            x == NewBatch(w, ds, fs[b].owner, TRUE)
            L == Len(w.batches) + 1
            u == AddBatch(w, ds, fs[b].owner, TRUE)
            gs == Front([fs EXCEPT ![b] = Last(fs)])
            InLast(o) == \E i \in 1 .. Last(fs).current : Last(fs).drops[i] = o
            p1 == [o \in DOMAIN os |-> IF InLast(o) THEN [os[o] EXCEPT !.index = b] ELSE os[o]]
            p2 == [o \in DOMAIN p1 |-> IF o \in Range(ds) THEN [p1[o] EXCEPT !.type = "drop", !.index = L] ELSE p1[o]]
            closed == CloseGap(u, b)
            v == Settled(w, b)
<1>1. /\ w \in Fields /\ os \in Objects /\ fs \in Seq(Pile) /\ FallingAt(fs, os) /\ w.batches \in Seq(Place)
      /\ Droppers(fs, os) /\ Lying(w.batches, os) /\ Timed(w.batches, w.timers) /\ Fitting(w)
  BY DEF Linked, Fields
<1>2. /\ fs[b] \in Pile /\ ds \in Seq(Nat) /\ ds # <<>> /\ fs[b].owner \in Player
      /\ Len(fs) \in Nat /\ b \in Nat /\ L \in Nat
  <2>1. /\ fs[b] \in Pile /\ ds \in Seq(Nat \cup {NoOid}) /\ fs[b].owner \in Player
        /\ Len(fs) \in Nat /\ b \in Nat /\ L \in Nat /\ Len(ds) \in Nat
    BY <1>1, PileTypes, SeqTypes
  <2>2. \A j \in 1 .. Len(ds) : ds[j] \in DOMAIN os
    BY <1>1 DEF FallingAt, Falls1
  <2>3. DOMAIN os \in SUBSET Nat
    BY <1>1, ObjectsIs
  <2>4. \A j \in 1 .. Len(ds) : ds[j] \in Nat
    BY <2>2, <2>3
  <2>5. ds \in Seq(Nat)
    <3>. HIDE DEF ds
    <3>1. ds \in [1 .. Len(ds) -> Nat]
      <4>1. DOMAIN ds = 1 .. Len(ds) /\ ds = [j \in DOMAIN ds |-> ds[j]]
        BY <2>1, SeqTypes, SeqDef
      <4>. QED  BY <2>4, <4>1
    <3>. QED  BY <2>1, <3>1, SeqDef
  <2>6. ds # <<>>
    BY EmptySeq
  <2>. QED  BY <2>1, <2>5, <2>6
<1>. HIDE DEF ds
<1>3. /\ x \in Batch /\ u \in Fields
      /\ u.batches = Append(w.batches, x) /\ u.start = w.start
      /\ u.dropping = fs /\ u.objects = os
      /\ Timed(u.batches, u.timers) /\ Fitting(u) /\ AtBatch(u)
  BY <1>1, <1>2, AddBatchIs
<1>4. x.drops = ds
  BY DEF NewBatch
<1>. HIDE DEF x
<1>5. u.batches \in Seq(Place) /\ Len(u.batches) = L
  <2>1. u.batches \in Seq(Place)
    BY <1>3 DEF Fields
  <2>2. Len(Append(w.batches, x)) = L
    BY <1>1, <1>3, LivingAppended
  <2>. QED  BY <1>3, <2>1, <2>2
<1>a. v = [closed EXCEPT !.objects = [o \in DOMAIN @ |->
            IF o \in Range(ds) THEN [@[o] EXCEPT !.type = "drop", !.index = Len(closed.batches)] ELSE @[o]]]
  BY DEF Settled, ds
<1>. HIDE DEF u, v
<1>6. closed = [u EXCEPT !.dropping = gs, !.objects = p1]
  BY <1>1, <1>3 DEF CloseGap, Fields
<1>. HIDE DEF gs, p1, closed
<1>7. closed.objects = p1 /\ closed.batches = u.batches
  BY <1>3, <1>6 DEF Fields
<1>8. v = [u EXCEPT !.dropping = gs, !.objects = p2]
  BY <1>3, <1>5, <1>6, <1>7, <1>a DEF Fields
<1>9. Told(p2, os, fs, b, L)
  BY DEF p1, Told, Last, ds
<1>b. p2 = [o \in DOMAIN p2 |-> p2[o]]
  OBVIOUS
<1>. HIDE DEF p2
<1>10. Moved(p2, os, fs, b, L)
  BY <1>1, <1>9, ToldMoved
<1>11. Closed(gs, fs, b)
  BY <1>1, ClosedIs DEF gs
<1>12. FallingAt(gs, p2)
  BY <1>1, <1>10, <1>11, FallingClosed
<1>13. /\ Droppers(gs, p2)
       /\ fs[b].dropper # ReactorOid => \A c \in 1 .. Len(gs) : gs[c].dropper # fs[b].dropper
  BY <1>1, <1>10, <1>11, DroppersClosed
<1>14. /\ DOMAIN p2 = DOMAIN os
       /\ \A o \in DOMAIN os : os[o].type # "dropping" => p2[o] = os[o]
       /\ \A j \in 1 .. Len(ds) : ds[j] \in DOMAIN os /\ p2[ds[j]] = Lies(L, j)
  BY <1>10 DEF Moved, ds
<1>15. p2 \in Objects
  <2>1. DOMAIN os \in SUBSET Nat /\ IsFiniteSet(DOMAIN os) /\ \A o \in DOMAIN os : os[o] \in Object
    BY <1>1, ObjectsIs
  <2>2. ASSUME NEW o \in DOMAIN os PROVE p2[o] \in Object
    <3>1. CASE os[o].type # "dropping"
      BY <1>14, <2>1, <3>1
    <3>2. CASE os[o].type = "dropping"
      <4>1. PICK c \in 1 .. Len(fs) : \E j \in 1 .. fs[c].current : fs[c].drops[j] = o
        BY <1>1, <3>2 DEF FallingAt
      <4>2. PICK j \in 1 .. fs[c].current : fs[c].drops[j] = o
        BY <4>1
      <4>3. p2[o] = IF c = b THEN Lies(L, j) ELSE IF c = Len(fs) THEN Falls(b, j) ELSE Falls(c, j)
        BY <1>10, <4>2 DEF Moved
      <4>4. c \in Nat /\ j \in Nat
        <5>1. fs[c].current \in Nat
          BY <1>1, PileTypes
        <5>. QED  BY <1>2, <5>1
      <4>5. Lies(L, j) \in Object /\ Falls(b, j) \in Object /\ Falls(c, j) \in Object
        BY <1>2, <4>4 DEF Lies, Falls, Object
      <4>. QED  BY <4>3, <4>5
    <3>. QED  BY <3>1, <3>2
  <2>. QED  BY <1>14, <1>b, <2>1, <2>2, ObjectsIs
<1>16. /\ v \in Fields /\ v.batches = u.batches /\ v.start = u.start /\ v.capacity = u.capacity
       /\ v.timers = u.timers /\ v.dropping = gs /\ v.objects = p2
  <2>1. gs \in Seq(Pile)
    BY <1>11 DEF Closed
  <2>. QED  BY <1>3, <1>8, <1>15, <2>1 DEF Fields
<1>17. Timed(v.batches, v.timers) /\ Fitting(v) /\ AtBatch(v)
  BY <1>3, <1>16 DEF Fitting, AtBatch
<1>18. Lying(v.batches, p2)
  <2>1. ASSUME NEW o \in DOMAIN p2, p2[o].type = "drop"
        PROVE  (o \in DOMAIN os /\ p2[o] = os[o]) \/ \E j \in 1 .. Len(ds) : o = ds[j]
    <3>0. o \in DOMAIN os
      BY <1>14
    <3>1. CASE os[o].type # "dropping"
      BY <1>14, <3>0, <3>1
    <3>2. CASE os[o].type = "dropping"
      <4>1. PICK c \in 1 .. Len(fs) : \E j \in 1 .. fs[c].current : fs[c].drops[j] = o
        BY <1>1, <3>0, <3>2 DEF FallingAt
      <4>2. PICK j \in 1 .. fs[c].current : fs[c].drops[j] = o
        BY <4>1
      <4>3. p2[o] = IF c = b THEN Lies(L, j) ELSE IF c = Len(fs) THEN Falls(b, j) ELSE Falls(c, j)
        BY <1>10, <4>2 DEF Moved
      <4>4. c = b
        BY <2>1, <4>3, PlacesApart
      <4>. QED  BY <4>2, <4>4 DEF ds
    <3>. QED  BY <3>1, <3>2
  <2>2. \A o \in DOMAIN os : os[o].type = "drop" => o \in DOMAIN p2 /\ p2[o] = os[o]
    BY <1>14
  <2>3. Joining(L, x, os, p2)
    BY <1>4, <1>14, <2>1, <2>2 DEF Joining
  <2>4. Lying(Append(w.batches, x), p2)
    BY <1>1, <1>3, <2>3, LyingAppended
  <2>. QED  BY <1>3, <1>16, <2>4
<1>19. Waiting(gs)
  <2>1. Len(gs) = Len(fs) - 1 /\ \A c \in 1 .. Len(fs) - 1 : gs[c] = IF c = b THEN fs[Len(fs)] ELSE fs[c]
    BY <1>11 DEF Closed
  <2>2. ASSUME NEW c \in 1 .. Len(gs) PROVE gs[c].current < Len(gs[c].drops)
    <3>1. c \in 1 .. Len(fs) - 1 /\ c \in 1 .. Len(fs) /\ Len(fs) \in 1 .. Len(fs) /\ c # Len(fs)
      BY <1>2, <2>1
    <3>2. CASE c = b
      <4>1. gs[c] = fs[Len(fs)] /\ Len(fs) # b
        BY <2>1, <3>1, <3>2
      <4>. QED  BY <3>1, <4>1
    <3>3. CASE c # b
      BY <2>1, <3>1, <3>3
    <3>. QED  BY <3>2, <3>3
  <2>. QED  BY <2>2 DEF Waiting
<1>20. Good(v)
  BY <1>12, <1>13, <1>16, <1>17, <1>18, <1>19 DEF Good, Linked
<1>21. /\ \A o \in DOMAIN os : os[o].type # "dropping" => o \in DOMAIN v.objects /\ v.objects[o] = os[o]
       /\ \A j \in 1 .. Len(ds) : ds[j] \in DOMAIN v.objects /\ v.objects[ds[j]].type = "drop"
       /\ fs[b].dropper # ReactorOid => \A c \in 1 .. Len(v.dropping) : v.dropping[c].dropper # fs[b].dropper
  BY <1>13, <1>14, <1>16, PlacesApart
<1>. QED  BY <1>20, <1>21 DEF v, ds

-----------------------------------------------------------------------------
(* The handlers.                                                           *)

(* Good objects, with the monster oid freed.                               *)
LEMMA MonsterKilled ==
  ASSUME NEW w, Good(w), NEW oid \in DOMAIN w.objects,
         w.objects[oid].type \in {"monster", "remains"},
         \A b \in 1 .. Len(w.dropping) : w.dropping[b].dropper # oid
  PROVE  /\ Good(KillMonster(w, oid))
         /\ \A o \in DOMAIN w.objects : o # oid =>
              o \in DOMAIN KillMonster(w, oid).objects /\ KillMonster(w, oid).objects[o] = w.objects[o]
<1>. DEFINE v == KillMonster(w, oid)
<1>1. v = Free(w, oid)
  BY DEF KillMonster
<1>2. /\ Linked(v) /\ v = [w EXCEPT !.objects = v.objects]
      /\ \A o \in DOMAIN w.objects : o # oid => o \in DOMAIN v.objects /\ v.objects[o] = w.objects[o]
  BY <1>1, MonsterFreed DEF Good
<1>. HIDE DEF v
<1>3. w \in Fields
  BY DEF Good, Linked
<1>4. v.dropping = w.dropping /\ v.batches = w.batches /\ v.start = w.start
  BY <1>2, <1>3 DEF Fields
<1>5. Good(v)
  BY <1>2, <1>4 DEF Good, AtBatch
<1>. QED  BY <1>2, <1>5 DEF v

(* do_client_auto_pickup                                                   *)
LEMMA PickedUp ==
  ASSUME NEW w, Good(w), NEW oid \in DOMAIN w.objects, w.objects[oid].type \in {"drop", "dropping"},
         NEW v \in AutoPickup(w, oid)
  PROVE  Good(v)
BY DropRemoved DEF AutoPickup

(* The one drop of a monster.                                              *)
LEMMA OneDropped ==
  ASSUME NEW w, Good(w), NEW p \in Player, NEW v \in AutoPickup(AddDrop(w, p, TRUE), NewOid(w))
  PROVE  /\ Good(v) /\ v.dropping = w.dropping
         /\ \A o \in DOMAIN w.objects : w.objects[o].type # "drop" => o \in DOMAIN v.objects /\ v.objects[o] = w.objects[o]
<1>. DEFINE u == AddDrop(w, p, TRUE)
            n == NewOid(w)
<1>1. /\ Good(u) /\ u.dropping = w.dropping
      /\ n \in DOMAIN u.objects /\ u.objects[n].type = "drop"
      /\ \A o \in DOMAIN w.objects : o \in DOMAIN u.objects /\ u.objects[o] = w.objects[o]
  BY DropAdded
<1>2. v = u \/ v = RemoveDrop(u, n)
  BY DEF AutoPickup
<1>. HIDE DEF u, n
<1>3. RemoveDrop(u, n) = RemoveLying(u, n)
  BY <1>1 DEF RemoveDrop
<1>4. Good(RemoveLying(u, n)) /\ Sweeping(RemoveLying(u, n), u)
  BY <1>1, LyingSwept
<1>5. CASE v = u
  BY <1>1, <1>5
<1>6. CASE v = RemoveLying(u, n)
  <2>1. Good(v) /\ v.dropping = u.dropping /\ OthersSame(v.objects, u.objects)
    BY <1>4, <1>6 DEF Sweeping
  <2>. QED  BY <1>1, <2>1 DEF OthersSame
<1>. QED  BY <1>2, <1>3, <1>5, <1>6

LEMMA DropBatchIs ==
  ASSUME NEW w, NEW p, NEW dropper, NEW n \in Nat
  PROVE  /\ n = 0 => DropBatch(w, p, dropper, n) = {w}
         /\ n = 1 => DropBatch(w, p, dropper, n) = AutoPickup(AddDrop(w, p, TRUE), NewOid(w))
<1>1. ASSUME n = 0 PROVE DropBatch(w, p, dropper, n) = {w}
  BY <1>1, Zenon DEF DropBatch
<1>. DEFINE u == IF n = 1 THEN AddDrop(w, p, TRUE) ELSE StartFalling(w, p, dropper, n)
<1>2. ASSUME n = 1 PROVE DropBatch(w, p, dropper, n) = AutoPickup(AddDrop(w, p, TRUE), NewOid(w))
  <2>1. n # 0
    BY <1>2
  <2>2. DropBatch(w, p, dropper, n) = AutoPickup(u, NewOid(w))
    BY <2>1, Zenon DEF DropBatch
  <2>3. u = AddDrop(w, p, TRUE)
    BY <1>2, Zenon
  <2>. HIDE DEF u
  <2>. QED  BY <2>2, <2>3, Zenon
<1>. QED  BY <1>1, <1>2

LEMMA SeveralDropped ==
  ASSUME NEW w, NEW p, NEW dropper, NEW n \in Nat, n > 1
  PROVE  DropBatch(w, p, dropper, n) = AutoPickup(StartFalling(w, p, dropper, n), NewOid(w))
<1>. DEFINE u == IF n = 1 THEN AddDrop(w, p, TRUE) ELSE StartFalling(w, p, dropper, n)
<1>1. n # 0 /\ n # 1
  OBVIOUS
<1>2. DropBatch(w, p, dropper, n) = AutoPickup(u, NewOid(w))
  BY <1>1, Zenon DEF DropBatch
<1>3. u = StartFalling(w, p, dropper, n)
  BY <1>1, Zenon
<1>. HIDE DEF u
<1>. QED  BY <1>2, <1>3, Zenon

LEMMA BatchDropped ==
  ASSUME NEW w, Good(w), NEW p \in Player, NEW dropper \in Nat, NEW n \in Nat,
         dropper # ReactorOid =>
           /\ dropper \in DOMAIN w.objects /\ w.objects[dropper].type = "monster"
           /\ \A b \in 1 .. Len(w.dropping) : w.dropping[b].dropper # dropper,
         NEW v \in DropBatch(w, p, dropper, n)
  PROVE  Good(v)
<1>1. CASE n = 0
  BY <1>1 DEF DropBatch
<1>2. CASE n = 1
  <2>1. v \in AutoPickup(AddDrop(w, p, TRUE), NewOid(w))
    BY <1>2, DropBatchIs
  <2>. QED  BY <2>1, OneDropped
<1>3. CASE n > 1
  <2>1. v \in AutoPickup(StartFalling(w, p, dropper, n), NewOid(w))
    <3>1. DropBatch(w, p, dropper, n) = AutoPickup(StartFalling(w, p, dropper, n), NewOid(w))
      BY <1>3, SeveralDropped
    <3>. QED  BY <3>1, Zenon
  <2>2. /\ Good(StartFalling(w, p, dropper, n)) /\ NewOid(w) \in DOMAIN StartFalling(w, p, dropper, n).objects
        /\ StartFalling(w, p, dropper, n).objects[NewOid(w)].type = "dropping"
    BY <1>3, FallStarted
  <2>. QED  BY <2>1, <2>2, PickedUp
<1>. QED  BY <1>1, <1>2, <1>3

(* A monster dies and stays for good.                                      *)
LEMMA MonsterRemains ==
  ASSUME NEW w, Good(w), NEW oid \in DOMAIN w.objects, w.objects[oid].type = "monster",
         \A b \in 1 .. Len(w.dropping) : w.dropping[b].dropper # oid
  PROVE  Good([w EXCEPT !.objects[oid].type = "remains"])
<1>. DEFINE os == w.objects
            x == [os[oid] EXCEPT !.type = "remains"]
            p == [os EXCEPT ![oid] = x]
            v == [w EXCEPT !.objects = p]
<1>1. w \in Fields /\ os \in Objects /\ Linked(w) /\ Waiting(w.dropping) /\ AtBatch(w)
      /\ FallingAt(w.dropping, os) /\ Droppers(w.dropping, os)
  BY DEF Good, Linked, Fields
<1>2. DOMAIN os \in SUBSET Nat /\ IsFiniteSet(DOMAIN os) /\ \A o \in DOMAIN os : os[o] \in Object
  BY <1>1, ObjectsIs
<1>3. x \in Object /\ x.type = "remains"
  BY <1>2 DEF Object
<1>4. [w EXCEPT !.objects[oid].type = "remains"] = v
  BY <1>1 DEF Fields
<1>. HIDE DEF x
<1>5. DOMAIN p = DOMAIN os /\ \A o \in DOMAIN os : p[o] = IF o = oid THEN x ELSE os[o]
  OBVIOUS
<1>6. p = [o \in DOMAIN p |-> p[o]]
  OBVIOUS
<1>. HIDE DEF p
<1>7. p \in Objects
  BY <1>2, <1>3, <1>5, <1>6, ObjectsIs
<1>8. v \in Fields /\ v.objects = p /\ v.dropping = w.dropping /\ SameLying(v, w)
  BY <1>1, <1>7 DEF Fields, SameLying
<1>. HIDE DEF v
<1>9. Agree(p, os, "drop") /\ Agree(p, os, "dropping")
  BY <1>3, <1>5 DEF Agree
<1>10. FallingAt(v.dropping, p)
  BY <1>1, <1>8, <1>9, FallingAgrees
<1>11. Droppers(v.dropping, p)
  BY <1>1, <1>3, <1>5, <1>8 DEF Droppers
<1>12. Good(v)
  BY <1>1, <1>8, <1>9, <1>10, <1>11, LinkedAgain DEF Good
<1>. QED  BY <1>4, <1>12

LEMMA SlayKeeps ==
  ASSUME NEW p \in Player, NEW oid, NEW n \in Nat, Good(map), Slay(p, oid, n)
  PROVE  Good(map')
<1>1. /\ oid \in DOMAIN map.objects /\ map.objects[oid].type = "monster"
      /\ \A b \in 1 .. Len(map.dropping) : map.dropping[b].dropper # oid
  BY DEF Slay, Falling
<1>2. PICK w \in DropBatch(map, p, oid, n) :
        map' = IF n = 0 THEN [w EXCEPT !.objects[oid].type = "remains"]
               ELSE IF n = 1 THEN KillMonster(w, oid) ELSE w
  BY DEF Slay
<1>3. oid \in Nat
  <2>1. map.objects \in Objects
    BY DEF Good, Linked, Fields
  <2>. QED  BY <1>1, <2>1, ObjectsIs
<1>4. CASE n = 0
  <2>1. w = map
    BY <1>2, <1>4 DEF DropBatch
  <2>. QED  BY <1>1, <1>2, <1>4, <2>1, MonsterRemains
<1>5. CASE n = 1
  <2>1. w \in AutoPickup(AddDrop(map, p, TRUE), NewOid(map))
    BY <1>2, <1>5, DropBatchIs
  <2>2. Good(w) /\ w.dropping = map.dropping /\ oid \in DOMAIN w.objects /\ w.objects[oid].type = "monster"
    BY <1>1, <2>1, OneDropped
  <2>. QED  BY <1>1, <1>2, <1>5, <2>2, MonsterKilled
<1>6. CASE n > 1
  <2>1. map' = w
    BY <1>2, <1>6
  <2>. QED  BY <1>1, <1>2, <1>3, <2>1, BatchDropped
<1>. QED  BY <1>4, <1>5, <1>6

LEMMA NextDropKeeps ==
  ASSUME NEW b \in 1 .. Len(map.dropping), Good(map), NextDrop(b)
  PROVE  Good(map')
<1>. DEFINE batch == map.dropping[b]
            w == Fallen(map, b)
            done == Settled(w, b)
            n == NewOid(map)
<1>1. OneMore(w, map, b)
  BY OneFallen
<1>2. /\ \/ batch.current + 1 < Len(batch.drops) /\ map' \in AutoPickup(w, n)
         \/ /\ ~(batch.current + 1 < Len(batch.drops))
            /\ \/ batch.dropper = ReactorOid /\ map' \in AutoPickup(done, n)
               \/ batch.dropper # ReactorOid /\ map' \in AutoPickup(KillMonster(done, batch.dropper), n)
  BY Zenon DEF NextDrop
<1>3. /\ batch.current \in Nat /\ Len(batch.drops) \in Nat /\ batch.current < Len(batch.drops)
      /\ batch.dropper # ReactorOid => batch.dropper \in DOMAIN map.objects /\ map.objects[batch.dropper].type = "monster"
  <2>1. map.dropping \in Seq(Pile)
    BY DEF Good, Linked, Fields
  <2>. QED  BY <2>1, PileTypes DEF Good, Waiting, Linked, Droppers
<1>. HIDE DEF w
<1>4. /\ Linked(w) /\ AtBatch(w)
      /\ Len(w.dropping) = Len(map.dropping)
      /\ \A c \in 1 .. Len(map.dropping) : c # b => w.dropping[c].current < Len(w.dropping[c].drops)
      /\ Len(w.dropping[b].drops) = Len(batch.drops)
      /\ w.dropping[b].current = batch.current + 1
      /\ w.dropping[b].dropper = batch.dropper
      /\ n = w.dropping[b].drops[w.dropping[b].current]
      /\ n \in DOMAIN w.objects /\ w.objects[n].type = "dropping"
  BY <1>1 DEF OneMore
<1>. HIDE DEF n, batch
<1>5. CASE batch.current + 1 < Len(batch.drops)
  <2>1. Waiting(w.dropping)
    BY <1>4, <1>5 DEF Waiting
  <2>2. Good(w)
    BY <1>4, <2>1 DEF Good
  <2>. QED  BY <1>2, <1>4, <1>5, <2>2, PickedUp
<1>6. CASE ~(batch.current + 1 < Len(batch.drops))
  <2>1. b \in 1 .. Len(w.dropping) /\ w.dropping[b].current = Len(w.dropping[b].drops) /\ w.dropping[b].current # 0
    BY <1>3, <1>4, <1>6
  <2>2. /\ Good(done)
        /\ \A o \in DOMAIN w.objects : w.objects[o].type # "dropping" => o \in DOMAIN done.objects /\ done.objects[o] = w.objects[o]
        /\ \A j \in 1 .. Len(w.dropping[b].drops) :
             w.dropping[b].drops[j] \in DOMAIN done.objects /\ done.objects[w.dropping[b].drops[j]].type = "drop"
        /\ w.dropping[b].dropper # ReactorOid =>
             \A c \in 1 .. Len(done.dropping) : done.dropping[c].dropper # w.dropping[b].dropper
    BY <1>4, <2>1, BatchSettled
  <2>. HIDE DEF done
  <2>3. n \in DOMAIN done.objects /\ done.objects[n].type = "drop"
    <3>1. w.dropping[b].current \in 1 .. Len(w.dropping[b].drops)
      BY <1>3, <1>4, <2>1
    <3>. QED  BY <1>4, <2>2, <3>1
  <2>4. CASE batch.dropper = ReactorOid
    BY <1>2, <1>6, <2>2, <2>3, <2>4, PickedUp
  <2>5. CASE batch.dropper # ReactorOid
    <3>1. batch.dropper \in DOMAIN w.objects /\ w.objects[batch.dropper].type = "monster"
      <4>1. w.dropping[b].dropper # ReactorOid /\ Droppers(w.dropping, w.objects)
        BY <1>4, <2>5 DEF Linked
      <4>. QED  BY <1>4, <2>1, <4>1 DEF Droppers
    <3>2. batch.dropper \in DOMAIN done.objects /\ done.objects[batch.dropper].type = "monster"
      BY <2>2, <3>1
    <3>3. \A c \in 1 .. Len(done.dropping) : done.dropping[c].dropper # batch.dropper
      BY <1>4, <2>2, <2>5
    <3>4. n # batch.dropper
      BY <2>3, <3>2
    <3>5. /\ Good(KillMonster(done, batch.dropper)) /\ n \in DOMAIN KillMonster(done, batch.dropper).objects
          /\ KillMonster(done, batch.dropper).objects[n].type = "drop"
      BY <2>2, <2>3, <3>2, <3>3, <3>4, MonsterKilled
    <3>. QED  BY <1>2, <1>6, <2>5, <3>5, PickedUp
  <2>. QED  BY <2>4, <2>5
<1>. QED  BY <1>5, <1>6

(* The owner's time of the batch B is over: it gets a new timer.           *)
LEMMA TimedReplaced ==
  ASSUME NEW bs \in Seq(Place), NEW ts \in Seq(Timer), NEW cs, NEW us, Timed(bs, ts),
         NEW B \in Living(bs), NEW t \in 1 .. Len(ts), IsOf(ts[t], bs[B]),
         Living(cs) = Living(bs), \A c \in Living(bs) : c # B => cs[c] = bs[c],
         Len(us) = Len(ts),
         \A i \in 1 .. Len(ts) : us[i] = IF i = t THEN TimerOf(cs[B]) ELSE ts[i],
         \A i \in 1 .. Len(ts) : ts[i].id # cs[B].timer
  PROVE  Timed(cs, us)
<1>. DEFINE N == Len(ts)
<1>1. \A c \in Living(bs) : bs[c].timer # cs[B].timer
  <2>. SUFFICES ASSUME NEW c \in Living(bs) PROVE bs[c].timer # cs[B].timer
    OBVIOUS
  <2>1. PICK i \in 1 .. N : ts[i] = TimerOf(bs[c])
    BY DEF Timed
  <2>. QED  BY <2>1 DEF TimerOf
<1>2. \A i, j \in 1 .. N : \A b, c \in Living(bs) : IsOf(ts[i], bs[b]) /\ IsOf(ts[j], bs[c]) => (i < j <=> b < c)
  BY DEF Timed
<1>3. N \in Nat /\ \A c \in Living(bs) : c \in Nat
  BY SeqTypes, LivingTypes
<1>4. \A i \in 1 .. N : \A c \in Living(bs) : IsOf(us[i], cs[c]) => IsOf(ts[i], bs[c])
  <2>. SUFFICES ASSUME NEW i \in 1 .. N, NEW c \in Living(bs), IsOf(us[i], cs[c]) PROVE IsOf(ts[i], bs[c])
    OBVIOUS
  <2>1. CASE i = t /\ c # B
    BY <1>1, <2>1 DEF IsOf, TimerOf
  <2>2. CASE i # t /\ c = B
    BY <2>2 DEF IsOf
  <2>. QED  BY <2>1, <2>2
<1>5. ASSUME NEW c \in Living(cs) PROVE \E i \in 1 .. Len(us) : us[i] = TimerOf(cs[c])
  <2>1. CASE c = B
    BY <2>1
  <2>2. CASE c # B
    <3>1. PICK i \in 1 .. N : ts[i] = TimerOf(bs[c])
      BY DEF Timed
    <3>2. IsOf(ts[i], bs[c])
      BY <3>1 DEF IsOf, TimerOf
    <3>3. i # t
      <4>1. ASSUME i = t PROVE c = B
        <5>1. (i < t <=> c < B) /\ (t < i <=> B < c)
          BY <1>2, <3>2
        <5>. QED  BY <1>3, <4>1, <5>1
      <4>. QED  BY <2>2, <4>1
    <3>. QED  BY <2>2, <3>1, <3>3
  <2>. QED  BY <2>1, <2>2
<1>6. ASSUME NEW i \in 1 .. Len(us) PROVE \E c \in Living(cs) : IsOf(us[i], cs[c])
  <2>1. CASE i = t
    <3>1. IsOf(us[i], cs[B])
      BY <2>1 DEF IsOf, TimerOf
    <3>. QED  BY <3>1
  <2>2. CASE i # t
    <3>1. PICK c \in Living(bs) : IsOf(ts[i], bs[c])
      BY DEF Timed
    <3>2. c # B
      <4>1. ASSUME c = B PROVE i = t
        <5>1. (i < t <=> c < B) /\ (t < i <=> B < c)
          BY <1>2, <3>1
        <5>. QED  BY <1>3, <4>1, <5>1
      <4>. QED  BY <2>2, <4>1
    <3>. QED  BY <2>2, <3>1, <3>2
  <2>. QED  BY <2>1, <2>2
<1>7. ASSUME NEW i \in 1 .. Len(us), NEW j \in 1 .. Len(us), NEW b \in Living(cs), NEW c \in Living(cs),
             IsOf(us[i], cs[b]), IsOf(us[j], cs[c])
      PROVE  i < j <=> b < c
  <2>1. IsOf(ts[i], bs[b]) /\ IsOf(ts[j], bs[c])
    BY <1>4, <1>7
  <2>. QED  BY <1>2, <2>1
<1>. QED  BY <1>5, <1>6, <1>7 DEF Timed

(* Timer i is that of one batch, and of its kind.                          *)
LEMMA TimerIs ==
  ASSUME NEW bs \in Seq(Place), NEW ts \in Seq(Timer), Timed(bs, ts), NEW i \in 1 .. Len(ts)
  PROVE  \E b \in Living(bs) : ts[i] = TimerOf(bs[b]) /\ IsOf(ts[i], bs[b])
<1>1. PICK b \in Living(bs) : IsOf(ts[i], bs[b])
  BY DEF Timed
<1>2. PICK j \in 1 .. Len(ts) : ts[j] = TimerOf(bs[b])
  BY DEF Timed
<1>3. IsOf(ts[j], bs[b])
  BY <1>2 DEF IsOf, TimerOf
<1>4. (i < j <=> b < b) /\ (j < i <=> b < b)
  BY <1>1, <1>3 DEF Timed
<1>5. i = j
  <2>1. b \in Nat /\ Len(ts) \in Nat
    BY LivingTypes, SeqTypes
  <2>. QED  BY <1>4, <2>1
<1>. QED  BY <1>1, <1>2, <1>5

LEMMA ExclusiveOverKeeps ==
  ASSUME Good(map), ExclusiveOver
  PROVE  Good(map')
<1>. DEFINE bs == map.batches
            ts == map.timers
            os == map.objects
            n == NewTimer(map)
<1>1. /\ map \in Fields /\ bs \in Seq(Place) /\ ts \in Seq(Timer) /\ Timed(bs, ts) /\ Fitting(map)
      /\ Lying(bs, os) /\ AtBatch(map)
  BY DEF Good, Linked, Fields
<1>2. PICK t \in FirstExclusive :
        map' = [map EXCEPT !.batches[FirstOwned(map)].exclusive = FALSE,
                           !.batches[FirstOwned(map)].timer = n,
                           !.timers[t] = [id |-> n, kind |-> "expire"]]
  BY DEF ExclusiveOver
<1>3. /\ t \in 1 .. Len(ts) /\ ts[t].kind = "exclusive"
      /\ \A u \in 1 .. t - 1 : ts[u].kind # "exclusive"
  BY DEF FirstExclusive
<1>4. PICK B \in Living(bs) : ts[t] = TimerOf(bs[B]) /\ IsOf(ts[t], bs[B])
  BY <1>1, <1>3, TimerIs
<1>5. /\ bs[B] \in Batch /\ B \in 1 .. Len(bs) /\ Len(bs) \in Nat /\ Len(ts) \in Nat
      /\ Living(bs) \subseteq 1 .. Len(bs)
  BY <1>1, LivingTypes, SeqTypes
<1>6. FirstOwned(map) = B
  <2>1. bs[B].exclusive
    <3>1. bs[B].exclusive \in BOOLEAN
      BY <1>5, BatchTypes
    <3>. QED  BY <1>3, <1>4, <3>1 DEF TimerOf
  <2>2. ASSUME NEW c \in Living(bs), bs[c].exclusive PROVE B <= c
    <3>1. PICK i \in 1 .. Len(ts) : ts[i] = TimerOf(bs[c])
      BY <1>1 DEF Timed
    <3>2. ts[i].kind = "exclusive" /\ IsOf(ts[i], bs[c])
      BY <2>2, <3>1 DEF TimerOf, IsOf
    <3>3. ~(i < t)
      BY <1>3, <1>5, <3>2
    <3>4. i < t <=> c < B
      BY <1>1, <1>3, <1>4, <3>2 DEF Timed
    <3>. QED  BY <1>5, <3>3, <3>4
  <2>. DEFINE First(b) == bs[b].exclusive /\ \A c \in Living(bs) : bs[c].exclusive => b <= c
  <2>3. First(B)
    BY <2>1, <2>2
  <2>4. \A b \in Living(bs) : First(b) => b = B
    <3>. SUFFICES ASSUME NEW b \in Living(bs), First(b) PROVE b = B
      OBVIOUS
    <3>1. b <= B /\ B <= b
      BY <2>1, <2>2
    <3>. QED  BY <1>5, <3>1
  <2>5. FirstOwned(map) = CHOOSE b \in Living(bs) : First(b)
    BY DEF FirstOwned, Living, Alive
  <2>. HIDE DEF First
  <2>. QED  BY <2>3, <2>4, <2>5
<1>7. n \in Nat /\ \A i \in 1 .. Len(ts) : ts[i].id # n
  BY <1>1, NewTimerIsNew
<1>. HIDE DEF n
<1>. DEFINE x == [bs[B] EXCEPT !.exclusive = FALSE, !.timer = n]
            cs == [bs EXCEPT ![B] = x]
            us == [ts EXCEPT ![t] = TimerOf(x)]
            v == [map EXCEPT !.batches = cs, !.timers = us]
<1>8. /\ x \in Batch /\ x.timer = n /\ x.exclusive = FALSE /\ x.drops = bs[B].drops
      /\ TimerOf(x) = [id |-> n, kind |-> "expire"]
  BY <1>5, <1>7 DEF Batch, TimerOf
<1>9. map' = v
  <2>1. map' = [map EXCEPT !.batches[B].exclusive = FALSE,
                           !.batches[B].timer = n,
                           !.timers[t] = TimerOf(x)]
    BY <1>2, <1>6, <1>8
  <2>. DEFINE x1 == [bs[B] EXCEPT !.exclusive = FALSE]
              c1 == [bs EXCEPT ![B] = x1]
              m1 == [map EXCEPT !.batches = c1]
  <2>2. [map EXCEPT !.batches[B].exclusive = FALSE] = m1
    BY <1>1 DEF Fields
  <2>3. m1.batches = c1 /\ m1.timers = ts /\ m1 \in [batches : {c1}, start : Nat, capacity : Nat \ {0},
          dropping : Seq(Pile), objects : Objects, timers : Seq(Timer)]
    BY <1>1 DEF Fields
  <2>4. c1[B] = x1 /\ [x1 EXCEPT !.timer = n] = x /\ [c1 EXCEPT ![B] = x] = cs
    BY SMTT(30), <1>1, <1>5 DEF Batch
  <2>5. map' = [m1 EXCEPT !.batches[B].timer = n, !.timers[t] = TimerOf(x)]
    <3>. HIDE DEF m1
    <3>. QED  BY <2>1, <2>2
  <2>6. m1.batches[B] = x1
    BY <2>3, <2>4
  <2>. HIDE DEF x1, c1, m1, x
  <2>7. map' = [m1 EXCEPT !.batches = cs, !.timers = us]
    BY <2>3, <2>4, <2>5, <2>6
  <2>8. [m1 EXCEPT !.batches = cs, !.timers = us] = v
    BY <1>1 DEF m1, Fields
  <2>. QED  BY <2>7, <2>8
<1>. HIDE DEF x
<1>10. cs \in Seq(Place) /\ Len(cs) = Len(bs) /\ \A c \in 1 .. Len(bs) : cs[c] = IF c = B THEN x ELSE bs[c]
  BY <1>1, <1>5, <1>8, PutAt DEF Place
<1>11. TimerOf(x) \in Timer /\ x # Nil
  BY <1>8, BatchTypes
<1>12. us \in Seq(Timer) /\ Len(us) = Len(ts) /\ \A i \in 1 .. Len(ts) : us[i] = IF i = t THEN TimerOf(x) ELSE ts[i]
  BY <1>1, <1>3, <1>11, PutAt
<1>. HIDE DEF cs, us
<1>13. /\ v \in Fields /\ v.batches = cs /\ v.timers = us /\ v.start = map.start /\ v.capacity = map.capacity
       /\ v.dropping = map.dropping /\ v.objects = os
  BY <1>1, <1>10, <1>12 DEF Fields
<1>. HIDE DEF v
<1>14. Living(cs) = Living(bs) /\ cs[B] = x
  BY <1>5, <1>10, <1>11 DEF Living
<1>15. Timed(cs, us)
  <2>1. \A c \in Living(bs) : c # B => cs[c] = bs[c]
    BY <1>5, <1>10
  <2>2. \A i \in 1 .. Len(ts) : us[i] = IF i = t THEN TimerOf(cs[B]) ELSE ts[i]
    BY <1>12, <1>14
  <2>3. \A i \in 1 .. Len(ts) : ts[i].id # cs[B].timer
    BY <1>7, <1>8, <1>14
  <2>4. Len(us) = Len(ts) /\ Living(cs) = Living(bs)
    BY <1>12, <1>14
  <2>. HIDE DEF bs, ts
  <2>. QED  BY <1>1, <1>3, <1>4, <2>1, <2>2, <2>3, <2>4, TimedReplaced
<1>16. \A c \in Living(bs) : cs[c].drops = bs[c].drops
  BY <1>5, <1>8, <1>10
<1>17. Lying(cs, os)
  BY SMTT(30), <1>1, <1>14, <1>16 DEF Lying
<1>18. /\ map.start \in Nat /\ Len(bs) <= map.capacity /\ map.start <= Len(bs)
       /\ \A b \in 1 .. map.start : bs[b] = Nil
  BY <1>1 DEF Fitting, Fields
<1>19. \A b \in 1 .. Len(bs) : cs[b] = Nil <=> bs[b] = Nil
  BY <1>14, <1>10, <1>11 DEF Living
<1>20. Fitting(v) /\ AtBatch(v)
  <2>1. \A b \in 1 .. map.start : b \in 1 .. Len(bs)
    BY <1>5, <1>18
  <2>2. Fitting(v)
    BY <1>10, <1>13, <1>18, <1>19, <2>1 DEF Fitting
  <2>3. map.start < Len(bs) => map.start + 1 \in 1 .. Len(bs)
    BY <1>5, <1>18
  <2>4. AtBatch(v)
    BY <1>1, <1>10, <1>13, <1>19, <2>3 DEF AtBatch
  <2>. QED  BY <2>2, <2>4
<1>21. Good(v)
  BY <1>13, <1>15, <1>17, <1>20 DEF Good, Linked
<1>. QED  BY <1>9, <1>21

(* A batch is gone with its drops.                                         *)
Gone(cs, p, bs, os, B) ==
  /\ Living(cs) = Living(bs) \ {B} /\ \A c \in Living(cs) : cs[c] = bs[c]
  /\ DOMAIN p = DOMAIN os \ Range(bs[B].drops)
  /\ \A o \in DOMAIN p : p[o] = os[o]

LEMMA LyingGone ==
  ASSUME NEW bs \in Seq(Place), NEW cs, NEW os, NEW p, Lying(bs, os), NEW B \in Living(bs),
         Gone(cs, p, bs, os, B)
  PROVE  Lying(cs, p) /\ OthersSame(p, os)
<1>0. /\ Living(cs) = Living(bs) \ {B} /\ \A c \in Living(cs) : cs[c] = bs[c]
      /\ DOMAIN p = DOMAIN os \ Range(bs[B].drops)
      /\ \A o \in DOMAIN p : p[o] = os[o]
  BY DEF Gone
<1>1. \A o : o \in Range(bs[B].drops) <=> \E j \in 1 .. Len(bs[B].drops) : bs[B].drops[j] = o
  <2>1. DOMAIN bs[B].drops = 1 .. Len(bs[B].drops)
    <3>1. bs[B].drops \in Seq(Nat)
      BY LivingTypes, BatchTypes
    <3>. QED  BY <3>1, SeqTypes
  <2>. QED  BY <2>1 DEF Range
<1>2. \A o \in Range(bs[B].drops) : \E j : o \in DOMAIN os /\ os[o] = Lies(B, j)
  BY <1>1 DEF Lying
<1>3. ASSUME NEW b \in Living(cs), NEW j \in 1 .. Len(cs[b].drops)
      PROVE  cs[b].drops[j] \in DOMAIN p /\ p[cs[b].drops[j]] = Lies(b, j)
  <2>1. b \in Living(bs) /\ b # B /\ cs[b] = bs[b]
    BY <1>0
  <2>2. bs[b].drops[j] \in DOMAIN os /\ os[bs[b].drops[j]] = Lies(b, j)
    BY <2>1 DEF Lying
  <2>3. bs[b].drops[j] \notin Range(bs[B].drops)
    BY <1>2, <2>1, <2>2, PlacesApart
  <2>. QED  BY <1>0, <2>1, <2>2, <2>3
<1>4. ASSUME NEW o \in DOMAIN p, p[o].type = "drop"
      PROVE  /\ p[o].index \in Living(cs) /\ p[o].index2 \in 1 .. Len(cs[p[o].index].drops)
             /\ cs[p[o].index].drops[p[o].index2] = o
  <2>1. /\ os[o].index \in Living(bs) /\ os[o].index2 \in 1 .. Len(bs[os[o].index].drops)
        /\ bs[os[o].index].drops[os[o].index2] = o
    BY <1>0, <1>4 DEF Lying
  <2>2. os[o].index # B
    BY <1>0, <1>1, <2>1
  <2>. QED  BY <1>0, <2>1, <2>2
<1>5. \A o \in DOMAIN os : os[o].type # "drop" => o \in DOMAIN p /\ p[o] = os[o]
  <2>1. \A o \in Range(bs[B].drops) : os[o].type = "drop"
    BY <1>2, PlacesApart
  <2>. QED  BY <1>0, <2>1
<1>. QED  BY <1>0, <1>3, <1>4, <1>5 DEF Lying, OthersSame

LEMMA ExpiredKeeps ==
  ASSUME Good(map), Expired
  PROVE  Good(map')
<1>. DEFINE bs == map.batches
            ts == map.timers
            os == map.objects
            B == map.start + 1
            S == Range(bs[B].drops)
            w == [map EXCEPT !.timers = Tail(ts)]
            gone == FreeAll(w, S)
            p == gone.objects
            cs == [bs EXCEPT ![B] = Nil]
            u == [gone EXCEPT !.batches[B] = Nil]
<1>1. /\ map \in Fields /\ bs \in Seq(Place) /\ ts \in Seq(Timer) /\ Timed(bs, ts) /\ Fitting(map)
      /\ Lying(bs, os) /\ AtBatch(map) /\ FallingAt(map.dropping, os) /\ Droppers(map.dropping, os)
      /\ Waiting(map.dropping) /\ map.start \in Nat
  BY DEF Good, Linked, Fields
<1>2. ts # <<>> /\ map' = Sweep(u)
  BY DEF Expired
<1>3. /\ Tail(ts) \in Seq(Timer) /\ Len(Tail(ts)) = Len(ts) - 1 /\ Len(ts) \in Nat \ {0}
      /\ \A j \in 1 .. Len(ts) - 1 : Tail(ts)[j] = ts[j + 1]
  BY <1>1, <1>2, TailIs
<1>4. Len(bs) \in Nat /\ Living(bs) \subseteq 1 .. Len(bs)
  BY <1>1, LivingTypes
<1>5. PICK c \in Living(bs) : IsOf(ts[1], bs[c])
  <2>1. 1 \in 1 .. Len(ts)
    BY <1>3
  <2>. QED  BY <1>1, <2>1 DEF Timed
<1>6. B \in Living(bs) /\ B <= c
  <2>1. c > map.start /\ c \in Nat
    BY <1>1, <1>4 DEF Living, Fitting
  <2>2. map.start < Len(bs) /\ B \in 1 .. Len(bs)
    BY <1>1, <1>4, <2>1
  <2>. QED  BY <1>1, <2>1, <2>2 DEF AtBatch, Living
<1>. HIDE DEF B
<1>7. IsOf(ts[1], bs[B])
  <2>1. PICK i \in 1 .. Len(ts) : ts[i] = TimerOf(bs[B])
    BY <1>1, <1>6 DEF Timed
  <2>2. IsOf(ts[i], bs[B])
    BY <2>1 DEF IsOf, TimerOf
  <2>0. 1 \in 1 .. Len(ts)
    BY <1>3
  <2>3. i < 1 <=> B < c
    BY <1>1, <1>5, <1>6, <2>0, <2>2 DEF Timed
  <2>4. B = c
    BY <1>3, <1>4, <1>6, <2>3
  <2>. QED  BY <1>5, <2>4
<1>8. w \in Fields /\ w.objects = os /\ w.batches = bs /\ w.start = map.start /\ w.capacity = map.capacity
      /\ w.dropping = map.dropping /\ w.timers = Tail(ts)
  <2>. HIDE DEF ts
  <2>. QED  BY <1>1, <1>3 DEF Fields
<1>. HIDE DEF w, S
<1>9. /\ gone \in Fields
      /\ gone = [w EXCEPT !.objects = gone.objects]
      /\ DOMAIN p = DOMAIN os \ S
      /\ \A o \in DOMAIN os \ S : p[o] = os[o]
  BY <1>8, FreeAllIs
<1>. HIDE DEF gone
<1>10. gone.batches = bs /\ gone.start = map.start /\ gone.capacity = map.capacity
       /\ gone.dropping = map.dropping /\ gone.timers = Tail(ts)
  BY <1>8, <1>9 DEF Fields
<1>11. cs \in Seq(Place) /\ Len(cs) = Len(bs) /\ \A b \in 1 .. Len(bs) : cs[b] = IF b = B THEN Nil ELSE bs[b]
  BY <1>1, <1>4, <1>6, PutAt DEF Place
<1>12. u = [gone EXCEPT !.batches = cs]
  BY <1>9, <1>10 DEF Fields
<1>. HIDE DEF cs, p
<1>13. u \in Fields /\ u.batches = cs /\ u.start = map.start /\ u.capacity = map.capacity
       /\ u.dropping = map.dropping /\ u.timers = Tail(ts) /\ u.objects = gone.objects
  BY <1>9, <1>10, <1>11, <1>12 DEF Fields
<1>. HIDE DEF u
<1>14. Living(cs) = Living(bs) \ {B} /\ \A b \in Living(cs) : cs[b] = bs[b]
  BY <1>11 DEF Living
<1>15. Lying(cs, p) /\ OthersSame(p, os)
  <2>1. /\ DOMAIN p = DOMAIN os \ Range(bs[B].drops)
        /\ \A o \in DOMAIN p : p[o] = os[o]
    BY <1>9 DEF S, p
  <2>2. Gone(cs, p, bs, os, B)
    BY <1>14, <2>1 DEF Gone
  <2>. QED  BY <1>1, <1>6, <2>2, LyingGone
<1>16. Timed(cs, Tail(ts))
  <2>1. 1 \in 1 .. Len(ts) /\ \A i \in 1 .. Len(ts) - 1 : Tail(ts)[i] = IF i < 1 THEN ts[i] ELSE ts[i + 1]
    BY <1>3
  <2>. QED  BY <1>1, <1>3, <1>6, <1>7, <1>14, <2>1, TimedRemoved
<1>17. Agree(p, os, "dropping") /\ Agree(p, os, "monster") /\ Agree(p, os, "reactor")
  BY <1>15 DEF Agree, OthersSame
<1>18. FallingAt(u.dropping, p) /\ Droppers(u.dropping, p)
  BY <1>1, <1>13, <1>17, FallingAgrees, DroppersAgree
<1>19. Fitting(u)
  <2>1. /\ Len(bs) <= map.capacity /\ map.start <= Len(bs) /\ \A b \in 1 .. map.start : bs[b] = Nil
    BY <1>1 DEF Fitting
  <2>2. \A b \in 1 .. map.start : b \in 1 .. Len(bs)
    BY <1>1, <1>4, <2>1
  <2>. QED  BY <1>11, <1>13, <2>1, <2>2 DEF Fitting
<1>20. Linked(u)
  BY <1>13, <1>15, <1>16, <1>18, <1>19 DEF Linked, p
<1>21. Sweeping(Sweep(u), u) /\ AtBatch(Sweep(u))
  BY <1>20, Swept
<1>. QED  BY <1>1, <1>2, <1>13, <1>21 DEF Good, Sweeping, u

-----------------------------------------------------------------------------
(* The invariant.                                                          *)

LEMMA InitGood == Init => Good(map)
<1>. SUFFICES ASSUME Init PROVE Good(map)
  OBVIOUS
<1>. DEFINE os == [o \in {ReactorOid} |-> [type |-> "reactor", index |-> 1, index2 |-> 1]]
<1>1. map = [batches |-> <<>>, start |-> 0, capacity |-> 1, dropping |-> <<>>, objects |-> os, timers |-> <<>>]
  BY DEF Init
<1>2. DOMAIN os = {ReactorOid} /\ os[ReactorOid] = [type |-> "reactor", index |-> 1, index2 |-> 1]
  OBVIOUS
<1>3. os = [o \in DOMAIN os |-> os[o]]
  OBVIOUS
<1>. HIDE DEF os
<1>4. os \in Objects
  <2>1. {ReactorOid} \in SUBSET Nat /\ IsFiniteSet({ReactorOid})
    BY FS_Singleton DEF ReactorOid
  <2>2. os[ReactorOid] \in Object
    BY <1>2 DEF Object
  <2>. QED  BY <1>2, <1>3, <2>1, <2>2, ObjectsIs
<1>5. /\ map.batches = <<>> /\ map.start = 0 /\ map.capacity = 1 /\ map.dropping = <<>>
      /\ map.objects = os /\ map.timers = <<>>
  BY <1>1
<1>6. map \in Fields
  BY <1>1, <1>4 DEF Fields
<1>7. Len(<<>>) = 0 /\ 1 .. 0 = {}
  OBVIOUS
<1>8. Living(<<>>) = {}
  BY <1>7 DEF Living
<1>9. os[ReactorOid].type = "reactor"
  BY <1>2
<1>10. Lying(map.batches, map.objects)
  BY <1>2, <1>5, <1>8, <1>9 DEF Lying
<1>11. FallingAt(map.dropping, map.objects)
  BY <1>2, <1>5, <1>7, <1>9 DEF FallingAt
<1>12. Droppers(map.dropping, map.objects)
  BY <1>2, <1>5, <1>7, <1>9 DEF Droppers
<1>13. Timed(map.batches, map.timers)
  BY <1>5, <1>7, <1>8 DEF Timed
<1>14. Fitting(map) /\ Waiting(map.dropping) /\ AtBatch(map)
  BY <1>5, <1>7 DEF Fitting, Waiting, AtBatch
<1>. QED  BY <1>6, <1>10, <1>11, <1>12, <1>13, <1>14 DEF Good, Linked

LEMMA NextGood == Good(map) /\ [Next]_vars => Good(map')
<1>. SUFFICES ASSUME Good(map), [Next]_vars PROVE Good(map')
  OBVIOUS
<1>1. ASSUME NEW p \in Player, NEW n \in DropCount, HitReactor(p, n) PROVE Good(map')
  <2>1. n \in Nat /\ ReactorOid \in Nat
    BY DropCountAssumption DEF ReactorOid
  <2>2. map' \in DropBatch(map, p, ReactorOid, n)
    BY <1>1 DEF HitReactor, ReactorDrops
  <2>. QED  BY <2>1, <2>2, BatchDropped
<1>2. ASSUME NEW p \in Player, NEW n \in DropCount, NEW oid \in DOMAIN map.objects, Slay(p, oid, n)
      PROVE  Good(map')
  BY <1>2, DropCountAssumption, SlayKeeps
<1>3. ASSUME NEW p \in Player, PlayerDrop(p) PROVE Good(map')
  <2>1. map' = AddDrop(map, p, FALSE)
    BY <1>3 DEF PlayerDrop
  <2>. QED  BY <2>1, DropAdded
<1>4. ASSUME NEW p \in Player, NEW oid \in DOMAIN map.objects, PickUp(p, oid) PROVE Good(map')
  BY <1>4, DropRemoved DEF PickUp
<1>5. ASSUME NEW oid \in DOMAIN map.objects, SlayPoor(oid) PROVE Good(map')
  BY <1>5, MonsterKilled DEF SlayPoor, Falling
<1>6. ASSUME NEW b \in 1 .. Len(map.dropping), NextDrop(b) PROVE Good(map')
  BY <1>6, NextDropKeeps
<1>7. ASSUME Respawn PROVE Good(map')
  <2>1. [type |-> "monster", index |-> 1, index2 |-> 1] \in Object
    BY DEF Object
  <2>2. map' = Allocate(map, [type |-> "monster", index |-> 1, index2 |-> 1])
    BY <1>7 DEF Respawn
  <2>. QED  BY <2>1, <2>2, OtherAllocated
<1>8. CASE UNCHANGED map
  BY <1>8
<1>9. CASE RespawnReactor
  BY <1>9 DEF RespawnReactor
<1>10. CASE UNCHANGED vars
  BY <1>10 DEF vars
<1>. QED  BY <1>1, <1>2, <1>3, <1>4, <1>5, <1>6, <1>7, <1>9, <1>10, ExclusiveOverKeeps, ExpiredKeeps DEF Next

(* What every handler keeps of the drops and their timers.                 *)
Inv == Good(map)

LEMMA AlwaysGood == Spec => []Inv
<1>1. Init => Inv
  BY InitGood DEF Inv
<1>2. Inv /\ [Next]_vars => Inv'
  BY NextGood DEF Inv
<1>. QED  BY <1>1, <1>2, PTL DEF Spec

(* The ids of the drops lead to where they are, in every step of a batch   *)
(* from the first drop that falls to the last that is taken or expires.    *)
THEOREM DropsFound == Spec => []DropsLead
<1>1. Inv => DropsLead
  <2>. SUFFICES ASSUME Good(map) PROVE DropsLead
    BY DEF Inv
  <2>1. /\ map \in Fields /\ map.batches \in Seq(Place) /\ map.dropping \in Seq(Pile)
        /\ Lying(map.batches, map.objects) /\ FallingAt(map.dropping, map.objects)
        /\ Droppers(map.dropping, map.objects) /\ Fitting(map) /\ Waiting(map.dropping)
    BY DEF Good, Linked, Fields
  <2>2. Alive(map) = Living(map.batches)
    BY DEF Alive, Living
  <2>3. \A b \in Alive(map) : \A j \in 1 .. Len(map.batches[b].drops) :
          map.batches[b].drops[j] \in DOMAIN map.objects /\ map.objects[map.batches[b].drops[j]] = Lies(b, j)
    BY <2>1, <2>2 DEF Lying
  <2>4. ASSUME NEW b \in 1 .. Len(map.dropping)
        PROVE  /\ \A j \in 1 .. map.dropping[b].current :
                    map.dropping[b].drops[j] \in DOMAIN map.objects /\ map.objects[map.dropping[b].drops[j]] = Falls(b, j)
               /\ map.dropping[b].current < Len(map.dropping[b].drops)
               /\ map.dropping[b].dropper \in DOMAIN map.objects
               /\ map.objects[map.dropping[b].dropper].type \in {"monster", "reactor"}
    BY <2>1 DEF FallingAt, Falls1, Waiting, Droppers
  <2>5. ASSUME NEW o \in DOMAIN map.objects, map.objects[o].type = "drop"
        PROVE  \E b \in Alive(map) : o \in Range(map.batches[b].drops)
    <3>1. PICK b \in Living(map.batches) : \E j \in 1 .. Len(map.batches[b].drops) : map.batches[b].drops[j] = o
      BY <2>1, <2>5 DEF Lying
    <3>2. DOMAIN map.batches[b].drops = 1 .. Len(map.batches[b].drops)
      <4>1. map.batches[b].drops \in Seq(Nat)
        BY <2>1, LivingTypes, BatchTypes
      <4>. QED  BY <4>1, SeqTypes
    <3>. QED  BY <2>2, <3>1, <3>2 DEF Range
  <2>6. ASSUME NEW o \in DOMAIN map.objects, map.objects[o].type = "dropping"
        PROVE  \E b \in 1 .. Len(map.dropping) : o \in Range(map.dropping[b].drops)
    <3>1. PICK b \in 1 .. Len(map.dropping) : \E j \in 1 .. map.dropping[b].current : map.dropping[b].drops[j] = o
      BY <2>1, <2>6 DEF FallingAt
    <3>2. PICK j \in 1 .. map.dropping[b].current : map.dropping[b].drops[j] = o
      BY <3>1
    <3>3. DOMAIN map.dropping[b].drops = 1 .. Len(map.dropping[b].drops) /\ j \in 1 .. Len(map.dropping[b].drops)
      <4>1. map.dropping[b].drops \in Seq(Nat \cup {NoOid}) /\ map.dropping[b].current \in Nat
            /\ Len(map.dropping[b].drops) \in Nat
        BY <2>1, PileTypes
      <4>2. map.dropping[b].current < Len(map.dropping[b].drops)
        BY <2>4
      <4>. QED  BY <4>1, <4>2, SeqTypes
    <3>. QED  BY <3>2, <3>3 DEF Range
  <2>7. Len(map.batches) <= map.capacity
    BY <2>1 DEF Fitting
  <2>. QED  BY <2>3, <2>4, <2>5, <2>6, <2>7 DEF DropsLead
<1>. QED  BY <1>1, AlwaysGood, PTL

(* A timer's handler takes the batch the timer was started for, and the    *)
(* timer map_remove_drop stops still runs.                                 *)
THEOREM TimersKept == Spec => []TimersMatch
<1>1. Inv => TimersMatch
  <2>. SUFFICES ASSUME Good(map) PROVE TimersMatch
    BY DEF Inv
  <2>1. Timed(map.batches, map.timers) /\ AtBatch(map)
    BY DEF Good, Linked
  <2>2. Alive(map) = Living(map.batches)
    BY DEF Alive, Living
  <2>. DEFINE alive == Alive(map)
              ts == 1 .. Len(map.timers)
  <2>3. \A b \in alive : \E i \in ts : map.timers[i] = TimerOf(map.batches[b])
    BY <2>1, <2>2 DEF Timed
  <2>4. \A i \in ts : \E b \in alive : IsOf(map.timers[i], map.batches[b])
    BY <2>1, <2>2 DEF Timed
  <2>5. \A i \in ts : \A b \in alive : IsOf(map.timers[i], map.batches[b]) =>
          \A j \in ts : \A c \in alive : IsOf(map.timers[j], map.batches[c]) => (i < j <=> b < c)
    <3>. SUFFICES ASSUME NEW i \in ts, NEW b \in alive, IsOf(map.timers[i], map.batches[b]),
                         NEW j \in ts, NEW c \in alive, IsOf(map.timers[j], map.batches[c])
                  PROVE  i < j <=> b < c
      OBVIOUS
    <3>1. b \in Living(map.batches) /\ c \in Living(map.batches)
      BY <2>2
    <3>. QED  BY <2>1, <3>1 DEF Timed
  <2>6. map.start < Len(map.batches) => map.batches[map.start + 1] # Nil
    BY <2>1 DEF AtBatch
  <2>. QED  BY <2>3, <2>4, <2>5, <2>6 DEF TimersMatch
<1>. QED  BY <1>1, AlwaysGood, PTL
=============================================================================
