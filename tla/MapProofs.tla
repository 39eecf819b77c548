------------------------------ MODULE MapProofs ------------------------------
(***************************************************************************)
(* Proofs about the map: its monsters and their controllers (MapMonsters). *)
(***************************************************************************)
EXTENDS MapMonsters, FiniteSetTheorems, SequenceTheorems, WellFoundedInduction, TLAPS

-----------------------------------------------------------------------------
(* Loops: a function from the number of a turn to the state after it.      *)

(* A nonempty set of naturals has a least element. *)
LEMMA LeastNatural ==
  ASSUME NEW T \in SUBSET Nat, T # {}
  PROVE  \E z \in T : \A y \in T : z <= y
<1>1. PICK x \in T : \A y \in T : ~(<<y, x>> \in OpToRel(<, Nat))
  BY WFMin, NatLessThanWellFounded
<1>2. \A y \in T : ~(y < x)
  BY <1>1 DEF OpToRel
<1>. QED  BY <1>2

(* What holds before the first turn and is kept by each holds after the last. *)
LEMMA TurnByTurn ==
  ASSUME NEW N \in Nat, NEW T, 0 \in T,
         \A n \in 1..N : n - 1 \in T => n \in T
  PROVE  \A n \in 0..N : n \in T
<1>. DEFINE Bad == {n \in 0..N : n \notin T}
<1>. SUFFICES ASSUME Bad # {} PROVE FALSE
  OBVIOUS
<1>1. PICK z \in Bad : \A y \in Bad : z <= y
  <2>1. Bad \in SUBSET Nat
    OBVIOUS
  <2>. HIDE DEF Bad
  <2>. QED  BY <2>1, LeastNatural
<1>2. z \in 1..N
  BY <1>1
<1>3. z - 1 \notin Bad /\ z - 1 \in 0..N
  BY <1>1, <1>2
<1>. QED  BY <1>1, <1>2, <1>3

(* A loop of N turns over states of W that begins in b: what turn n makes  *)
(* of a state x is t[<<x, n>>], and f[n] is the state after n turns.       *)
IsLoop(t, W, N) == t \in [W \X (1..N) -> W]
IsRun(f, t, W, N, b) ==
  f \in [0..N -> W] /\ f[0] = b /\ \A n \in 1..N : f[n] = t[<<f[n - 1], n>>]

LEMMA LoopRuns ==
  ASSUME NEW N \in Nat, NEW W, NEW b \in W, NEW t, IsLoop(t, W, N)
  PROVE  \E f : IsRun(f, t, W, N, b)
<1>. DEFINE Runs(f, k) == f[0] = b /\ \A n \in 1..k : f[n] = t[<<f[n - 1], n>>]
            T == {k \in 0..N : \E f \in [0..k -> W] : Runs(f, k)}
<1>1. 0 \in T
  <2>1. [n \in 0..0 |-> b] \in [0..0 -> W] /\ Runs([n \in 0..0 |-> b], 0)
    OBVIOUS
  <2>2. \E f \in [0..0 -> W] : Runs(f, 0)
    <3>. HIDE DEF Runs
    <3>. QED  BY <2>1
  <2>. QED  BY <2>2
<1>2. ASSUME NEW k \in 1..N, k - 1 \in T
      PROVE  k \in T
  <2>1. PICK f \in [0..(k - 1) -> W] : Runs(f, k - 1)
    BY <1>2
  <2>. DEFINE g == [n \in 0..k |-> IF n = k THEN t[<<f[k - 1], k>>] ELSE f[n]]
  <2>2. f[k - 1] \in W /\ t[<<f[k - 1], k>>] \in W
    BY <2>1 DEF IsLoop
  <2>3. g \in [0..k -> W]
    BY <2>2
  <2>4. Runs(g, k)
    <3>1. g[0] = b
      BY <2>1
    <3>2. ASSUME NEW n \in 1..k PROVE g[n] = t[<<g[n - 1], n>>]
      <4>1. CASE n = k
        <5>1. g[n] = t[<<f[k - 1], k>>] /\ g[n - 1] = f[k - 1]
          BY <4>1
        <5>. QED  BY <4>1, <5>1
      <4>2. CASE n # k
        <5>1. n \in 1..(k - 1) /\ g[n] = f[n] /\ g[n - 1] = f[n - 1]
          BY <4>2
        <5>. QED  BY <5>1, <2>1
      <4>. QED  BY <4>1, <4>2
    <3>. QED  BY <3>1, <3>2
  <2>5. \E h \in [0..k -> W] : Runs(h, k)
    <3>. HIDE DEF g, Runs
    <3>. QED  BY <2>3, <2>4
  <2>. QED  BY <2>5
<1>. HIDE DEF T
<1>3. N \in T
  BY <1>1, <1>2, TurnByTurn
<1>. QED  BY <1>3 DEF T, IsRun

-----------------------------------------------------------------------------
(* Sequences whose elements are replaced and moved.                        *)

LEMMA PutAt ==
  ASSUME NEW S, NEW s \in Seq(S), NEW i \in Slots(s), NEW e \in S
  PROVE  /\ [s EXCEPT ![i] = e] \in Seq(S)
         /\ Len([s EXCEPT ![i] = e]) = Len(s)
         /\ \A j \in Slots(s) : [s EXCEPT ![i] = e][j] = IF j = i THEN e ELSE s[j]
BY ExceptSeq DEF Slots

(* Element i is replaced. *)
Put(s, i, e) == [s EXCEPT ![i] = e]

LEMMA PutIn ==
  ASSUME NEW S, NEW s \in Seq(S), NEW i \in Slots(s), NEW e \in S
  PROVE  /\ Put(s, i, e) \in Seq(S) /\ Len(Put(s, i, e)) = Len(s) /\ Slots(Put(s, i, e)) = Slots(s)
         /\ \A j \in Slots(s) : Put(s, i, e)[j] = IF j = i THEN e ELSE s[j]
BY PutAt DEF Slots, Put

(* The last element fills the hole at i. *)
FillHole(s, i) == SubSeq([s EXCEPT ![i] = s[Len(s)]], 1, Len(s) - 1)

LEMMA HoleFilled ==
  ASSUME NEW S, NEW s \in Seq(S), NEW i \in Slots(s)
  PROVE  /\ FillHole(s, i) \in Seq(S) /\ Len(FillHole(s, i)) = Len(s) - 1
         /\ Len(s) \in Nat \ {0}
         /\ \A j \in 1..(Len(s) - 1) : FillHole(s, i)[j] = IF j = i THEN s[Len(s)] ELSE s[j]
<1>. DEFINE r == FillHole(s, i)
            q == [s EXCEPT ![i] = s[Len(s)]]
<1>1. Len(s) \in Nat /\ Len(s) \in Slots(s) /\ s[Len(s)] \in S
  <2>1. Len(s) \in Nat /\ i \in 1..Len(s)
    BY LenProperties DEF Slots
  <2>2. Len(s) \in 1..Len(s)
    BY <2>1
  <2>. QED  BY <2>1, <2>2, ElementOfSeq DEF Slots
<1>2. q \in Seq(S) /\ Len(q) = Len(s) /\ \A j \in Slots(s) : q[j] = IF j = i THEN s[Len(s)] ELSE s[j]
  BY <1>1, PutAt
<1>. HIDE DEF q
<1>3. \A j \in 1..(Len(s) - 1) : q[j] \in S /\ q[j] = IF j = i THEN s[Len(s)] ELSE s[j]
  BY <1>1, <1>2, ElementOfSeq DEF Slots
<1>4. r = SubSeq(q, 1, Len(s) - 1)
  BY DEF q, FillHole
<1>. HIDE DEF r
<1>5. r \in Seq(S) /\ Len(r) = (IF 1 <= Len(s) - 1 THEN Len(s) - 1 - 1 + 1 ELSE 0)
      /\ \A j \in 1..(Len(s) - 1 - 1 + 1) : r[j] = q[1 + j - 1]
  <2>1. 1 \in Int /\ Len(s) - 1 \in Int
    BY <1>1
  <2>. QED  BY <1>3, <1>4, <2>1, SubSeqProperties
<1>6. Len(s) \in Nat \ {0}
  BY <1>1 DEF Slots
<1>7. Len(r) = Len(s) - 1
  <2>1. PICK n \in Nat \ {0} : n = Len(s)
    BY <1>6
  <2>2. Len(r) = IF 1 <= n - 1 THEN n - 1 - 1 + 1 ELSE 0
    BY <1>5, <2>1
  <2>. QED  BY <2>1, <2>2
<1>8. \A j \in 1..(Len(s) - 1) : r[j] = q[j]
  BY <1>1, <1>5
<1>. QED  BY <1>3, <1>5, <1>6, <1>7, <1>8 DEF r

-----------------------------------------------------------------------------
(* The heap: sifting keeps the nodes and puts them in order.               *)

Node == [who : Player, count : 0..(MaxControllees + SpawnerCount + MaxSpawns), slot : Nat]

WhoDistinct(h) == \A i, j \in Slots(h) : h[i].who = h[j].who => i = j

(* The heaps with the nodes of h in any order. *)
Shuffles(h) ==
  {g \in Seq(Node) : /\ Len(g) = Len(h) /\ WhoDistinct(g)
                     /\ \A i \in Slots(h) : \E j \in Slots(g) : g[j] = h[i]
                     /\ \A j \in Slots(g) : \E i \in Slots(h) : g[j] = h[i]}

(* No node but perhaps a's children lies below one with more monsters. *)
OrderedButBelow(g, a) ==
  /\ \A j \in Slots(g) : j > 1 /\ j \div 2 # a => g[j \div 2].count <= g[j].count
  /\ \A j \in Slots(g) : j \div 2 = a /\ a > 1 => g[a \div 2].count <= g[j].count

(* No node but perhaps a itself lies below one with more monsters. *)
OrderedButAt(g, a) ==
  /\ \A j \in Slots(g) : j > 1 /\ j # a => g[j \div 2].count <= g[j].count
  /\ \A j \in Slots(g) : j \div 2 = a /\ a > 1 => g[a \div 2].count <= g[j].count

Ordered(g) == \A j \in Slots(g) : j > 1 => g[j \div 2].count <= g[j].count

LEMMA Halves ==
  \A j \in Nat : /\ j \div 2 \in Nat
                 /\ j = 2 * (j \div 2) \/ j = 2 * (j \div 2) + 1
                 /\ j > 1 => j \div 2 \in 1..(j - 1)
OBVIOUS

LEMMA HalfOf ==
  \A j, a \in Nat : j \div 2 = a <=> j = 2 * a \/ j = 2 * a + 1
OBVIOUS

LEMMA CountTypes == \A n \in Node : n.count \in Nat /\ n.who \in Player /\ n.slot \in Nat
BY SpawnerAssumption, BoundsAssumption DEF Node

LEMMA SwapShuffles ==
  ASSUME NEW h, NEW g \in Shuffles(h), NEW i \in Slots(g), NEW j \in Slots(g)
  PROVE  /\ Swap(g, i, j) \in Shuffles(h)
         /\ \A k \in Slots(g) : Swap(g, i, j)[k] = IF k = j THEN g[i] ELSE IF k = i THEN g[j] ELSE g[k]
         /\ Slots(Swap(g, i, j)) = Slots(g)
<1>. DEFINE s == Swap(g, i, j)
<1>1. g \in Seq(Node) /\ Len(g) = Len(h) /\ WhoDistinct(g)
      /\ (\A k \in Slots(h) : \E l \in Slots(g) : g[l] = h[k])
      /\ (\A l \in Slots(g) : \E k \in Slots(h) : g[l] = h[k])
  BY DEF Shuffles
<1>2. s \in Seq(Node) /\ Len(s) = Len(g)
      /\ \A k \in Slots(g) : s[k] = IF k = j THEN g[i] ELSE IF k = i THEN g[j] ELSE g[k]
  <2>1. g[i] \in Node /\ g[j] \in Node
    BY <1>1, ElementOfSeq DEF Slots
  <2>. DEFINE r == [g EXCEPT ![i] = g[j]]
  <2>2. r \in Seq(Node) /\ Len(r) = Len(g) /\ \A k \in Slots(g) : r[k] = IF k = i THEN g[j] ELSE g[k]
    BY <1>1, <2>1, PutAt
  <2>3. s = [r EXCEPT ![j] = g[i]]
    BY DEF Swap
  <2>. HIDE DEF r, s
  <2>4. s \in Seq(Node) /\ Len(s) = Len(r) /\ \A k \in Slots(g) : s[k] = IF k = j THEN g[i] ELSE r[k]
    <3>1. j \in Slots(r)
      BY <2>2 DEF Slots
    <3>. QED  BY <2>1, <2>2, <2>3, <3>1, PutAt DEF Slots
  <2>. QED  BY <2>2, <2>4
<1>3. Slots(s) = Slots(g)
  BY <1>2 DEF Slots
<1>. HIDE DEF s
<1>4. WhoDistinct(s)
  BY <1>1, <1>2, <1>3 DEF WhoDistinct
<1>5. \A k \in Slots(h) : \E l \in Slots(s) : s[l] = h[k]
  <2>. TAKE k \in Slots(h)
  <2>1. PICK l \in Slots(g) : g[l] = h[k]
    BY <1>1
  <2>2. s[IF l = j THEN i ELSE IF l = i THEN j ELSE l] = g[l]
    BY <1>2
  <2>. QED  BY <2>1, <2>2, <1>3
<1>6. \A l \in Slots(s) : \E k \in Slots(h) : s[l] = h[k]
  <2>. TAKE l \in Slots(s)
  <2>1. PICK q \in Slots(g) : s[l] = g[q]
    BY <1>2, <1>3
  <2>. QED  BY <1>1, <2>1
<1>7. s \in Shuffles(h)
  BY <1>1, <1>2, <1>4, <1>5, <1>6 DEF Shuffles
<1>. QED  BY <1>2, <1>3, <1>7 DEF s

LEMMA SinkOnceKeeps ==
  ASSUME NEW h, NEW g \in Shuffles(h), NEW a \in Slots(g), OrderedButBelow(g, a)
  PROVE  LET x == SinkOnce([heap |-> g, at |-> a])
         IN  /\ x.heap \in Shuffles(h) /\ x.at \in Slots(x.heap) /\ OrderedButBelow(x.heap, x.at)
             /\ x = [heap |-> x.heap, at |-> x.at]
             /\ (Lighter(g, a) = {} /\ x.heap = g /\ x.at = a) \/ x.at > a
<1>. DEFINE st == [heap |-> g, at |-> a]
<1>0. g \in Seq(Node) /\ Slots(g) \subseteq Nat \ {0} /\ \A k \in Slots(g) : g[k].count \in Nat
  <2>1. g \in Seq(Node)
    BY DEF Shuffles
  <2>. QED  BY <2>1, CountTypes, ElementOfSeq DEF Slots
<1>1. CASE Lighter(g, a) = {}
  BY <1>1 DEF SinkOnce
<1>2. CASE Lighter(g, a) # {}
  <2>. DEFINE c == CHOOSE d \in Lighter(g, a) : TRUE
              s == Swap(g, a, c)
  <2>1. c \in Lighter(g, a)
    BY <1>2
  <2>2. SinkOnce(st) = [heap |-> s, at |-> c]
    BY <1>2 DEF SinkOnce
  <2>3. c \in Slots(g) /\ (c = 2 * a \/ c = 2 * a + 1) /\ g[c].count < g[a].count
        /\ \A d \in {2 * a, 2 * a + 1} \cap Slots(g) : g[c].count <= g[d].count
    <3>1. c \in {2 * a, 2 * a + 1} /\ c \in Slots(g) /\ g[c].count < g[a].count
      BY <2>1 DEF Lighter
    <3>2. ASSUME NEW d \in {2 * a, 2 * a + 1} \cap Slots(g)
          PROVE  g[c].count <= g[d].count
      <4>1. g[c].count < g[d].count \/ (g[c].count = g[d].count /\ d <= c)
        BY <2>1 DEF Lighter
      <4>. QED  BY <4>1, <3>1, <1>0
    <3>. QED  BY <3>1, <3>2
  <2>. HIDE DEF c
  <2>4. /\ s \in Shuffles(h) /\ Slots(s) = Slots(g)
        /\ \A k \in Slots(g) : s[k] = IF k = c THEN g[a] ELSE IF k = a THEN g[c] ELSE g[k]
    BY <2>3, SwapShuffles
  <2>. HIDE DEF s
  <2>5. c > a /\ c \div 2 = a /\ a \in Nat /\ c \in Nat
    BY <2>3, <1>0, HalfOf
  <2>6. ASSUME NEW j \in Slots(s), j > 1, j \div 2 # c
        PROVE  s[j \div 2].count <= s[j].count
    <3>1. j \in Nat /\ j \div 2 \in Slots(g)
      <4>1. j \in Nat /\ j \in Slots(g)
        BY <1>0, <2>4
      <4>. QED  BY <2>6, <4>1, Halves DEF Slots
    <3>2. CASE j \div 2 = a
      <4>1. j \in {2 * a, 2 * a + 1} \cap Slots(g) /\ j # a
        <5>1. j = 2 * a \/ j = 2 * a + 1
          BY <3>2, <3>1, <2>5, HalfOf
        <5>. QED  BY <5>1, <3>1, <2>4, <2>5, <1>0
      <4>2. s[j \div 2] = g[c]
        BY <3>2, <2>4, <2>5, <3>1
      <4>3. CASE j = c
        BY <4>2, <4>3, <2>3, <2>4, <1>0
      <4>4. CASE j # c
        BY <4>1, <4>2, <4>4, <2>3, <2>4
      <4>. QED  BY <4>3, <4>4
    <3>3. CASE j \div 2 # a
      <4>1. j # c /\ s[j \div 2] = g[j \div 2]
        BY <3>3, <2>4, <2>5, <3>1, <2>6
      <4>2. CASE j = a
        <5>1. s[j] = g[c]
          BY <4>2, <2>4, <2>5
        <5>. QED  BY <4>1, <4>2, <5>1, <2>3, <2>5, <2>6 DEF OrderedButBelow
      <4>3. CASE j # a
        <5>1. s[j] = g[j]
          BY <4>1, <4>3, <2>4
        <5>. QED  BY <4>1, <5>1, <3>3, <2>4, <2>6 DEF OrderedButBelow
      <4>. QED  BY <4>2, <4>3
    <3>. QED  BY <3>2, <3>3
  <2>7. ASSUME NEW j \in Slots(s), j \div 2 = c, c > 1
        PROVE  s[c \div 2].count <= s[j].count
    <3>1. j \in Nat /\ j # c /\ j # a /\ j > 1 /\ j \in Slots(g)
      <4>1. j \in Nat /\ j \in Slots(g)
        BY <1>0, <2>4
      <4>. QED  BY <4>1, <2>7, <2>5, HalfOf
    <3>2. s[j] = g[j] /\ s[c \div 2] = g[c]
      BY <3>1, <2>4, <2>5
    <3>. QED  BY <3>1, <3>2, <2>7, <2>5 DEF OrderedButBelow
  <2>8. OrderedButBelow(s, c)
    BY <2>6, <2>7 DEF OrderedButBelow
  <2>. QED  BY <2>2, <2>3, <2>4, <2>5, <2>8
<1>. QED  BY <1>1, <1>2

LEMMA RiseOnceKeeps ==
  ASSUME NEW h, NEW g \in Shuffles(h), NEW a \in Slots(g), OrderedButAt(g, a)
  PROVE  LET x == RiseOnce([heap |-> g, at |-> a])
         IN  /\ x.heap \in Shuffles(h) /\ x.at \in Slots(x.heap) /\ OrderedButAt(x.heap, x.at)
             /\ x = [heap |-> x.heap, at |-> x.at]
             /\ (Ordered(g) /\ x.heap = g /\ x.at = a) \/ x.at < a
<1>. DEFINE st == [heap |-> g, at |-> a]
            b == a \div 2
<1>0. g \in Seq(Node) /\ Slots(g) \subseteq Nat \ {0} /\ \A k \in Slots(g) : g[k].count \in Nat
  <2>1. g \in Seq(Node)
    BY DEF Shuffles
  <2>. QED  BY <2>1, CountTypes, ElementOfSeq DEF Slots
<1>1. CASE ~(a > 1 /\ g[b].count > g[a].count)
  <2>1. RiseOnce(st) = st
    BY <1>1 DEF RiseOnce
  <2>2. a > 1 => b \in Slots(g)
    BY <1>0, Halves DEF Slots
  <2>3. a > 1 => g[b].count <= g[a].count
    BY <1>0, <1>1, <2>2
  <2>4. Ordered(g)
    BY <2>3 DEF OrderedButAt, Ordered
  <2>. QED  BY <2>1, <2>4
<1>2. CASE a > 1 /\ g[b].count > g[a].count
  <2>. DEFINE s == Swap(g, b, a)
  <2>1. RiseOnce(st) = [heap |-> s, at |-> b]
    BY <1>2 DEF RiseOnce
  <2>2. b \in Slots(g) /\ b < a /\ a \in Nat /\ b \in Nat /\ b # a
    BY <1>0, <1>2, Halves DEF Slots
  <2>3. /\ s \in Shuffles(h) /\ Slots(s) = Slots(g)
        /\ \A k \in Slots(g) : s[k] = IF k = a THEN g[b] ELSE IF k = b THEN g[a] ELSE g[k]
    BY SMTT(30), <2>2, SwapShuffles
  <2>. HIDE DEF s
  <2>4. ASSUME NEW j \in Slots(s), j > 1, j # b
        PROVE  s[j \div 2].count <= s[j].count
    <3>1. j \in Nat /\ j \in Slots(g) /\ j \div 2 \in Slots(g)
      <4>1. j \in Nat /\ j \in Slots(g)
        BY <1>0, <2>3
      <4>. QED  BY <2>4, <4>1, Halves DEF Slots
    <3>2. CASE j = a
      <4>1. s[j] = g[b] /\ s[j \div 2] = g[a]
        BY <3>2, <2>2, <2>3
      <4>. QED  BY <4>1, <1>0, <1>2, <2>2
    <3>3. CASE j # a /\ j \div 2 = a
      <4>1. s[j] = g[j] /\ s[j \div 2] = g[b]
        BY <3>1, <3>3, <2>2, <2>3, <2>4
      <4>. QED  BY <4>1, <3>1, <3>3, <1>2 DEF OrderedButAt
    <3>4. CASE j # a /\ j \div 2 = b
      <4>1. s[j] = g[j] /\ s[j \div 2] = g[a] /\ g[b].count <= g[j].count
        BY <3>1, <3>4, <2>2, <2>3, <2>4 DEF OrderedButAt
      <4>2. g[a].count \in Nat /\ g[b].count \in Nat /\ g[j].count \in Nat
        BY <1>0, <3>1, <2>2
      <4>. QED  BY <4>1, <4>2, <1>2
    <3>5. CASE j # a /\ j \div 2 # a /\ j \div 2 # b
      <4>1. s[j] = g[j] /\ s[j \div 2] = g[j \div 2]
        BY <3>1, <3>5, <2>3, <2>4
      <4>. QED  BY <4>1, <3>1, <3>5, <2>4 DEF OrderedButAt
    <3>. QED  BY <3>2, <3>3, <3>4, <3>5
  <2>5. ASSUME NEW j \in Slots(s), j \div 2 = b, b > 1
        PROVE  s[b \div 2].count <= s[j].count
    <3>1. j \in Nat /\ j \in Slots(g) /\ j # b /\ j > 1
      <4>1. j \in Nat /\ j \in Slots(g)
        BY <1>0, <2>3
      <4>. QED  BY <4>1, <2>5, <2>2, HalfOf
    <3>2. b \div 2 \in Slots(g) /\ b \div 2 # a /\ b \div 2 # b
      BY <1>0, <2>2, <2>5, Halves DEF Slots
    <3>3. s[b \div 2] = g[b \div 2] /\ g[b \div 2].count <= g[b].count
      BY <3>2, <2>2, <2>3, <2>5 DEF OrderedButAt
    <3>4. CASE j = a
      <4>1. s[j] = g[b]
        BY <3>4, <2>2, <2>3
      <4>. QED  BY <4>1, <3>3
    <3>5. CASE j # a
      <4>1. s[j] = g[j] /\ g[b].count <= g[j].count
        BY <3>1, <3>5, <2>3, <2>5 DEF OrderedButAt
      <4>2. g[b \div 2].count \in Nat /\ g[b].count \in Nat /\ g[j].count \in Nat
        BY <1>0, <3>1, <3>2, <2>2
      <4>. QED  BY <4>1, <4>2, <3>3
    <3>. QED  BY <3>4, <3>5
  <2>6. OrderedButAt(s, b)
    BY <2>4, <2>5 DEF OrderedButAt
  <2>. QED  BY <2>1, <2>2, <2>3, <2>6
<1>. QED  BY <1>1, <1>2

(* sift_down() and sift_up() put the heap in order. *)
LEMMA SiftDownSorts ==
  ASSUME NEW h, NEW g \in Shuffles(h), NEW a \in Slots(g), OrderedButBelow(g, a)
  PROVE  SiftDown(g, a) \in Shuffles(h) /\ Ordered(SiftDown(g, a))
<1>. DEFINE N == Len(g)
            b == [heap |-> g, at |-> a]
            W == {x \in [heap : Shuffles(h), at : Nat] : x.at \in Slots(x.heap) /\ OrderedButBelow(x.heap, x.at)}
            t == [z \in W \X (1..N) |-> SinkOnce(z[1])]
            Run(f) == f = [n \in 0..N |-> IF n = 0 THEN b ELSE SinkOnce(f[n - 1])]
            c == CHOOSE f : Run(f)
<1>0. g \in Seq(Node) /\ N \in Nat /\ a \in Nat \ {0} /\ Len(h) = N
  <2>1. g \in Seq(Node) /\ Len(h) = Len(g)
    BY DEF Shuffles
  <2>. QED  BY <2>1, LenProperties DEF Slots
<1>1. b \in W
  BY <1>0
<1>2. ASSUME NEW x \in W
      PROVE  /\ SinkOnce(x) \in W
             /\ (Lighter(x.heap, x.at) = {} /\ SinkOnce(x) = x) \/ SinkOnce(x).at > x.at
  <2>1. x = [heap |-> x.heap, at |-> x.at] /\ x.heap \in Shuffles(h) /\ x.at \in Slots(x.heap)
        /\ OrderedButBelow(x.heap, x.at)
    OBVIOUS
  <2>. DEFINE y == SinkOnce([heap |-> x.heap, at |-> x.at])
  <2>2. /\ y.heap \in Shuffles(h) /\ y.at \in Slots(y.heap) /\ OrderedButBelow(y.heap, y.at)
        /\ y = [heap |-> y.heap, at |-> y.at]
        /\ (Lighter(x.heap, x.at) = {} /\ y.heap = x.heap /\ y.at = x.at) \/ y.at > x.at
    BY <2>1, SinkOnceKeeps
  <2>3. SinkOnce(x) = y
    BY <2>1
  <2>. HIDE DEF y
  <2>4. y.at \in Nat
    <3>1. Len(y.heap) = N
      BY <2>2, <1>0 DEF Shuffles
    <3>. QED  BY <2>2, <3>1, <1>0 DEF Slots
  <2>5. y \in W
    BY <2>2, <2>4
  <2>6. y.heap = x.heap /\ y.at = x.at => y = x
    BY <2>1, <2>2
  <2>. QED  BY <2>2, <2>3, <2>5, <2>6
<1>. HIDE DEF W, b
<1>3. IsLoop(t, W, N)
  BY <1>2 DEF IsLoop
<1>4. PICK f : IsRun(f, t, W, N, b)
  <2>1. N \in Nat
    BY <1>0
  <2>. HIDE DEF t, N
  <2>. QED  BY <2>1, <1>1, <1>3, LoopRuns, Zenon
<1>5. Run(f)
  <2>1. ASSUME NEW n \in 1..N PROVE f[n] = SinkOnce(f[n - 1])
    <3>1. n - 1 \in 0..N /\ f[n - 1] \in W
      BY <1>0, <1>4 DEF IsRun
    <3>2. t[<<f[n - 1], n>>] = SinkOnce(f[n - 1])
      BY <3>1
    <3>. QED  BY <1>4, <3>2 DEF IsRun
  <2>. QED  BY <1>0, <1>4, <2>1 DEF IsRun
<1>6. Run(c)
  <2>. HIDE DEF Run
  <2>. QED  BY <1>5
<1>. HIDE DEF c
<1>7. c[0] = b /\ \A n \in 1..N : c[n] = SinkOnce(c[n - 1])
  BY <1>0, <1>6
<1>. DEFINE T == {n \in 0..N : c[n] \in W /\ (Lighter(c[n].heap, c[n].at) = {} \/ c[n].at > n)}
<1>8. 0 \in T
  BY <1>0, <1>1, <1>7 DEF b
<1>9. ASSUME NEW n \in 1..N, n - 1 \in T
      PROVE  n \in T
  <2>1. c[n - 1] \in W /\ (Lighter(c[n - 1].heap, c[n - 1].at) = {} \/ c[n - 1].at > n - 1)
    BY <1>9
  <2>2. c[n] = SinkOnce(c[n - 1]) /\ c[n] \in W
    BY <2>1, <1>2, <1>7
  <2>3. c[n].at \in Nat /\ c[n - 1].at \in Nat
    BY <2>1, <2>2 DEF W
  <2>4. Lighter(c[n].heap, c[n].at) = {} \/ c[n].at > n
    <3>1. CASE Lighter(c[n - 1].heap, c[n - 1].at) = {} /\ c[n] = c[n - 1]
      BY <3>1
    <3>2. CASE c[n].at > c[n - 1].at
      <4>1. CASE c[n - 1].at > n - 1
        BY <4>1, <3>2, <2>3
      <4>2. CASE Lighter(c[n - 1].heap, c[n - 1].at) = {}
        <5>1. c[n] = c[n - 1]
          BY <4>2, <2>2, <2>1, <2>3 DEF SinkOnce
        <5>. QED  BY <5>1, <3>2, <2>3
      <4>. QED  BY <4>1, <4>2, <2>1
    <3>. QED  BY <3>1, <3>2, <2>1, <2>2, <1>2
  <2>. QED  BY <2>2, <2>4
<1>10. N \in T
  <2>1. N \in Nat /\ N \in 0..N
    BY <1>0
  <2>2. \A n \in 1..N : n - 1 \in T => n \in T
    BY <1>9
  <2>. HIDE DEF T, N
  <2>. QED  BY <2>1, <2>2, <1>8, TurnByTurn
<1>11. SiftDown(g, a) = c[N].heap
  BY Zenon DEF SiftDown, c, Run, b
<1>. DEFINE s == c[N].heap
            e == c[N].at
<1>12. s \in Shuffles(h) /\ e \in Slots(s) /\ OrderedButBelow(s, e) /\ Lighter(s, e) = {}
  <2>1. s \in Shuffles(h) /\ e \in Slots(s) /\ OrderedButBelow(s, e) /\ (Lighter(s, e) = {} \/ e > N)
    BY <1>10 DEF W
  <2>2. Len(s) = N
    BY <2>1, <1>0 DEF Shuffles
  <2>. QED  BY <2>1, <2>2, <1>0 DEF Slots
<1>. HIDE DEF s, e
<1>13. \A k \in Slots(s) : s[k].count \in Nat /\ k \in Nat
  <2>1. s \in Seq(Node)
    BY <1>12 DEF Shuffles
  <2>. QED  BY <2>1, CountTypes, ElementOfSeq DEF Slots
<1>14. Ordered(s)
  <2>1. ASSUME NEW j \in Slots(s), j > 1, j \div 2 = e
        PROVE  s[e].count <= s[j].count
    <3>1. j \in {2 * e, 2 * e + 1}
      BY <2>1, <1>12, <1>13, HalfOf
    <3>. DEFINE C == {2 * e, 2 * e + 1} \cap Slots(s)
    <3>2. SUFFICES ASSUME s[j].count < s[e].count PROVE FALSE
      BY <1>12, <1>13
    <3>3. \E d \in C : \A k \in C : s[d].count < s[k].count \/ (s[d].count = s[k].count /\ k <= d)
      <4>1. CASE 2 * e + 1 \in Slots(s) /\ (2 * e \in Slots(s) => s[2 * e + 1].count <= s[2 * e].count)
        <5>1. ASSUME NEW k \in C
              PROVE  s[2 * e + 1].count < s[k].count \/ (s[2 * e + 1].count = s[k].count /\ k <= 2 * e + 1)
          <6>1. k = 2 * e + 1 \/ k = 2 * e
            BY <5>1
          <6>. QED  BY <4>1, <6>1, <5>1, <1>12, <1>13
        <5>2. 2 * e + 1 \in C
          BY <4>1
        <5>. HIDE DEF C
        <5>. QED  BY <5>1, <5>2
      <4>2. CASE 2 * e \in Slots(s) /\ (2 * e + 1 \in Slots(s) => s[2 * e].count < s[2 * e + 1].count)
        <5>1. ASSUME NEW k \in C
              PROVE  s[2 * e].count < s[k].count \/ (s[2 * e].count = s[k].count /\ k <= 2 * e)
          <6>1. k = 2 * e + 1 \/ k = 2 * e
            BY <5>1
          <6>. QED  BY <4>2, <6>1, <5>1, <1>12, <1>13
        <5>2. 2 * e \in C
          BY <4>2
        <5>. HIDE DEF C
        <5>. QED  BY <5>1, <5>2
      <4>3. \/ 2 * e + 1 \in Slots(s) /\ (2 * e \in Slots(s) => s[2 * e + 1].count <= s[2 * e].count)
            \/ 2 * e \in Slots(s) /\ (2 * e + 1 \in Slots(s) => s[2 * e].count < s[2 * e + 1].count)
        BY <3>1, <2>1, <1>13
      <4>. QED  BY <4>1, <4>2, <4>3
    <3>4. PICK d \in C : \A k \in C : s[d].count < s[k].count \/ (s[d].count = s[k].count /\ k <= d)
      BY <3>3
    <3>5. s[d].count < s[e].count
      BY <3>1, <3>2, <3>4, <1>12, <1>13
    <3>6. d \in Lighter(s, e)
      BY <3>4, <3>5 DEF Lighter
    <3>. QED  BY <3>6, <1>12
  <2>. QED  BY <2>1, <1>12 DEF OrderedButBelow, Ordered
<1>. QED  BY <1>11, <1>12, <1>14 DEF s

LEMMA SiftUpSorts ==
  ASSUME NEW h, NEW g \in Shuffles(h), NEW a \in Slots(g), OrderedButAt(g, a)
  PROVE  SiftUp(g, a) \in Shuffles(h) /\ Ordered(SiftUp(g, a))
<1>. DEFINE N == Len(g)
            b == [heap |-> g, at |-> a]
            W == {x \in [heap : Shuffles(h), at : Nat] : x.at \in Slots(x.heap) /\ OrderedButAt(x.heap, x.at)}
            t == [z \in W \X (1..N) |-> RiseOnce(z[1])]
            Run(f) == f = [n \in 0..N |-> IF n = 0 THEN b ELSE RiseOnce(f[n - 1])]
            c == CHOOSE f : Run(f)
<1>0. g \in Seq(Node) /\ N \in Nat /\ a \in 1..N /\ Len(h) = N
  <2>1. g \in Seq(Node) /\ Len(h) = Len(g)
    BY DEF Shuffles
  <2>. QED  BY <2>1, LenProperties DEF Slots
<1>1. b \in W
  BY <1>0
<1>2. ASSUME NEW x \in W
      PROVE  /\ RiseOnce(x) \in W
             /\ (Ordered(x.heap) /\ RiseOnce(x) = x) \/ RiseOnce(x).at < x.at
  <2>1. x = [heap |-> x.heap, at |-> x.at] /\ x.heap \in Shuffles(h) /\ x.at \in Slots(x.heap)
        /\ OrderedButAt(x.heap, x.at)
    OBVIOUS
  <2>. DEFINE y == RiseOnce([heap |-> x.heap, at |-> x.at])
  <2>2. /\ y.heap \in Shuffles(h) /\ y.at \in Slots(y.heap) /\ OrderedButAt(y.heap, y.at)
        /\ y = [heap |-> y.heap, at |-> y.at]
        /\ (Ordered(x.heap) /\ y.heap = x.heap /\ y.at = x.at) \/ y.at < x.at
    BY <2>1, RiseOnceKeeps
  <2>3. RiseOnce(x) = y
    BY <2>1
  <2>. HIDE DEF y
  <2>4. y.at \in Nat
    <3>1. Len(y.heap) = N
      BY <2>2, <1>0 DEF Shuffles
    <3>. QED  BY <2>2, <3>1, <1>0 DEF Slots
  <2>5. y \in W
    BY <2>2, <2>4
  <2>6. y.heap = x.heap /\ y.at = x.at => y = x
    BY <2>1, <2>2
  <2>. QED  BY <2>2, <2>3, <2>5, <2>6
<1>. HIDE DEF W, b
<1>3. IsLoop(t, W, N)
  BY <1>2 DEF IsLoop
<1>4. PICK f : IsRun(f, t, W, N, b)
  <2>1. N \in Nat
    BY <1>0
  <2>. HIDE DEF t, N
  <2>. QED  BY <2>1, <1>1, <1>3, LoopRuns, Zenon
<1>5. Run(f)
  <2>1. ASSUME NEW n \in 1..N PROVE f[n] = RiseOnce(f[n - 1])
    <3>1. n - 1 \in 0..N /\ f[n - 1] \in W
      BY <1>0, <1>4 DEF IsRun
    <3>2. t[<<f[n - 1], n>>] = RiseOnce(f[n - 1])
      BY <3>1
    <3>. QED  BY <1>4, <3>2 DEF IsRun
  <2>. QED  BY <1>0, <1>4, <2>1 DEF IsRun
<1>6. Run(c)
  <2>. HIDE DEF Run
  <2>. QED  BY <1>5
<1>. HIDE DEF c
<1>7. c[0] = b /\ \A n \in 1..N : c[n] = RiseOnce(c[n - 1])
  BY <1>0, <1>6
<1>. DEFINE T == {n \in 0..N : c[n] \in W /\ (Ordered(c[n].heap) \/ c[n].at + n <= N)}
<1>8. 0 \in T
  BY <1>0, <1>1, <1>7 DEF b
<1>9. ASSUME NEW n \in 1..N, n - 1 \in T
      PROVE  n \in T
  <2>1. c[n - 1] \in W /\ (Ordered(c[n - 1].heap) \/ c[n - 1].at + (n - 1) <= N)
    BY <1>9
  <2>2. c[n] = RiseOnce(c[n - 1]) /\ c[n] \in W
    BY <2>1, <1>2, <1>7
  <2>3. c[n].at \in Nat /\ c[n - 1].at \in Nat /\ c[n - 1].at \in Slots(c[n - 1].heap)
    BY <2>1, <2>2 DEF W
  <2>4. Ordered(c[n].heap) \/ c[n].at + n <= N
    <3>1. CASE Ordered(c[n - 1].heap)
      <4>1. c[n - 1].heap \in Shuffles(h)
        BY <2>1 DEF W
      <4>2. RiseOnce(c[n - 1]) = c[n - 1]
        <5>1. c[n - 1].at > 1 => c[n - 1].heap[c[n - 1].at \div 2].count <= c[n - 1].heap[c[n - 1].at].count
          BY <3>1, <2>3 DEF Ordered
        <5>2. c[n - 1].heap \in Seq(Node)
          BY <4>1 DEF Shuffles
        <5>3. c[n - 1].at > 1 => c[n - 1].at \div 2 \in Slots(c[n - 1].heap)
          BY SMTT(30), <2>3, Halves DEF Slots
        <5>4. \A k \in Slots(c[n - 1].heap) : c[n - 1].heap[k].count \in Nat
          BY <5>2, CountTypes, ElementOfSeq DEF Slots
        <5>. QED  BY <5>1, <5>3, <5>4, <2>3 DEF RiseOnce
      <4>. QED  BY <4>2, <2>2, <3>1
    <3>2. CASE c[n].at < c[n - 1].at /\ c[n - 1].at + (n - 1) <= N
      BY <3>2, <2>3, <1>0
    <3>. QED  BY <3>1, <3>2, <2>1, <2>2, <1>2
  <2>. QED  BY <2>2, <2>4
<1>10. N \in T
  <2>1. N \in Nat /\ N \in 0..N
    BY <1>0
  <2>2. \A n \in 1..N : n - 1 \in T => n \in T
    BY <1>9
  <2>. HIDE DEF T, N
  <2>. QED  BY <2>1, <2>2, <1>8, TurnByTurn
<1>11. SiftUp(g, a) = c[N].heap
  BY Zenon DEF SiftUp, c, Run, b
<1>12. c[N].heap \in Shuffles(h) /\ c[N].at \in Nat \ {0}
  BY <1>10 DEF W, Slots
<1>13. Ordered(c[N].heap)
  BY <1>10, <1>12, <1>0
<1>. QED  BY <1>11, <1>12, <1>13

LEMMA ShufflesItself ==
  ASSUME NEW h \in Seq(Node), WhoDistinct(h)
  PROVE  h \in Shuffles(h)
BY DEF Shuffles

LEMMA HeapTypes ==
  ASSUME NEW h \in Seq(Node)
  PROVE  /\ Len(h) \in Nat /\ Slots(h) \subseteq Nat \ {0}
         /\ \A i \in Slots(h) : h[i] \in Node /\ h[i].count \in Nat /\ h[i].who \in Player /\ h[i].slot \in Nat
BY LenProperties, ElementOfSeq, CountTypes DEF Slots

(* heap_push(): one node more, in order. *)
LEMMA PushKeeps ==
  ASSUME NEW h \in Seq(Node), WhoDistinct(h), Ordered(h), NEW node \in Node,
         \A i \in Slots(h) : h[i].who # node.who
  PROVE  /\ HeapPush(h, node) \in Seq(Node) /\ Len(HeapPush(h, node)) = Len(h) + 1
         /\ WhoDistinct(HeapPush(h, node)) /\ Ordered(HeapPush(h, node))
         /\ \A i \in Slots(h) : \E j \in Slots(HeapPush(h, node)) : HeapPush(h, node)[j] = h[i]
         /\ \E j \in Slots(HeapPush(h, node)) : HeapPush(h, node)[j] = node
         /\ \A j \in Slots(HeapPush(h, node)) :
              HeapPush(h, node)[j] = node \/ \E i \in Slots(h) : HeapPush(h, node)[j] = h[i]
<1>. DEFINE a == Append(h, node)
            n == Len(h) + 1
            g == HeapPush(h, node)
<1>1. a \in Seq(Node) /\ Len(a) = n /\ (\A i \in 1..Len(h) : a[i] = h[i]) /\ a[n] = node
  BY AppendProperties
<1>2. Len(h) \in Nat /\ n \in Slots(a) /\ Slots(a) = Slots(h) \cup {n} /\ n \notin Slots(h)
      /\ (\A i \in Slots(h) : a[i] = h[i])
  BY <1>1, HeapTypes DEF Slots
<1>. HIDE DEF a
<1>3. WhoDistinct(a)
  BY <1>1, <1>2 DEF WhoDistinct
<1>4. a \in Shuffles(a)
  BY <1>1, <1>3, ShufflesItself
<1>5. OrderedButAt(a, n)
  <2>1. ASSUME NEW j \in Slots(a), j > 1, j # n PROVE a[j \div 2].count <= a[j].count
    <3>1. j \in Slots(h) /\ j \div 2 \in Slots(h)
      BY <2>1, <1>2, HeapTypes, Halves DEF Slots
    <3>. QED  BY <3>1, <2>1, <1>2 DEF Ordered
  <2>2. ASSUME NEW j \in Slots(a) PROVE j \div 2 # n
    BY <1>1, <1>2, <2>2, HeapTypes, HalfOf DEF Slots
  <2>. QED  BY <2>1, <2>2 DEF OrderedButAt
<1>6. g \in Shuffles(a) /\ Ordered(g)
  BY <1>2, <1>4, <1>5, SiftUpSorts DEF HeapPush, a
<1>. HIDE DEF g
<1>7. g \in Seq(Node) /\ Len(g) = n /\ WhoDistinct(g)
      /\ (\A i \in Slots(a) : \E j \in Slots(g) : g[j] = a[i])
      /\ (\A j \in Slots(g) : \E i \in Slots(a) : g[j] = a[i])
  BY <1>6, <1>1 DEF Shuffles
<1>8. ASSUME NEW i \in Slots(h) PROVE \E j \in Slots(g) : g[j] = h[i]
  BY <1>2, <1>7
<1>9. \E j \in Slots(g) : g[j] = node
  BY <1>1, <1>2, <1>7
<1>10. ASSUME NEW j \in Slots(g) PROVE g[j] = node \/ \E i \in Slots(h) : g[j] = h[i]
  <2>1. PICK i \in Slots(a) : g[j] = a[i]
    BY <1>7
  <2>. QED  BY <2>1, <1>1, <1>2
<1>. QED  BY <1>6, <1>7, <1>8, <1>9, <1>10 DEF g

(* heap_inc(): the top gets more monsters and sinks. *)
LEMMA IncKeeps ==
  ASSUME NEW h \in Seq(Node), WhoDistinct(h), Ordered(h), h # <<>>, NEW n \in Nat,
         h[1].count + n <= MaxControllees
  PROVE  /\ HeapInc(h, n) \in Shuffles([h EXCEPT ![1].count = @ + n]) /\ Ordered(HeapInc(h, n))
         /\ [h EXCEPT ![1].count = @ + n] \in Seq(Node)
         /\ Len([h EXCEPT ![1].count = @ + n]) = Len(h)
         /\ 1 \in Slots(h)
         /\ \A i \in Slots(h) : [h EXCEPT ![1].count = @ + n][i] =
                                  IF i = 1 THEN [h[1] EXCEPT !.count = h[1].count + n] ELSE h[i]
<1>. DEFINE top == [h[1] EXCEPT !.count = h[1].count + n]
            g == [h EXCEPT ![1].count = @ + n]
<1>1. 1 \in Slots(h)
  BY EmptySeq DEF Slots
<1>2. h[1] \in Node /\ h[1].count \in Nat
  BY <1>1, HeapTypes
<1>3. top \in Node
  <2>1. top = [who |-> h[1].who, count |-> h[1].count + n, slot |-> h[1].slot]
    BY <1>2 DEF Node
  <2>2. h[1].count + n \in 0..(MaxControllees + SpawnerCount + MaxSpawns)
    BY <1>2, SpawnerAssumption, BoundsAssumption
  <2>. QED  BY <1>2, <2>1, <2>2 DEF Node
<1>4. g = [h EXCEPT ![1] = top]
  OBVIOUS
<1>. HIDE DEF top, g
<1>5. g \in Seq(Node) /\ Len(g) = Len(h) /\ \A i \in Slots(h) : g[i] = IF i = 1 THEN top ELSE h[i]
  BY <1>1, <1>3, <1>4, PutAt
<1>6. Slots(g) = Slots(h)
  BY <1>5 DEF Slots
<1>7. top.who = h[1].who /\ top.count >= h[1].count
  BY <1>2 DEF top, Node
<1>8. WhoDistinct(g)
  BY <1>5, <1>6, <1>7, <1>1 DEF WhoDistinct
<1>9. OrderedButBelow(g, 1)
  <2>1. ASSUME NEW j \in Slots(g), j > 1, j \div 2 # 1 PROVE g[j \div 2].count <= g[j].count
    <3>1. j \in Slots(h) /\ j \div 2 \in Slots(h)
      BY <2>1, <1>6, HeapTypes, Halves DEF Slots
    <3>. QED  BY <3>1, <2>1, <1>5 DEF Ordered
  <2>. QED  BY <2>1 DEF OrderedButBelow
<1>10. HeapInc(h, n) \in Shuffles(g) /\ Ordered(HeapInc(h, n))
  BY <1>1, <1>5, <1>6, <1>8, <1>9, ShufflesItself, SiftDownSorts DEF HeapInc, g
<1>. QED  BY <1>1, <1>5, <1>10 DEF g, top

(* heap_remove(): one node less, in order. *)
LEMMA RemoveKeeps ==
  ASSUME NEW h \in Seq(Node), WhoDistinct(h), Ordered(h), NEW p, \E i \in Slots(h) : h[i].who = p
  PROVE  /\ HeapRemove(h, p) \in Seq(Node) /\ Len(HeapRemove(h, p)) = Len(h) - 1
         /\ WhoDistinct(HeapRemove(h, p)) /\ Ordered(HeapRemove(h, p))
         /\ \A i \in Slots(h) : h[i].who # p => \E j \in Slots(HeapRemove(h, p)) : HeapRemove(h, p)[j] = h[i]
         /\ \A j \in Slots(HeapRemove(h, p)) :
              HeapRemove(h, p)[j].who # p /\ \E i \in Slots(h) : HeapRemove(h, p)[j] = h[i]
<1>. DEFINE i == CHOOSE j \in Slots(h) : h[j].who = p
            n == Len(h)
            rest == SubSeq([h EXCEPT ![i] = h[n]], 1, n - 1)
            g == HeapRemove(h, p)
<1>1. i \in Slots(h) /\ h[i].who = p
  OBVIOUS
<1>. HIDE DEF i
<1>2. rest \in Seq(Node) /\ Len(rest) = n - 1 /\ \A j \in Slots(rest) : rest[j] = IF j = i THEN h[n] ELSE h[j]
  <2>1. rest = FillHole(h, i)
    BY DEF FillHole
  <2>. HIDE DEF rest
  <2>. QED  BY ZenonT(40), <1>1, <2>1, HoleFilled DEF Slots
<1>3. g = IF i = n THEN rest
          ELSE IF i = 1 \/ rest[i \div 2].count < rest[i].count THEN SiftDown(rest, i)
          ELSE SiftUp(rest, i)
  BY DEF HeapRemove, i
<1>. HIDE DEF rest, g
<1>4. n \in Nat /\ n \in Slots(h) /\ i \in Nat /\ i >= 1 /\ i <= n /\ Slots(rest) = Slots(h) \ {n}
  <2>1. n \in Nat /\ i \in 1..n
    BY <1>1, HeapTypes DEF Slots
  <2>. QED  BY <2>1, <1>2 DEF Slots
<1>5. WhoDistinct(rest) /\ \A j \in Slots(rest) : rest[j].who # p
  BY <1>1, <1>2, <1>4 DEF WhoDistinct
<1>6. rest \in Shuffles(rest)
  BY <1>2, <1>5, ShufflesItself
<1>7. \A k \in Slots(h) : h[k].who # p => \E j \in Slots(rest) : rest[j] = h[k]
  <2>. SUFFICES ASSUME NEW k \in Slots(h), h[k].who # p
                PROVE  \E j \in Slots(rest) : rest[j] = h[k]
    OBVIOUS
  <2>1. CASE k = n
    <3>1. i \in Slots(rest) /\ rest[i] = h[k]
      BY <2>1, <1>1, <1>2, <1>4
    <3>. QED  BY <3>1
  <2>2. CASE k # n
    <3>1. k \in Slots(rest) /\ rest[k] = h[k]
      BY <2>2, <1>1, <1>2, <1>4
    <3>. QED  BY <3>1
  <2>. QED  BY <2>1, <2>2
<1>8. \A j \in Slots(rest) : \E k \in Slots(h) : rest[j] = h[k]
  BY <1>2, <1>4
<1>9. \A k \in Slots(h) : h[k].count \in Nat /\ k \in Nat \ {0}
  BY HeapTypes
<1>10. ASSUME NEW j \in Slots(rest), j > 1
       PROVE  j \in Nat /\ j \div 2 \in Slots(rest) /\ j \div 2 # j
  BY <1>10, <1>4, <1>9, <1>2, Halves DEF Slots
<1>11. ASSUME NEW j \in Slots(rest), j > 1, j # i, j \div 2 # i
       PROVE  rest[j \div 2].count <= rest[j].count
  <2>1. rest[j] = h[j] /\ rest[j \div 2] = h[j \div 2] /\ j \in Slots(h)
    BY <1>2, <1>4, <1>10, <1>11
  <2>. QED  BY <2>1, <1>11 DEF Ordered
<1>12. ASSUME NEW j \in Slots(rest), j \div 2 = i, i > 1
       PROVE  rest[i \div 2].count <= rest[j].count /\ h[i].count <= rest[j].count
              /\ rest[i \div 2].count <= h[i].count
  <2>1. j > 1 /\ j # i /\ j \in Slots(h)
    <3>1. j \in Nat /\ j \in Slots(h)
      BY <1>4, <1>9
    <3>. QED  BY <3>1, <1>12, HalfOf, <1>4
  <2>2. i \in Slots(rest) /\ i \div 2 \in Slots(rest) /\ i \div 2 # i
    BY <2>1, <1>10, <1>12, <1>4
  <2>3. rest[j] = h[j] /\ rest[i \div 2] = h[i \div 2]
    BY <2>1, <2>2, <1>2
  <2>4. h[i].count <= h[j].count /\ h[i \div 2].count <= h[i].count
    BY <1>1, <1>12, <2>1 DEF Ordered
  <2>5. h[i].count \in Nat /\ h[j].count \in Nat /\ h[i \div 2].count \in Nat
    BY <1>1, <2>1, <2>2, <1>4, <1>9
  <2>. QED  BY <2>3, <2>4, <2>5
<1>13. CASE i = n
  <2>1. ASSUME NEW j \in Slots(rest), j > 1 PROVE j # i /\ j \div 2 # i
    BY <2>1, <1>4, <1>10, <1>13
  <2>2. Ordered(rest)
    BY <2>1, <1>11 DEF Ordered
  <2>. QED  BY <1>3, <1>13, <2>2, <1>2, <1>5, <1>7, <1>8 DEF g
<1>14. CASE i # n
  <2>1. i \in Slots(rest)
    BY <1>14, <1>1, <1>4
  <2>2. i > 1 => i \div 2 \in Slots(rest) /\ rest[i \div 2].count \in Nat /\ rest[i].count \in Nat
    BY <2>1, <1>2, <1>10, HeapTypes
  <2>3. g \in Shuffles(rest) /\ Ordered(g)
    <3>1. CASE i = 1 \/ rest[i \div 2].count < rest[i].count
      <4>1. ASSUME NEW j \in Slots(rest), j > 1, j \div 2 # i
            PROVE  rest[j \div 2].count <= rest[j].count
        BY <4>1, <3>1, <2>2, <1>11, <1>4
      <4>2. OrderedButBelow(rest, i)
        BY <4>1, <1>12 DEF OrderedButBelow
      <4>. QED  BY <4>2, <3>1, <2>1, <1>3, <1>6, <1>14, SiftDownSorts
    <3>2. CASE ~(i = 1 \/ rest[i \div 2].count < rest[i].count)
      <4>1. i > 1 /\ rest[i].count <= rest[i \div 2].count
        BY <3>2, <2>2, <1>4
      <4>2. ASSUME NEW j \in Slots(rest), j > 1, j # i
            PROVE  rest[j \div 2].count <= rest[j].count
        <5>1. CASE j \div 2 = i
          <6>1. rest[j].count \in Nat
            BY <1>2, HeapTypes
          <6>. QED  BY <5>1, <6>1, <4>1, <2>2, <1>12
        <5>2. CASE j \div 2 # i
          BY <5>2, <4>2, <1>11
        <5>. QED  BY <5>1, <5>2
      <4>3. OrderedButAt(rest, i)
        BY <4>2, <1>12 DEF OrderedButAt
      <4>. QED  BY <4>3, <3>2, <2>1, <1>3, <1>6, <1>14, SiftUpSorts
    <3>. QED  BY <3>1, <3>2
  <2>4. g \in Seq(Node) /\ Len(g) = n - 1 /\ WhoDistinct(g)
        /\ (\A k \in Slots(rest) : \E j \in Slots(g) : g[j] = rest[k])
        /\ (\A j \in Slots(g) : \E k \in Slots(rest) : g[j] = rest[k])
    BY <2>3, <1>2 DEF Shuffles
  <2>5. ASSUME NEW k \in Slots(h), h[k].who # p PROVE \E j \in Slots(g) : g[j] = h[k]
    <3>1. PICK j \in Slots(rest) : rest[j] = h[k]
      BY <1>7, <2>5
    <3>. QED  BY <2>4, <3>1
  <2>6. ASSUME NEW j \in Slots(g) PROVE g[j].who # p /\ \E k \in Slots(h) : g[j] = h[k]
    <3>1. PICK k \in Slots(rest) : g[j] = rest[k]
      BY <2>4
    <3>. QED  BY <3>1, <1>5, <1>8
  <2>. QED  BY <2>3, <2>4, <2>5, <2>6 DEF g
<1>. QED  BY <1>13, <1>14

-----------------------------------------------------------------------------
(* Links between the players' lists and the monsters.                      *)

Monster == [oid : Oids, spawner : 0..SpawnerCount, alive : BOOLEAN, controller : Nat, index : Nat]

(* Monster m says that it is entry i of the list of slot s; the list says so too. *)
Names(mons, m, s, i) ==
  m \in Slots(mons) /\ mons[m].alive /\ mons[m].controller = s /\ mons[m].index = i
Lists(ls, s, i, m) == i \in Slots(ls[s]) /\ ls[s][i] = m

(* While players sit in the slots S, the lists and the living monsters,    *)
(* save the monsters M which are in no list, agree.                        *)
Linked(mons, ls, S, M) ==
  /\ mons \in Seq(Monster) /\ ls \in Seq(Seq(Nat)) /\ S \subseteq Slots(ls)
  /\ \A s \in S, i \in Nat, m \in Nat :
       Lists(ls, s, i, m) <=> (m \notin M /\ Names(mons, m, s, i))
  /\ \A m \in Slots(mons) \ M :
       IF mons[m].alive /\ S # {} THEN mons[m].controller \in S ELSE mons[m].controller = 0

LEMMA FunctionIsSeq ==
  ASSUME NEW S, NEW n \in Nat, NEW f \in [1..n -> S]
  PROVE  f \in Seq(S) /\ Len(f) = n
<1>1. f \in Seq(S)
  BY SeqDef
<1>2. DOMAIN f = 1..n /\ DOMAIN f = 1..Len(f) /\ Len(f) \in Nat
  BY <1>1, LenProperties
<1>. QED  BY <1>1, <1>2

LEMMA SeqTypes ==
  ASSUME NEW S, NEW s \in Seq(S)
  PROVE  /\ Len(s) \in Nat /\ Slots(s) \subseteq Nat \ {0} /\ DOMAIN s = Slots(s)
         /\ \A i \in Slots(s) : s[i] \in S
BY LenProperties, ElementOfSeq DEF Slots

LEMMA MonsterFields ==
  ASSUME NEW x \in Monster, NEW c \in Nat, NEW i \in Nat
  PROVE  /\ [x EXCEPT !.controller = c] \in Monster /\ [x EXCEPT !.index = i] \in Monster
         /\ [x EXCEPT !.controller = c, !.index = i] \in Monster
         /\ [x EXCEPT !.alive = FALSE] \in Monster
         /\ x.controller \in Nat /\ x.index \in Nat /\ x.alive \in BOOLEAN
BY DEF Monster

(* Who is in a list is there, alive, and is in no other place.             *)
LEMMA ListedMonster ==
  ASSUME NEW mons, NEW ls, NEW S, NEW M, Linked(mons, ls, S, M), NEW s \in S
  PROVE  /\ s \in Nat /\ ls[s] \in Seq(Nat) /\ Len(ls[s]) \in Nat
         /\ \A i \in Slots(ls[s]) :
              i \in Nat /\ ls[s][i] \in Nat /\ ls[s][i] \notin M /\ Names(mons, ls[s][i], s, i)
<1>1. s \in Slots(ls) /\ ls \in Seq(Seq(Nat))
  BY DEF Linked
<1>2. ls[s] \in Seq(Nat) /\ s \in Nat
  BY <1>1, SeqTypes
<1>3. Len(ls[s]) \in Nat /\ \A i \in Slots(ls[s]) : i \in Nat /\ ls[s][i] \in Nat
  BY <1>2, SeqTypes
<1>4. ASSUME NEW i \in Slots(ls[s]) PROVE ls[s][i] \notin M /\ Names(mons, ls[s][i], s, i)
  <2>1. Lists(ls, s, i, ls[s][i])
    BY DEF Lists
  <2>. QED  BY <2>1, <1>3 DEF Linked
<1>. QED  BY <1>2, <1>3, <1>4

(* A monster with a controller is in his list.                             *)
LEMMA MonsterListed ==
  ASSUME NEW mons, NEW ls, NEW S, NEW M, Linked(mons, ls, S, M), S # {},
         NEW m \in Slots(mons), m \notin M, mons[m].alive
  PROVE  /\ mons[m].controller \in S /\ mons[m].index \in Nat /\ m \in Nat
         /\ mons[m].controller \in Nat
         /\ Names(mons, m, mons[m].controller, mons[m].index)
         /\ Lists(ls, mons[m].controller, mons[m].index, m)
<1>1. mons[m].controller \in S
  BY DEF Linked
<1>2. mons[m].index \in Nat /\ mons[m].controller \in Nat /\ m \in Nat
  <2>1. mons \in Seq(Monster)
    BY DEF Linked
  <2>2. mons[m] \in Monster /\ m \in Nat
    BY <2>1, SeqTypes
  <2>. QED  BY <2>2 DEF Monster
<1>3. Names(mons, m, mons[m].controller, mons[m].index)
  BY DEF Names
<1>. QED  BY <1>1, <1>2, <1>3 DEF Linked

(* The lists ls are those of l0 after the hole at i of list s was filled.   *)
Shrunk(ls, l0, s, i) ==
  /\ ls \in Seq(Seq(Nat)) /\ Len(ls) = Len(l0) /\ Slots(ls) = Slots(l0)
  /\ \A t \in Slots(l0) : t # s => ls[t] = l0[t]
  /\ Slots(ls[s]) = 1..(Len(l0[s]) - 1)
  /\ \A j \in 1..(Len(l0[s]) - 1) : ls[s][j] = IF j = i THEN l0[s][Len(l0[s])] ELSE l0[s][j]

LEMMA HoleInList ==
  ASSUME NEW l0 \in Seq(Seq(Nat)), NEW s \in Slots(l0), NEW i \in Slots(l0[s])
  PROVE  Shrunk(Put(l0, s, FillHole(l0[s], i)), l0, s, i)
<1>. DEFINE q == FillHole(l0[s], i)
            ls == Put(l0, s, q)
<1>1. l0[s] \in Seq(Nat)
  BY SeqTypes
<1>2. q \in Seq(Nat) /\ Len(q) = Len(l0[s]) - 1
      /\ \A j \in 1..(Len(l0[s]) - 1) : q[j] = IF j = i THEN l0[s][Len(l0[s])] ELSE l0[s][j]
  BY SMTT(30), <1>1, HoleFilled
<1>. HIDE DEF q
<1>3. ls \in Seq(Seq(Nat)) /\ Len(ls) = Len(l0) /\ Slots(ls) = Slots(l0)
      /\ \A t \in Slots(l0) : ls[t] = IF t = s THEN q ELSE l0[t]
  <2>1. q \in Seq(Nat)
    BY <1>2
  <2>. QED  BY <2>1, PutIn
<1>. HIDE DEF ls
<1>4. ls[s] = q /\ Slots(q) = 1..(Len(l0[s]) - 1)
  BY <1>2, <1>3 DEF Slots
<1>5. \A t \in Slots(l0) : t # s => ls[t] = l0[t]
  BY <1>3
<1>6. /\ Slots(ls[s]) = 1..(Len(l0[s]) - 1)
      /\ \A j \in 1..(Len(l0[s]) - 1) : ls[s][j] = IF j = i THEN l0[s][Len(l0[s])] ELSE l0[s][j]
  BY <1>2, <1>4
<1>7. Shrunk(ls, l0, s, i)
  BY <1>3, <1>5, <1>6 DEF Shrunk
<1>. QED  BY <1>7 DEF ls, q

PutIndex(mons, m, i) == [mons EXCEPT ![m].index = i]

(* The same monsters; only their links may differ.                         *)
SameMonsters(mons, m0) ==
  /\ mons \in Seq(Monster) /\ Len(mons) = Len(m0) /\ Slots(mons) = Slots(m0)
  /\ \A k \in Slots(m0) :
       mons[k].oid = m0[k].oid /\ mons[k].spawner = m0[k].spawner /\ mons[k].alive = m0[k].alive

Reindexed(mons, m0, x, i) ==
  /\ SameMonsters(mons, m0)
  /\ \A k \in Slots(m0) : /\ mons[k].controller = m0[k].controller
                           /\ mons[k].index = IF k = x THEN i ELSE m0[k].index

LEMMA IndexSet ==
  ASSUME NEW m0 \in Seq(Monster), NEW x \in Slots(m0), NEW i \in Nat
  PROVE  Reindexed(PutIndex(m0, x, i), m0, x, i)
<1>. DEFINE e == [m0[x] EXCEPT !.index = i]
            mons == Put(m0, x, e)
<1>1. \A k \in Slots(m0) : m0[k] \in Monster
  BY SeqTypes
<1>2. m0[x] \in Monster
  BY <1>1
<1>3. e \in Monster
  BY <1>2 DEF Monster
<1>4. /\ e.oid = m0[x].oid /\ e.spawner = m0[x].spawner /\ e.alive = m0[x].alive
      /\ e.controller = m0[x].controller /\ e.index = i
  BY <1>2 DEF Monster
<1>5. PutIndex(m0, x, i) = mons
  BY DEF Put, PutIndex
<1>. HIDE DEF e
<1>6. mons \in Seq(Monster) /\ Len(mons) = Len(m0) /\ Slots(mons) = Slots(m0)
      /\ \A k \in Slots(m0) : mons[k] = IF k = x THEN e ELSE m0[k]
  BY <1>3, PutIn
<1>. HIDE DEF mons
<1>7. Reindexed(mons, m0, x, i)
  BY <1>4, <1>6 DEF Reindexed, SameMonsters
<1>. QED  BY <1>5, <1>7

(* map_damage_monster_by() takes a monster from its controller's list ...  *)
LEMMA ShrunkLinks ==
  ASSUME NEW m0, NEW l0, NEW S, Linked(m0, l0, S, {}),
         NEW s \in S, NEW m \in Slots(m0), NEW i \in Slots(l0[s]), l0[s][i] = m,
         NEW last, last = l0[s][Len(l0[s])],
         NEW mons, NEW ls, Reindexed(mons, m0, last, i), Shrunk(ls, l0, s, i)
  PROVE  Linked(mons, ls, S, {m})
<1>. PICK n : n = Len(l0[s])
  OBVIOUS
<1>1. n \in Nat /\ i \in 1..n /\ n \in Slots(l0[s])
  <2>1. n \in Nat /\ i \in 1..n
    BY ListedMonster DEF Slots
  <2>2. n \in 1..n
    BY <2>1
  <2>. QED  BY <2>1, <2>2 DEF Slots
<1>2. Names(m0, last, s, n) /\ Names(m0, m, s, i)
  BY <1>1, ListedMonster
<1>3. last = m <=> i = n
  BY <1>2 DEF Names
<1>4. ASSUME NEW t \in S, NEW j \in Nat, NEW k \in Nat
      PROVE  Lists(ls, t, j, k) <=> (k \notin {m} /\ Names(mons, k, t, j))
  <2>1. Lists(l0, t, j, k) <=> Names(m0, k, t, j)
    BY DEF Linked
  <2>2. CASE t # s
    <3>1. Lists(ls, t, j, k) <=> Lists(l0, t, j, k)
      <4>1. t \in Slots(l0)
        BY DEF Linked
      <4>2. ls[t] = l0[t]
        BY <2>2, <4>1 DEF Shrunk
      <4>. QED  BY <4>2 DEF Lists
    <3>2. Names(mons, k, t, j) <=> Names(m0, k, t, j)
      BY <2>2, <1>2 DEF Reindexed, SameMonsters, Names
    <3>3. Names(m0, k, t, j) => k # m
      BY <2>2, <1>2 DEF Names
    <3>. QED  BY <2>1, <3>1, <3>2, <3>3
  <2>3. CASE t = s
    <3>1. Lists(ls, t, j, k) <=> (j \in 1..(n - 1) /\ k = IF j = i THEN last ELSE l0[s][j])
      BY <2>3 DEF Shrunk, Lists
    <3>2. Lists(l0, t, j, k) <=> (j \in 1..n /\ k = l0[s][j])
      BY <2>3 DEF Lists, Slots
    <3>3. Names(mons, k, t, j) <=> IF k = last THEN j = i ELSE Names(m0, k, t, j)
      BY <2>3, <1>2 DEF Reindexed, SameMonsters, Names
    <3>4. CASE k = last
      <4>1. Names(m0, k, t, j) <=> j = n
        BY <3>4, <2>3, <1>2 DEF Names
      <4>2. j \in 1..n /\ l0[s][j] = last => j = n
        BY <4>1, <2>1, <3>2, <3>4
      <4>. QED  BY <3>1, <3>3, <3>4, <4>2, <1>1, <1>3
    <3>5. CASE k # last
      <4>1. Names(m0, k, t, j) => (k = m <=> j = i)
        BY <2>3, <1>2, <2>1, <3>2 DEF Names
      <4>2. Names(m0, k, t, j) => j # n
        BY <2>1, <3>2, <3>5
      <4>3. Lists(ls, t, j, k) <=> (j # i /\ j # n /\ Lists(l0, t, j, k))
        <5>1. j \in 1..(n - 1) <=> (j \in 1..n /\ j # n)
          BY <1>1
        <5>. QED  BY <3>1, <3>2, <3>5, <5>1
      <4>. QED  BY <2>1, <3>3, <3>5, <4>1, <4>2, <4>3
    <3>. QED  BY <3>4, <3>5
  <2>. QED  BY <2>2, <2>3
<1>5. ASSUME NEW k \in Slots(mons) \ {m}
      PROVE  IF mons[k].alive /\ S # {} THEN mons[k].controller \in S ELSE mons[k].controller = 0
  <2>1. k \in Slots(m0) /\ mons[k].alive = m0[k].alive /\ mons[k].controller = m0[k].controller
    BY DEF Reindexed, SameMonsters
  <2>2. IF m0[k].alive /\ S # {} THEN m0[k].controller \in S ELSE m0[k].controller = 0
    BY <2>1 DEF Linked
  <2>. QED  BY <2>1, <2>2
<1>6. mons \in Seq(Monster) /\ ls \in Seq(Seq(Nat)) /\ S \subseteq Slots(ls)
  BY DEF Reindexed, SameMonsters, Shrunk, Linked
<1>. QED  BY <1>4, <1>5, <1>6 DEF Linked

LEMMA UnlinkKeeps ==
  ASSUME NEW w, NEW S, Linked(w.monsters, w.lists, S, {}), S # {},
         NEW m \in Slots(w.monsters), w.monsters[m].alive
  PROVE  /\ Linked(Unlink(w, m).monsters, Unlink(w, m).lists, S, {m})
         /\ Len(Unlink(w, m).lists) = Len(w.lists)
         /\ SameMonsters(Unlink(w, m).monsters, w.monsters)
<1>. DEFINE m0 == w.monsters
            l0 == w.lists
            s == m0[m].controller
            i == m0[m].index
            last == l0[s][Len(l0[s])]
            mons == PutIndex(m0, last, i)
            ls == Put(l0, s, FillHole(l0[s], i))
<1>1. Unlink(w, m) = [monsters |-> mons, lists |-> ls]
  BY DEF Unlink, FillHole, Put, PutIndex
<1>. HIDE DEF mons, ls
<1>2. Unlink(w, m).monsters = mons /\ Unlink(w, m).lists = ls
  BY <1>1
<1>. HIDE DEF m0, l0, s, i, last
<1>3. Linked(m0, l0, S, {}) /\ m \in Slots(m0) /\ m0[m].alive
  BY DEF m0, l0
<1>4. m0 \in Seq(Monster) /\ l0 \in Seq(Seq(Nat)) /\ S \subseteq Slots(l0)
  BY <1>3 DEF Linked
<1>5. s \in S /\ i \in Nat /\ Lists(l0, s, i, m)
  BY <1>3, MonsterListed DEF s, i
<1>6. i \in Slots(l0[s]) /\ l0[s][i] = m /\ s \in Slots(l0)
  BY <1>4, <1>5 DEF Lists
<1>7. last \in Slots(m0)
  <2>1. Len(l0[s]) \in Slots(l0[s])
    <3>1. Len(l0[s]) \in Nat /\ i \in 1..Len(l0[s])
      BY <1>3, <1>5, <1>6, ListedMonster DEF Slots
    <3>2. Len(l0[s]) \in 1..Len(l0[s])
      BY <3>1
    <3>. QED  BY <3>2 DEF Slots
  <2>2. Names(m0, last, s, Len(l0[s]))
    BY <2>1, <1>3, <1>5, ListedMonster DEF last
  <2>. QED  BY <2>2 DEF Names
<1>8. Reindexed(mons, m0, last, i)
  BY <1>4, <1>5, <1>7, IndexSet DEF mons
<1>9. Shrunk(ls, l0, s, i)
  BY <1>4, <1>6, HoleInList DEF ls
<1>10. last = l0[s][Len(l0[s])]
  BY DEF last
<1>11. Linked(mons, ls, S, {m})
  BY <1>3, <1>5, <1>6, <1>8, <1>9, <1>10, ShrunkLinks
<1>12. Len(ls) = Len(l0) /\ SameMonsters(mons, m0)
  BY <1>8, <1>9 DEF Shrunk, Reindexed
<1>. QED  BY <1>2, <1>11, <1>12 DEF m0, l0

(* ... and gives monsters that are in no list to a player.                 *)
Elems(q) == {q[i] : i \in Slots(q)}

(* The living monsters ms, each once. *)
Roll(ms, mons) ==
  /\ ms \in Seq(Nat) /\ \A i, j \in Slots(ms) : ms[i] = ms[j] => i = j
  /\ \A i \in Slots(ms) : ms[i] \in Slots(mons) /\ mons[ms[i]].alive

(* The lists ls are those of l0 after ms was added to list s. *)
Grown(ls, l0, s, ms) ==
  /\ ls \in Seq(Seq(Nat)) /\ Len(ls) = Len(l0) /\ Slots(ls) = Slots(l0)
  /\ \A t \in Slots(l0) : t # s => ls[t] = l0[t]
  /\ Slots(ls[s]) = 1..(Len(l0[s]) + Len(ms))
  /\ \A j \in Slots(l0[s]) : ls[s][j] = l0[s][j]
  /\ \A x \in Slots(ms) : ls[s][Len(l0[s]) + x] = ms[x]

Handed(mons, m0, s, n, ms) ==
  /\ SameMonsters(mons, m0)
  /\ \A k \in Slots(m0) \ Elems(ms) :
       mons[k].controller = m0[k].controller /\ mons[k].index = m0[k].index
  /\ \A x \in Slots(ms) : mons[ms[x]].controller = s /\ mons[ms[x]].index = n + x

LEMMA GrownLinks ==
  ASSUME NEW m0, NEW l0, NEW S, NEW ms, Linked(m0, l0, S, Elems(ms)), Roll(ms, m0),
         NEW s \in S, NEW mons, NEW ls,
         Handed(mons, m0, s, Len(l0[s]), ms), Grown(ls, l0, s, ms)
  PROVE  Linked(mons, ls, S, {})
<1>. DEFINE M == Elems(ms)
<1>. PICK n : n = Len(l0[s])
  OBVIOUS
<1>. PICK c : c = Len(ms)
  OBVIOUS
<1>1. n \in Nat /\ Slots(l0[s]) = 1..n
  BY ListedMonster DEF Slots
<1>2. c \in Nat /\ Slots(ms) = 1..c
  BY SeqTypes DEF Roll, Slots
<1>3. \A k : k \in M <=> \E x \in 1..c : k = ms[x]
  BY <1>2 DEF Elems
<1>. HIDE DEF M
<1>4. \A x \in 1..c : Names(mons, ms[x], s, n + x) /\ ms[x] \in Nat
  BY <1>2, SeqTypes DEF Roll, Handed, SameMonsters, Names
<1>5. \A k, t, j : k \notin M => (Names(mons, k, t, j) <=> Names(m0, k, t, j))
  BY DEF Handed, SameMonsters, Names, M
<1>6. Linked(m0, l0, S, M)
  BY DEF M
<1>7. ASSUME NEW t \in S, NEW j \in Nat, NEW k \in Nat
      PROVE  Lists(ls, t, j, k) <=> (k \notin {} /\ Names(mons, k, t, j))
  <2>1. Lists(l0, t, j, k) <=> (k \notin M /\ Names(m0, k, t, j))
    BY <1>6 DEF Linked
  <2>2. CASE t # s
    <3>1. Lists(ls, t, j, k) <=> Lists(l0, t, j, k)
      <4>1. t \in Slots(l0)
        BY DEF Linked
      <4>2. ls[t] = l0[t]
        BY <2>2, <4>1 DEF Grown
      <4>. QED  BY <4>2 DEF Lists
    <3>2. k \in M => ~Names(mons, k, t, j)
      BY <1>3, <1>4, <2>2 DEF Names
    <3>. QED  BY <2>1, <3>1, <3>2, <1>5
  <2>3. CASE t = s
    <3>1. Slots(ls[s]) = 1..(n + c)
      BY DEF Grown
    <3>2. Lists(l0, t, j, k) <=> (j \in 1..n /\ k = l0[s][j])
      BY <2>3, <1>1 DEF Lists
    <3>3. CASE j \in 1..n
      <4>1. j \in 1..(n + c)
        BY <3>3, <1>1, <1>2
      <4>2. ls[s][j] = l0[s][j]
        BY <3>3, <1>1 DEF Grown
      <4>3. Lists(ls, t, j, k) <=> Lists(l0, t, j, k)
        BY <4>1, <4>2, <3>1, <3>2, <3>3, <2>3 DEF Lists
      <4>4. k \in M => ~Names(mons, k, t, j)
        <5>1. \A x \in 1..c : j # n + x
          BY <3>3, <1>1, <1>2
        <5>. QED  BY <5>1, <1>3, <1>4 DEF Names
      <4>. QED  BY <4>3, <4>4, <2>1, <1>5
    <3>4. CASE j \in (n + 1)..(n + c)
      <4>. DEFINE x == j - n
      <4>1. x \in 1..c /\ j = n + x /\ j \in 1..(n + c) /\ j \notin 1..n
        BY <3>4, <1>1, <1>2
      <4>. HIDE DEF x
      <4>2. ls[s][j] = ms[x]
        <5>1. x \in Slots(ms)
          BY <4>1, <1>2
        <5>2. ls[s][n + x] = ms[x]
          BY <5>1 DEF Grown
        <5>. QED  BY <5>2, <4>1
      <4>3. Lists(ls, t, j, k) <=> k = ms[x]
        BY <4>1, <4>2, <3>1, <2>3 DEF Lists
      <4>4. k = ms[x] => Names(mons, k, t, j)
        BY <4>1, <1>4, <2>3
      <4>5. Names(mons, k, t, j) => k = ms[x]
        <5>. SUFFICES ASSUME Names(mons, k, t, j) PROVE k = ms[x]
          OBVIOUS
        <5>1. ~Lists(l0, t, j, k)
          BY <3>2, <4>1
        <5>2. k \in M
          BY <5>1, <2>1, <1>5
        <5>3. PICK y \in 1..c : k = ms[y]
          BY <5>2, <1>3
        <5>4. j = n + y
          BY <5>3, <1>4 DEF Names
        <5>5. x = y
          BY <5>4, <4>1, <1>1, <1>2
        <5>. QED  BY <5>3, <5>5
      <4>. QED  BY <4>3, <4>4, <4>5
    <3>5. CASE j \notin 1..(n + c)
      <4>1. j \notin 1..n /\ \A x \in 1..c : j # n + x
        BY <3>5, <1>1, <1>2
      <4>2. k \in M => ~Names(mons, k, t, j)
        BY <4>1, <1>3, <1>4 DEF Names
      <4>3. ~Lists(ls, t, j, k)
        BY <3>5, <3>1, <2>3 DEF Lists
      <4>. QED  BY <4>1, <4>2, <4>3, <3>2, <2>1, <1>5
    <3>. QED  BY <3>3, <3>4, <3>5, <1>1, <1>2
  <2>. QED  BY <2>2, <2>3
<1>8. ASSUME NEW k \in Slots(mons) \ {}
      PROVE  IF mons[k].alive /\ S # {} THEN mons[k].controller \in S ELSE mons[k].controller = 0
  <2>1. k \in Slots(m0) /\ mons[k].alive = m0[k].alive
    BY DEF Handed, SameMonsters
  <2>2. CASE k \in M
    <3>1. PICK x \in 1..c : k = ms[x]
      BY <2>2, <1>3
    <3>. QED  BY <3>1, <1>4 DEF Names
  <2>3. CASE k \notin M
    <3>1. IF m0[k].alive /\ S # {} THEN m0[k].controller \in S ELSE m0[k].controller = 0
      BY <2>1, <2>3, <1>6 DEF Linked
    <3>2. mons[k].controller = m0[k].controller
      BY <2>1, <2>3 DEF Handed, M
    <3>. QED  BY <3>1, <3>2, <2>1
  <2>. QED  BY <2>2, <2>3
<1>9. mons \in Seq(Monster) /\ ls \in Seq(Seq(Nat)) /\ S \subseteq Slots(ls)
  BY DEF Handed, SameMonsters, Grown, Linked
<1>. QED  BY <1>7, <1>8, <1>9 DEF Linked

Relink(e, c, i) == [e EXCEPT !.controller = c, !.index = i]

Relinked(f, e, c, i) ==
  /\ f \in Monster /\ f.oid = e.oid /\ f.spawner = e.spawner /\ f.alive = e.alive
  /\ f.controller = c /\ f.index = i

LEMMA MonsterRelinked ==
  ASSUME NEW e \in Monster, NEW c \in Nat, NEW i \in Nat
  PROVE  Relinked(Relink(e, c, i), e, c, i)
BY DEF Monster, Relink, Relinked

LEMMA Joined ==
  ASSUME NEW l0 \in Seq(Seq(Nat)), NEW s \in Slots(l0), NEW ms \in Seq(Nat)
  PROVE  Grown(Put(l0, s, l0[s] \o ms), l0, s, ms)
<1>. DEFINE q == l0[s] \o ms
            ls == Put(l0, s, q)
<1>1. l0[s] \in Seq(Nat)
  BY SeqTypes
<1>. PICK r : r = l0[s]
  OBVIOUS
<1>2. r \in Seq(Nat) /\ Len(r) \in Nat /\ Len(ms) \in Nat
  BY <1>1, SeqTypes
<1>3. /\ r \o ms \in Seq(Nat) /\ Len(r \o ms) = Len(r) + Len(ms)
      /\ \A j \in 1..Len(r) : (r \o ms)[j] = r[j]
      /\ \A x \in 1..Len(ms) : (r \o ms)[Len(r) + x] = ms[x]
  BY <1>2, ConcatProperties
<1>4. q = r \o ms
  OBVIOUS
<1>. HIDE DEF q
<1>5. /\ q \in Seq(Nat) /\ Slots(q) = 1..(Len(r) + Len(ms))
      /\ \A j \in Slots(r) : q[j] = r[j]
      /\ \A x \in Slots(ms) : q[Len(r) + x] = ms[x]
  BY <1>3, <1>4 DEF Slots
<1>6. ls \in Seq(Seq(Nat)) /\ Len(ls) = Len(l0) /\ Slots(ls) = Slots(l0)
      /\ \A t \in Slots(l0) : ls[t] = IF t = s THEN q ELSE l0[t]
  <2>1. q \in Seq(Nat)
    BY <1>5
  <2>. QED  BY <2>1, PutIn
<1>. HIDE DEF ls
<1>7. ls[s] = q /\ \A t \in Slots(l0) : t # s => ls[t] = l0[t]
  BY <1>6
<1>8. Grown(ls, l0, s, ms)
  BY <1>5, <1>6, <1>7 DEF Grown
<1>. QED  BY <1>8 DEF ls, q

LEMMA LinkAllKeeps ==
  ASSUME NEW w, NEW S, NEW ms, Linked(w.monsters, w.lists, S, Elems(ms)), Roll(ms, w.monsters),
         NEW s \in S
  PROVE  /\ Linked(LinkAll(w, ms, s).monsters, LinkAll(w, ms, s).lists, S, {})
         /\ Len(LinkAll(w, ms, s).lists) = Len(w.lists)
         /\ SameMonsters(LinkAll(w, ms, s).monsters, w.monsters)
<1>. DEFINE m0 == w.monsters
            l0 == w.lists
            n == Len(l0[s])
            mons == [m \in Slots(m0) |->
                       IF \E i \in Slots(ms) : ms[i] = m
                       THEN [m0[m] EXCEPT !.controller = s,
                                          !.index = n + CHOOSE i \in Slots(ms) : ms[i] = m]
                       ELSE m0[m]]
            ls == Put(l0, s, l0[s] \o ms)
<1>1. LinkAll(w, ms, s) = [monsters |-> mons, lists |-> ls]
  BY DEF LinkAll, Put
<1>2. Linked(m0, l0, S, Elems(ms)) /\ Roll(ms, m0)
  OBVIOUS
<1>. HIDE DEF m0, l0, ls
<1>3. m0 \in Seq(Monster) /\ l0 \in Seq(Seq(Nat)) /\ s \in Slots(l0) /\ ms \in Seq(Nat)
  BY <1>2 DEF Linked, Roll
<1>4. n \in Nat /\ s \in Nat
  BY <1>2, ListedMonster
<1>. HIDE DEF n
<1>5. \A m \in Slots(m0) : m0[m] \in Monster
  BY <1>3, SeqTypes
<1>6. ASSUME NEW x \in Slots(ms)
      PROVE  /\ ms[x] \in Slots(m0) /\ mons[ms[x]] \in Monster
             /\ mons[ms[x]].oid = m0[ms[x]].oid /\ mons[ms[x]].spawner = m0[ms[x]].spawner
             /\ mons[ms[x]].alive = m0[ms[x]].alive
             /\ mons[ms[x]].controller = s /\ mons[ms[x]].index = n + x
  <2>1. ms[x] \in Slots(m0) /\ (\E i \in Slots(ms) : ms[i] = ms[x]) /\ x \in Nat
    BY <1>2, <1>3, SeqTypes DEF Roll
  <2>2. (CHOOSE i \in Slots(ms) : ms[i] = ms[x]) = x
    BY <1>2 DEF Roll
  <2>3. mons[ms[x]] = Relink(m0[ms[x]], s, n + x)
    BY <2>1, <2>2 DEF Relink
  <2>4. m0[ms[x]] \in Monster
    BY <2>1, <1>5
  <2>5. n + x \in Nat
    BY <2>1, <1>4
  <2>. HIDE DEF mons
  <2>6. Relinked(mons[ms[x]], m0[ms[x]], s, n + x)
    BY <2>3, <2>4, <2>5, <1>4, MonsterRelinked
  <2>. QED  BY <2>1, <2>6 DEF Relinked
<1>7. \A m \in Slots(m0) : m \notin Elems(ms) => mons[m] = m0[m]
  BY DEF Elems
<1>8. DOMAIN mons = Slots(m0) /\ mons = [m \in Slots(m0) |-> mons[m]]
  OBVIOUS
<1>. HIDE DEF mons
<1>9. ASSUME NEW m \in Slots(m0)
      PROVE  /\ mons[m] \in Monster /\ mons[m].oid = m0[m].oid
             /\ mons[m].spawner = m0[m].spawner /\ mons[m].alive = m0[m].alive
  <2>1. CASE m \in Elems(ms)
    <3>1. PICK x \in Slots(ms) : m = ms[x]
      BY <2>1 DEF Elems
    <3>. QED  BY <3>1, <1>6
  <2>. QED  BY <2>1, <1>5, <1>7
<1>10. mons \in Seq(Monster) /\ Len(mons) = Len(m0)
  <2>1. Len(m0) \in Nat /\ Slots(m0) = 1..Len(m0)
    BY <1>3, SeqTypes DEF Slots
  <2>2. mons \in [1..Len(m0) -> Monster]
    BY <2>1, <1>8, <1>9
  <2>. QED  BY <2>1, <2>2, FunctionIsSeq
<1>11. SameMonsters(mons, m0)
  BY <1>9, <1>10 DEF SameMonsters, Slots
<1>12. Handed(mons, m0, s, n, ms)
  BY <1>6, <1>7, <1>11 DEF Handed
<1>13. Grown(ls, l0, s, ms)
  BY <1>3, Joined DEF ls
<1>14. Linked(mons, ls, S, {})
  BY <1>2, <1>12, <1>13, GrownLinks DEF n
<1>15. Len(ls) = Len(l0)
  BY <1>13 DEF Grown
<1>16. LinkAll(w, ms, s).monsters = mons /\ LinkAll(w, ms, s).lists = ls
  BY <1>1
<1>. QED  BY <1>11, <1>14, <1>15, <1>16 DEF m0, l0

LEMMA LinkKeeps ==
  ASSUME NEW w, NEW S, NEW m \in Slots(w.monsters), w.monsters[m].alive,
         Linked(w.monsters, w.lists, S, {m}), NEW s \in S
  PROVE  /\ Linked(Link(w, m, s).monsters, Link(w, m, s).lists, S, {})
         /\ Len(Link(w, m, s).lists) = Len(w.lists)
         /\ SameMonsters(Link(w, m, s).monsters, w.monsters)
<1>. DEFINE m0 == w.monsters
            l0 == w.lists
            n == Len(l0[s])
            e == Relink(m0[m], s, n + 1)
            mons == Put(m0, m, e)
            ms == <<m>>
            ls == Put(l0, s, l0[s] \o ms)
<1>1. m0 \in Seq(Monster) /\ l0 \in Seq(Seq(Nat)) /\ s \in Slots(l0)
  BY DEF Linked
<1>2. n \in Nat /\ s \in Nat /\ l0[s] \in Seq(Nat)
  BY ListedMonster
<1>3. m0[m] \in Monster /\ m \in Nat /\ DOMAIN m0 = Slots(m0)
  BY <1>1, SeqTypes
<1>4. ms \in Seq(Nat) /\ Len(ms) = 1 /\ Slots(ms) = {1} /\ ms[1] = m /\ Elems(ms) = {m}
  BY <1>3 DEF Slots, Elems
<1>5. Append(l0[s], m) = l0[s] \o ms
  BY <1>2, <1>3, AppendIsConcat
<1>6. [w.monsters EXCEPT ![m].controller = s, ![m].index = Len(w.lists[s]) + 1] = mons
  BY <1>3 DEF Put, Relink
<1>7. Link(w, m, s).monsters = mons /\ Link(w, m, s).lists = ls
  BY <1>5, <1>6 DEF Link, Put
<1>. HIDE DEF m0, l0, ms, mons, ls, e, n
<1>8. n + 1 \in Nat
  BY <1>2
<1>9. /\ e \in Monster /\ e.oid = m0[m].oid /\ e.spawner = m0[m].spawner
      /\ e.alive = m0[m].alive /\ e.controller = s /\ e.index = n + 1
  <2>1. Relinked(e, m0[m], s, n + 1)
    BY <1>2, <1>3, <1>8, MonsterRelinked DEF e
  <2>. QED  BY <2>1 DEF Relinked
<1>10. m \in Slots(m0)
  BY DEF m0
<1>11. mons \in Seq(Monster) /\ Len(mons) = Len(m0) /\ Slots(mons) = Slots(m0)
       /\ \A k \in Slots(m0) : mons[k] = IF k = m THEN e ELSE m0[k]
  <2>1. e \in Monster
    BY <1>9
  <2>2. LET p == Put(m0, m, e)
        IN  /\ p \in Seq(Monster) /\ Len(p) = Len(m0) /\ Slots(p) = Slots(m0)
            /\ \A k \in Slots(m0) : p[k] = IF k = m THEN e ELSE m0[k]
    BY <2>1, <1>1, <1>10, PutIn
  <2>. QED  BY <2>2 DEF mons
<1>12. SameMonsters(mons, m0)
  BY <1>9, <1>11 DEF SameMonsters
<1>13. Handed(mons, m0, s, n, ms)
  BY <1>4, <1>9, <1>10, <1>11, <1>12 DEF Handed
<1>14. Grown(ls, l0, s, ms)
  BY <1>1, <1>4, Joined DEF ls
<1>15. Linked(m0, l0, S, Elems(ms)) /\ m0[m].alive
  BY <1>4 DEF m0, l0
<1>16. Roll(ms, m0)
  BY <1>4, <1>10, <1>15 DEF Roll
<1>17. Linked(mons, ls, S, {})
  BY <1>13, <1>14, <1>15, <1>16, GrownLinks DEF n
<1>18. Len(ls) = Len(l0)
  BY <1>14 DEF Grown
<1>. QED  BY <1>7, <1>12, <1>17, <1>18 DEF m0, l0

-----------------------------------------------------------------------------
(* Seats that are taken, left and filled.                                  *)

(* Lists of slots in which nobody sits do not matter. *)
LEMMA SameLists ==
  ASSUME NEW m0, NEW l0, NEW S, NEW M, Linked(m0, l0, S, M),
         NEW ls \in Seq(Seq(Nat)), S \subseteq Slots(ls), \A t \in S : ls[t] = l0[t]
  PROVE  Linked(m0, ls, S, M)
<1>1. \A t \in S, i \in Nat, m \in Nat : Lists(ls, t, i, m) <=> Lists(l0, t, i, m)
  BY DEF Lists
<1>. QED  BY <1>1 DEF Linked

LEMMA ControlledListed ==
  ASSUME NEW m0, NEW l0, NEW S, Linked(m0, l0, S, {}), NEW n \in S,
         NEW k \in Slots(m0), m0[k].alive, m0[k].controller = n
  PROVE  k \in Elems(l0[n])
<1>1. Lists(l0, n, m0[k].index, k)
  BY MonsterListed
<1>. QED  BY <1>1 DEF Lists, Elems

(* map_leave(): the monsters of the player who leaves are in no list any more. *)
LEMMA SeatLost ==
  ASSUME NEW m0, NEW l0, NEW S, Linked(m0, l0, S, {}), NEW s \in S, S \ {s} # {}
  PROVE  Linked(m0, l0, S \ {s}, Elems(l0[s])) /\ Roll(l0[s], m0)
<1>. DEFINE M == Elems(l0[s])
<1>1. ASSUME NEW i \in Slots(l0[s])
      PROVE  i \in Nat /\ l0[s][i] \in Nat /\ Names(m0, l0[s][i], s, i)
  BY ListedMonster
<1>2. ASSUME NEW k, k \in M PROVE m0[k].controller = s
  <2>1. PICK i \in Slots(l0[s]) : k = l0[s][i]
    BY <1>2 DEF Elems
  <2>. QED  BY <2>1, <1>1 DEF Names
<1>3. ASSUME NEW k \in Slots(m0), m0[k].alive, m0[k].controller = s
      PROVE  k \in M
  <2>1. Lists(l0, s, m0[k].index, k)
    BY <1>3, MonsterListed
  <2>. QED  BY <2>1 DEF Lists, Elems
<1>. HIDE DEF M
<1>4. ASSUME NEW t \in S \ {s}, NEW i \in Nat, NEW k \in Nat
      PROVE  Lists(l0, t, i, k) <=> (k \notin M /\ Names(m0, k, t, i))
  <2>1. Lists(l0, t, i, k) <=> Names(m0, k, t, i)
    BY DEF Linked
  <2>2. Names(m0, k, t, i) => k \notin M
    BY <1>2 DEF Names
  <2>. QED  BY <2>1, <2>2
<1>5. ASSUME NEW k \in Slots(m0) \ M
      PROVE  IF m0[k].alive /\ S \ {s} # {} THEN m0[k].controller \in S \ {s} ELSE m0[k].controller = 0
  <2>1. IF m0[k].alive /\ S # {} THEN m0[k].controller \in S ELSE m0[k].controller = 0
    BY DEF Linked
  <2>. QED  BY <2>1, <1>3
<1>6. Linked(m0, l0, S \ {s}, M)
  BY <1>4, <1>5 DEF Linked
<1>7. Roll(l0[s], m0)
  <2>1. l0[s] \in Seq(Nat)
    BY ListedMonster
  <2>. QED  BY <1>1, <2>1 DEF Roll, Names
<1>. QED  BY <1>6, <1>7 DEF M

(* The monsters in the list q are told that their controller is now s. *)
Redirected(mons, m0, q, s) ==
  /\ SameMonsters(mons, m0)
  /\ \A k \in Slots(m0) :
       /\ mons[k].controller = IF k \in Elems(q) THEN s ELSE m0[k].controller
       /\ mons[k].index = m0[k].index

(* The player in slot n moves to the free slot s. *)
LEMMA SeatMoved ==
  ASSUME NEW m0, NEW l0, NEW S, Linked(m0, l0, S, {}), NEW n \in S, NEW s \in Nat \ S,
         NEW mons, Redirected(mons, m0, l0[n], s),
         NEW ls \in Seq(Seq(Nat)), NEW S1, S1 = (S \ {n}) \cup {s}, S1 \subseteq Slots(ls),
         ls[s] = l0[n], \A t \in S \ {n} : ls[t] = l0[t]
  PROVE  Linked(mons, ls, S1, {})
<1>. DEFINE M == Elems(l0[n])
<1>1. ASSUME NEW k, k \in M PROVE k \in Slots(m0) /\ m0[k].alive /\ m0[k].controller = n
  <2>1. PICK i \in Slots(l0[n]) : k = l0[n][i]
    BY <1>1 DEF Elems
  <2>. QED  BY <2>1, ListedMonster DEF Names
<1>2. ASSUME NEW k \in Slots(m0), m0[k].alive, m0[k].controller = n
      PROVE  k \in M
  BY <1>2, ControlledListed
<1>3. ASSUME NEW k \in Slots(m0)
      PROVE  IF m0[k].alive /\ S # {} THEN m0[k].controller \in S ELSE m0[k].controller = 0
  BY DEF Linked
<1>4. SameMonsters(mons, m0) /\ \A k \in Slots(m0) :
        /\ mons[k].controller = IF k \in M THEN s ELSE m0[k].controller
        /\ mons[k].index = m0[k].index
  BY DEF Redirected
<1>. HIDE DEF M
<1>5. ASSUME NEW t \in S1, NEW i \in Nat, NEW k \in Nat
      PROVE  Lists(ls, t, i, k) <=> (k \notin {} /\ Names(mons, k, t, i))
  <2>1. CASE t = s
    <3>1. Lists(ls, t, i, k) <=> Lists(l0, n, i, k)
      BY <2>1 DEF Lists
    <3>2. Lists(l0, n, i, k) <=> Names(m0, k, n, i)
      BY DEF Linked
    <3>3. Names(mons, k, t, i) <=> Names(m0, k, n, i)
      <4>1. k \in Slots(m0) /\ m0[k].alive => (mons[k].controller = s <=> m0[k].controller = n)
        BY <1>1, <1>2, <1>3, <1>4
      <4>. QED  BY <4>1, <2>1, <1>4 DEF Names, SameMonsters
    <3>. QED  BY <3>1, <3>2, <3>3
  <2>2. CASE t # s
    <3>1. t \in S \ {n}
      BY <2>2
    <3>2. Lists(ls, t, i, k) <=> Lists(l0, t, i, k)
      BY <3>1 DEF Lists
    <3>3. Lists(l0, t, i, k) <=> Names(m0, k, t, i)
      BY <3>1 DEF Linked
    <3>4. Names(mons, k, t, i) <=> Names(m0, k, t, i)
      <4>1. k \in Slots(m0) => (mons[k].controller = t <=> m0[k].controller = t)
        BY <3>1, <2>2, <1>1, <1>4
      <4>. QED  BY <4>1, <1>4 DEF Names, SameMonsters
    <3>. QED  BY <3>2, <3>3, <3>4
  <2>. QED  BY <2>1, <2>2
<1>6. ASSUME NEW k \in Slots(mons) \ {}
      PROVE  IF mons[k].alive /\ S1 # {} THEN mons[k].controller \in S1 ELSE mons[k].controller = 0
  <2>1. k \in Slots(m0) /\ mons[k].alive = m0[k].alive
    BY <1>4 DEF SameMonsters
  <2>2. CASE k \in M
    BY <2>1, <2>2, <1>1, <1>4
  <2>3. CASE k \notin M
    <3>1. mons[k].controller = m0[k].controller
      BY <2>1, <2>3, <1>4
    <3>2. m0[k].alive => m0[k].controller \in S \ {n}
      BY <2>1, <2>3, <1>2, <1>3
    <3>. QED  BY <2>1, <3>1, <3>2, <1>3
  <2>. QED  BY <2>2, <2>3
<1>7. mons \in Seq(Monster)
  BY <1>4 DEF SameMonsters
<1>. QED  BY <1>5, <1>6, <1>7 DEF Linked

(* map_join(): a player takes a seat; the first one finds the living monsters *)
(* without a controller.                                                   *)
LEMMA SeatTaken ==
  ASSUME NEW m0, NEW l0, NEW S, Linked(m0, l0, S, {}), NEW s \in Nat \ S, NEW M,
         IF S = {} THEN \A k \in Slots(m0) : k \in M <=> m0[k].alive ELSE M = {},
         NEW ls \in Seq(Seq(Nat)), S \cup {s} \subseteq Slots(ls),
         ls[s] = <<>>, \A t \in S : ls[t] = l0[t]
  PROVE  Linked(m0, ls, S \cup {s}, M)
<1>1. ASSUME NEW k \in Slots(m0)
      PROVE  IF m0[k].alive /\ S # {} THEN m0[k].controller \in S ELSE m0[k].controller = 0
  BY DEF Linked
<1>2. ASSUME NEW t \in S \cup {s}, NEW i \in Nat, NEW k \in Nat
      PROVE  Lists(ls, t, i, k) <=> (k \notin M /\ Names(m0, k, t, i))
  <2>1. CASE t = s
    <3>1. ~Lists(ls, t, i, k)
      BY <2>1 DEF Lists, Slots
    <3>2. k \notin M => ~Names(m0, k, t, i)
      BY <2>1, <1>1 DEF Names
    <3>. QED  BY <3>1, <3>2
  <2>2. CASE t # s
    <3>1. t \in S /\ M = {}
      BY <2>2
    <3>2. Lists(ls, t, i, k) <=> Lists(l0, t, i, k)
      BY <3>1 DEF Lists
    <3>. QED  BY <3>1, <3>2 DEF Linked
  <2>. QED  BY <2>1, <2>2
<1>3. ASSUME NEW k \in Slots(m0) \ M
      PROVE  IF m0[k].alive /\ S \cup {s} # {} THEN m0[k].controller \in S \cup {s} ELSE m0[k].controller = 0
  BY <1>1
<1>. QED  BY <1>2, <1>3 DEF Linked

(* map_leave() of the last player.                                         *)
Abandoned(mons, m0, M) ==
  /\ mons \in Seq(Monster) /\ Len(mons) = Len(m0) /\ Slots(mons) = Slots(m0)
  /\ \A k \in Slots(m0) :
       /\ mons[k].oid = m0[k].oid /\ mons[k].spawner = m0[k].spawner /\ mons[k].alive = m0[k].alive
       /\ mons[k].controller = IF k \in M THEN 0 ELSE m0[k].controller
       /\ mons[k].index = IF k \in M THEN 0 ELSE m0[k].index

LEMMA AbandonEffect ==
  ASSUME NEW m0 \in Seq(Monster), NEW M
  PROVE  Abandoned(Abandon(m0, M), m0, M)
<1>. DEFINE mons == Abandon(m0, M)
<1>1. ASSUME NEW k \in Slots(m0)
      PROVE  /\ mons[k] \in Monster
             /\ mons[k].oid = m0[k].oid /\ mons[k].spawner = m0[k].spawner /\ mons[k].alive = m0[k].alive
             /\ mons[k].controller = IF k \in M THEN 0 ELSE m0[k].controller
             /\ mons[k].index = IF k \in M THEN 0 ELSE m0[k].index
  <2>1. m0[k] \in Monster
    BY SeqTypes
  <2>2. CASE k \in M
    <3>1. mons[k] = Relink(m0[k], 0, 0)
      BY <2>2 DEF Abandon, Relink
    <3>2. Relinked(mons[k], m0[k], 0, 0)
      BY <2>1, <3>1, MonsterRelinked
    <3>. HIDE DEF mons
    <3>. QED  BY <2>2, <3>2 DEF Relinked
  <2>3. CASE k \notin M
    <3>1. mons[k] = m0[k]
      BY <2>3 DEF Abandon
    <3>. HIDE DEF mons
    <3>. QED  BY <2>1, <2>3, <3>1
  <2>. QED  BY <2>2, <2>3
<1>2. mons = [k \in Slots(m0) |-> mons[k]]
  BY DEF Abandon
<1>. HIDE DEF mons
<1>3. mons \in Seq(Monster) /\ Len(mons) = Len(m0)
  <2>1. Len(m0) \in Nat /\ Slots(m0) = 1..Len(m0)
    BY SeqTypes DEF Slots
  <2>2. mons \in [1..Len(m0) -> Monster]
    BY <1>1, <1>2, <2>1
  <2>. QED  BY <2>1, <2>2, FunctionIsSeq
<1>4. Slots(mons) = Slots(m0)
  BY <1>3 DEF Slots
<1>5. Abandoned(mons, m0, M)
  BY <1>1, <1>3, <1>4 DEF Abandoned
<1>. QED  BY <1>5 DEF mons

LEMMA SeatsEmpty ==
  ASSUME NEW m0, NEW l0, NEW s, Linked(m0, l0, {s}, {}),
         NEW mons, Abandoned(mons, m0, Elems(l0[s]))
  PROVE  Linked(mons, <<>>, {}, {})
<1>1. ASSUME NEW k \in Slots(m0) PROVE mons[k].controller = 0
  <2>1. CASE m0[k].alive
    <3>1. {s} # {} /\ k \notin {}
      OBVIOUS
    <3>2. Lists(l0, m0[k].controller, m0[k].index, k) /\ m0[k].controller \in {s}
      BY <2>1, <3>1, MonsterListed
    <3>3. k \in Elems(l0[s])
      BY <3>2 DEF Lists, Elems
    <3>. QED  BY <3>3 DEF Abandoned
  <2>2. CASE ~m0[k].alive
    <3>1. m0[k].controller = 0
      BY <2>2 DEF Linked
    <3>. QED  BY <3>1 DEF Abandoned
  <2>. QED  BY <2>1, <2>2
<1>2. mons \in Seq(Monster) /\ Slots(mons) = Slots(m0)
  BY DEF Abandoned
<1>3. <<>> \in Seq(Seq(Nat))
  OBVIOUS
<1>. QED  BY <1>1, <1>2, <1>3 DEF Linked

-----------------------------------------------------------------------------
(* Monsters that are made, die and are removed.                            *)

(* Monster m loses its hit points and its controller. *)
Struck(m0, m) == Abandon([m0 EXCEPT ![m].alive = FALSE], {m})

(* map_damage_monster_by(): a monster without hit points and a controller. *)
LEMMA SlainKeeps ==
  ASSUME NEW m0, NEW ls, NEW S, NEW m \in Slots(m0), Linked(m0, ls, S, {m}),
         NEW mons, mons = Struck(m0, m)
  PROVE  /\ Linked(mons, ls, S, {}) /\ Len(mons) = Len(m0) /\ Slots(mons) = Slots(m0)
         /\ \A k \in Slots(m0) : /\ mons[k].oid = m0[k].oid /\ mons[k].spawner = m0[k].spawner
                                 /\ mons[k].alive = (m0[k].alive /\ k # m)
<1>. USE DEF Struck
<1>. DEFINE e == [m0[m] EXCEPT !.alive = FALSE]
            m1 == Put(m0, m, e)
<1>1. m0 \in Seq(Monster)
  BY DEF Linked
<1>2. m0[m] \in Monster /\ DOMAIN m0 = Slots(m0)
  BY <1>1, SeqTypes
<1>3. /\ e \in Monster /\ e.oid = m0[m].oid /\ e.spawner = m0[m].spawner /\ e.alive = FALSE
  BY <1>2 DEF Monster
<1>4. mons = Abandon(m1, {m})
  BY DEF Put
<1>. HIDE DEF e
<1>5. m1 \in Seq(Monster) /\ Len(m1) = Len(m0) /\ Slots(m1) = Slots(m0)
      /\ \A k \in Slots(m0) : m1[k] = IF k = m THEN e ELSE m0[k]
  <2>1. e \in Monster
    BY <1>3
  <2>. QED  BY <1>1, <2>1, PutIn
<1>. HIDE DEF m1
<1>6. Abandoned(mons, m1, {m})
  BY <1>4, <1>5, AbandonEffect
<1>7. mons \in Seq(Monster) /\ Len(mons) = Len(m0) /\ Slots(mons) = Slots(m0)
  BY <1>5, <1>6 DEF Abandoned
<1>8. mons[m].oid = m0[m].oid /\ mons[m].spawner = m0[m].spawner
      /\ mons[m].alive = FALSE /\ mons[m].controller = 0
  BY <1>3, <1>5, <1>6 DEF Abandoned
<1>9. ASSUME NEW k \in Slots(m0), k # m
      PROVE  /\ mons[k].oid = m0[k].oid /\ mons[k].spawner = m0[k].spawner
             /\ mons[k].alive = m0[k].alive /\ mons[k].controller = m0[k].controller
             /\ mons[k].index = m0[k].index
  BY <1>5, <1>6, <1>9 DEF Abandoned
<1>10. ASSUME NEW t \in S, NEW i \in Nat, NEW k \in Nat
       PROVE  Lists(ls, t, i, k) <=> (k \notin {} /\ Names(mons, k, t, i))
  <2>1. Lists(ls, t, i, k) <=> (k \notin {m} /\ Names(m0, k, t, i))
    BY DEF Linked
  <2>2. k # m => (Names(mons, k, t, i) <=> Names(m0, k, t, i))
    BY <1>7, <1>9 DEF Names
  <2>3. ~Names(mons, m, t, i)
    BY <1>8 DEF Names
  <2>. QED  BY <2>1, <2>2, <2>3
<1>11. ASSUME NEW k \in Slots(mons) \ {}
       PROVE  IF mons[k].alive /\ S # {} THEN mons[k].controller \in S ELSE mons[k].controller = 0
  <2>1. CASE k = m
    BY <2>1, <1>8
  <2>2. CASE k # m
    <3>1. IF m0[k].alive /\ S # {} THEN m0[k].controller \in S ELSE m0[k].controller = 0
      BY <2>2, <1>7 DEF Linked
    <3>. QED  BY <3>1, <2>2, <1>7, <1>9
  <2>. QED  BY <2>1, <2>2
<1>12. Linked(mons, ls, S, {})
  BY <1>7, <1>10, <1>11 DEF Linked
<1>13. ASSUME NEW k \in Slots(m0)
       PROVE  /\ mons[k].oid = m0[k].oid /\ mons[k].spawner = m0[k].spawner
              /\ mons[k].alive = (m0[k].alive /\ k # m)
  <2>1. m0[k].alive \in BOOLEAN
    <3>1. m0[k] \in Monster
      BY <1>1, SeqTypes
    <3>. QED  BY <3>1 DEF Monster
  <2>. QED  BY <2>1, <1>8, <1>9
<1>. QED  BY <1>7, <1>12, <1>13

(* map_spawn(), on_respawn(): c monsters are added behind the others, with the slots ms. *)
LinksGrown(mons, m0, ms, c) ==
  /\ mons \in Seq(Monster) /\ Len(mons) = Len(m0) + c
  /\ \A k \in Slots(m0) : mons[k] = m0[k]
  /\ ms \in Seq(Nat) /\ Slots(ms) = 1..c
  /\ \A x \in 1..c : /\ ms[x] = Len(m0) + x
                     /\ mons[ms[x]].alive /\ mons[ms[x]].controller = 0

LEMMA SpawnedLinks ==
  ASSUME NEW m0, NEW l0, NEW S, Linked(m0, l0, S, {}), NEW c \in Nat,
         NEW mons, NEW ms, LinksGrown(mons, m0, ms, c)
  PROVE  /\ Linked(mons, l0, S, Elems(ms)) /\ Roll(ms, mons)
         /\ S = {} => Linked(mons, l0, S, {})
<1>. USE DEF LinksGrown
<1>1. m0 \in Seq(Monster)
  BY DEF Linked
<1>. PICK n : n = Len(m0)
  OBVIOUS
<1>2. n \in Nat /\ Slots(m0) = 1..n /\ Slots(mons) = 1..(n + c)
  BY <1>1, SeqTypes DEF Slots
<1>. DEFINE M == Elems(ms)
<1>3. \A k : k \in M <=> \E x \in 1..c : k = n + x
  BY DEF Elems
<1>4. \A k \in 1..(n + c) : k \in M <=> k \notin 1..n
  <2>1. ASSUME NEW k \in 1..(n + c), k \notin 1..n PROVE k \in M
    <3>1. k - n \in 1..c /\ k = n + (k - n)
      BY <1>2, <2>1
    <3>. QED  BY <3>1, <1>3
  <2>2. ASSUME NEW k \in 1..(n + c), k \in M PROVE k \notin 1..n
    BY <1>2, <1>3, <2>2
  <2>. QED  BY <2>1, <2>2
<1>. HIDE DEF M
<1>5. ASSUME NEW t \in S, NEW j \in Nat, NEW k \in Nat
      PROVE  Lists(l0, t, j, k) <=> (k \notin M /\ Names(mons, k, t, j))
  <2>1. Lists(l0, t, j, k) <=> Names(m0, k, t, j)
    BY DEF Linked
  <2>2. Names(m0, k, t, j) <=> (k \notin M /\ Names(mons, k, t, j))
    <3>1. k \in 1..n <=> (k \in 1..(n + c) /\ k \notin M)
      <4>1. k \in 1..n => k \in 1..(n + c)
        BY <1>2
      <4>. QED  BY <4>1, <1>4
    <3>. QED  BY <3>1, <1>2 DEF Names
  <2>. QED  BY <2>1, <2>2
<1>6. ASSUME NEW k \in Slots(mons) \ M
      PROVE  IF mons[k].alive /\ S # {} THEN mons[k].controller \in S ELSE mons[k].controller = 0
  <2>1. k \in Slots(m0) /\ mons[k] = m0[k]
    BY <1>2, <1>4
  <2>. QED  BY <2>1 DEF Linked
<1>7. S \subseteq Slots(l0) /\ l0 \in Seq(Seq(Nat))
  BY DEF Linked
<1>8. Linked(mons, l0, S, M)
  BY <1>5, <1>6, <1>7 DEF Linked
<1>9. Roll(ms, mons)
  <2>1. ASSUME NEW i \in Slots(ms), NEW j \in Slots(ms), ms[i] = ms[j] PROVE i = j
    <3>1. i \in 1..c /\ j \in 1..c /\ n + i = n + j
      BY <2>1
    <3>. QED  BY <3>1, <1>2
  <2>2. ASSUME NEW i \in Slots(ms) PROVE ms[i] \in Slots(mons) /\ mons[ms[i]].alive
    <3>1. i \in 1..c /\ ms[i] = n + i
      OBVIOUS
    <3>2. n + i \in 1..(n + c)
      BY <3>1, <1>2
    <3>. QED  BY <3>1, <3>2, <1>2
  <2>. QED  BY <2>1, <2>2 DEF Roll
<1>10. ASSUME S = {} PROVE Linked(mons, l0, S, {})
  <2>1. ASSUME NEW k \in Slots(mons) \ {} PROVE mons[k].controller = 0
    <3>1. CASE k \in M
      <4>1. PICK x \in 1..c : k = ms[x]
        BY <3>1 DEF M, Elems
      <4>. QED  BY <4>1
    <3>. QED  BY <3>1, <1>6, <1>10
  <2>. QED  BY <2>1, <1>7, <1>10 DEF Linked
<1>. QED  BY <1>8, <1>9, <1>10 DEF M

(* map_kill_monster(): the last monster moves to the free slot i, and entry x of the *)
(* list of s, where its controller has it, says so.                        *)
Retold(ls, l0, s, x, i) ==
  /\ ls \in Seq(Seq(Nat)) /\ Len(ls) = Len(l0) /\ Slots(ls) = Slots(l0)
  /\ \A t \in Slots(l0) :
       /\ Slots(ls[t]) = Slots(l0[t])
       /\ \A j \in Slots(l0[t]) : ls[t][j] = IF t = s /\ j = x THEN i ELSE l0[t][j]

(* The last of n monsters was moved to slot i. *)
Moved(mons, m0, i, n) ==
  Slots(mons) = 1..(n - 1) /\ \A k \in 1..(n - 1) : mons[k] = IF k = i THEN m0[n] ELSE m0[k]

LEMMA RemovedLinks ==
  ASSUME NEW m0, NEW l0, NEW S, Linked(m0, l0, S, {}), NEW i \in Slots(m0), ~m0[i].alive,
         NEW n, n = Len(m0), NEW mons \in Seq(Monster), Moved(mons, m0, i, n),
         NEW ls, Retold(ls, l0, m0[n].controller, m0[n].index, i)
  PROVE  Linked(mons, ls, S, {})
<1>. USE DEF Moved
<1>. PICK s : s = m0[n].controller
  OBVIOUS
<1>. PICK x : x = m0[n].index
  OBVIOUS
<1>1. m0 \in Seq(Monster) /\ l0 \in Seq(Seq(Nat)) /\ S \subseteq Slots(l0)
  BY DEF Linked
<1>2. n \in Nat \ {0} /\ i \in 1..n /\ n \in Slots(m0) /\ Slots(m0) = 1..n
  <2>1. n \in Nat /\ i \in 1..n /\ Slots(m0) = 1..n
    BY <1>1, SeqTypes DEF Slots
  <2>. QED  BY <2>1
<1>3. \A k : k \in Slots(mons) <=> (k \in Slots(m0) /\ k # n)
  BY <1>2
<1>4. \A k \in Slots(mons) : mons[k] = IF k = i THEN m0[n] ELSE m0[k]
  OBVIOUS
<1>5. 0 \notin S
  BY <1>1 DEF Slots
<1>6. IF m0[n].alive /\ S # {} THEN s \in S ELSE s = 0
  BY <1>2 DEF Linked
<1>7. ASSUME NEW t \in S, NEW j \in Nat, NEW k \in Nat
      PROVE  Lists(ls, t, j, k) <=> (k \notin {} /\ Names(mons, k, t, j))
  <2>1. Lists(l0, t, j, k) <=> Names(m0, k, t, j)
    BY DEF Linked
  <2>2. t \in Slots(l0)
    BY <1>1
  <2>3. Lists(l0, t, j, n) <=> Names(m0, n, t, j)
    BY <1>2 DEF Linked
  <2>4. Names(m0, n, t, j) <=> (m0[n].alive /\ t = s /\ j = x)
    BY <1>2 DEF Names
  <2>5. ~Names(m0, i, t, j)
    BY DEF Names
  <2>6. k = i => (Names(mons, k, t, j) <=> (i # n /\ Names(m0, n, t, j)))
    <3>. SUFFICES ASSUME k = i PROVE Names(mons, i, t, j) <=> (i # n /\ Names(m0, n, t, j))
      OBVIOUS
    <3>1. i \in Slots(mons) <=> i # n
      BY <1>3
    <3>2. i # n => mons[i] = m0[n]
      BY <3>1, <1>4
    <3>. QED  BY <3>1, <3>2, <1>2 DEF Names
  <2>7. k # i => (Names(mons, k, t, j) <=> (k # n /\ Names(m0, k, t, j)))
    <3>1. k \in Slots(mons) /\ k # i => mons[k] = m0[k]
      BY <1>4
    <3>. QED  BY <3>1, <1>3 DEF Names
  <2>8. CASE m0[n].alive /\ t = s /\ j = x
    <3>1. Lists(l0, t, j, n)
      BY <2>3, <2>4, <2>8
    <3>2. i # n
      BY <2>8
    <3>3. Lists(ls, t, j, k) <=> k = i
      <4>1. j \in Slots(l0[t])
        BY <3>1 DEF Lists
      <4>. QED  BY <4>1, <2>2, <2>8 DEF Lists, Retold
    <3>4. Lists(l0, t, j, k) => k = n
      BY <3>1 DEF Lists
    <3>. QED  BY <3>2, <3>3, <3>4, <2>1, <2>4, <2>6, <2>7, <2>8
  <2>9. CASE ~(m0[n].alive /\ t = s /\ j = x)
    <3>1. ~(t = s /\ j = x)
      BY <2>9, <1>5, <1>6
    <3>2. Lists(ls, t, j, k) <=> Lists(l0, t, j, k)
      BY <3>1, <2>2 DEF Lists, Retold
    <3>. QED  BY <3>2, <2>1, <2>4, <2>5, <2>6, <2>7, <2>9
  <2>. QED  BY <2>8, <2>9
<1>8. ASSUME NEW k \in Slots(mons) \ {}
      PROVE  IF mons[k].alive /\ S # {} THEN mons[k].controller \in S ELSE mons[k].controller = 0
  <2>1. CASE k = i
    BY <2>1, <1>4, <1>6
  <2>2. CASE k # i
    <3>1. mons[k] = m0[k] /\ k \in Slots(m0)
      BY <2>2, <1>3, <1>4
    <3>. QED  BY <3>1 DEF Linked
  <2>. QED  BY <2>1, <2>2
<1>9. ls \in Seq(Seq(Nat)) /\ S \subseteq Slots(ls)
  BY <1>1 DEF Retold
<1>. QED  BY <1>7, <1>8, <1>9 DEF Linked

-----------------------------------------------------------------------------
(* The inductive invariant, part by part.                                  *)

Injective(q) == \A i, j \in Slots(q) : q[i] = q[j] => i = j

(* The players sit in different slots of an array that is large enough. *)
SeatsOK(ps, cap) ==
  ps \in Seq(Player) /\ cap \in Nat \ {0} /\ Len(ps) <= cap /\ Injective(ps)

(* The heap is in order and has the node of every player, with his slot. *)
NodesOK(h, ps) ==
  /\ h \in Seq(Node) /\ WhoDistinct(h) /\ Ordered(h) /\ Len(h) = Len(ps)
  /\ \A i \in Slots(h) : h[i].slot \in Slots(ps) /\ ps[h[i].slot] = h[i].who
  /\ \A s \in Slots(ps) : \E i \in Slots(h) : h[i].who = ps[s]

(* What the operations of the heap do, as far as the map can tell.         *)
Pushed(g, h, node) ==
  /\ g \in Seq(Node) /\ Len(g) = Len(h) + 1 /\ WhoDistinct(g) /\ Ordered(g)
  /\ \A i \in Slots(h) : \E j \in Slots(g) : g[j] = h[i]
  /\ \E j \in Slots(g) : g[j] = node
  /\ \A j \in Slots(g) : g[j] = node \/ \E i \in Slots(h) : g[j] = h[i]

Removed(g, h, p) ==
  /\ g \in Seq(Node) /\ Len(g) = Len(h) - 1 /\ WhoDistinct(g) /\ Ordered(g)
  /\ \A i \in Slots(h) : h[i].who # p => \E j \in Slots(g) : g[j] = h[i]
  /\ \A j \in Slots(g) : g[j].who # p /\ \E i \in Slots(h) : g[j] = h[i]

(* Node f is node e after n more monsters. *)
Given2(f, e, n) == f.who = e.who /\ f.slot = e.slot /\ f.count = e.count + n

Increased(g, h, n) ==
  /\ g \in Seq(Node) /\ Len(g) = Len(h) /\ WhoDistinct(g) /\ Ordered(g)
  /\ \A i \in Slots(h) : \E j \in Slots(g) : Given2(g[j], h[i], IF i = 1 THEN n ELSE 0)
  /\ \A j \in Slots(g) : \E i \in Slots(h) : Given2(g[j], h[i], IF i = 1 THEN n ELSE 0)

LEMMA PushDoes ==
  ASSUME NEW h \in Seq(Node), WhoDistinct(h), Ordered(h), NEW node \in Node,
         \A i \in Slots(h) : h[i].who # node.who
  PROVE  Pushed(HeapPush(h, node), h, node)
BY PushKeeps DEF Pushed

LEMMA RemoveDoes ==
  ASSUME NEW h \in Seq(Node), WhoDistinct(h), Ordered(h), NEW p, \E i \in Slots(h) : h[i].who = p
  PROVE  Removed(HeapRemove(h, p), h, p)
BY RemoveKeeps DEF Removed

LEMMA IncDoes ==
  ASSUME NEW h \in Seq(Node), WhoDistinct(h), Ordered(h), h # <<>>, NEW n \in Nat,
         h[1].count + n <= MaxControllees
  PROVE  Increased(HeapInc(h, n), h, n)
<1>. DEFINE a == [h EXCEPT ![1].count = @ + n]
            g == HeapInc(h, n)
<1>1. /\ g \in Shuffles(a) /\ Ordered(g) /\ a \in Seq(Node) /\ Len(a) = Len(h) /\ 1 \in Slots(h)
      /\ \A i \in Slots(h) : a[i] = IF i = 1 THEN [h[1] EXCEPT !.count = h[1].count + n] ELSE h[i]
  BY IncKeeps
<1>. HIDE DEF a, g
<1>2. /\ g \in Seq(Node) /\ Len(g) = Len(h) /\ WhoDistinct(g) /\ Slots(a) = Slots(h)
      /\ \A i \in Slots(h) : \E j \in Slots(g) : g[j] = a[i]
      /\ \A j \in Slots(g) : \E i \in Slots(h) : g[j] = a[i]
  BY <1>1 DEF Shuffles, Slots
<1>3. ASSUME NEW i \in Slots(h)
      PROVE  Given2(a[i], h[i], IF i = 1 THEN n ELSE 0)
  <2>1. h[i] \in Node /\ h[i].count \in Nat
    BY HeapTypes
  <2>2. CASE i = 1
    <3>1. a[i] = [h[i] EXCEPT !.count = h[i].count + n]
      BY <1>1, <2>2
    <3>. QED  BY <3>1, <2>1, <2>2 DEF Given2, Node
  <2>3. CASE i # 1
    <3>1. a[i] = h[i]
      BY <1>1, <2>3
    <3>. QED  BY <3>1, <2>1, <2>3 DEF Given2
  <2>. QED  BY <2>2, <2>3
<1>4. Increased(g, h, n)
  BY <1>1, <1>2, <1>3 DEF Increased
<1>. QED  BY <1>4 DEF g

LEMMA NodesJoin ==
  ASSUME NEW h, NEW ps \in Seq(Player), NodesOK(h, ps), NEW p \in Player,
         \A s \in Slots(ps) : ps[s] # p,
         NEW c \in 0..SpawnerCount, NEW g, Pushed(g, h, [who |-> p, count |-> c, slot |-> Len(ps) + 1])
  PROVE  NodesOK(g, Append(ps, p))
<1>. DEFINE node == [who |-> p, count |-> c, slot |-> Len(ps) + 1]
            n == Len(ps) + 1
            qs == Append(ps, p)
<1>1. Len(ps) \in Nat /\ Len(qs) = n /\ Slots(ps) = 1..Len(ps) /\ Slots(qs) = 1..n
      /\ qs[n] = p /\ \A s \in 1..Len(ps) : qs[s] = ps[s]
  BY AppendProperties, SeqTypes DEF Slots
<1>2. node.who = p /\ node.slot = n
  OBVIOUS
<1>3. Pushed(g, h, node)
  OBVIOUS
<1>. HIDE DEF node, qs
<1>4. ASSUME NEW j \in Slots(g) PROVE g[j].slot \in Slots(qs) /\ qs[g[j].slot] = g[j].who
  <2>1. CASE g[j] = node
    BY <2>1, <1>1, <1>2
  <2>2. CASE \E i \in Slots(h) : g[j] = h[i]
    <3>1. g[j].slot \in Slots(ps) /\ ps[g[j].slot] = g[j].who
      BY <2>2 DEF NodesOK
    <3>. QED  BY <3>1, <1>1
  <2>. QED  BY <2>1, <2>2, <1>3 DEF Pushed
<1>5. ASSUME NEW s \in Slots(qs) PROVE \E j \in Slots(g) : g[j].who = qs[s]
  <2>1. CASE s = n
    BY <2>1, <1>1, <1>2, <1>3 DEF Pushed
  <2>2. CASE s # n
    <3>1. s \in Slots(ps) /\ qs[s] = ps[s]
      BY <2>2, <1>1
    <3>2. PICK i \in Slots(h) : h[i].who = ps[s]
      BY <3>1 DEF NodesOK
    <3>3. PICK j \in Slots(g) : g[j] = h[i]
      BY <1>3 DEF Pushed
    <3>. QED  BY <3>1, <3>2, <3>3
  <2>. QED  BY <2>1, <2>2
<1>6. g \in Seq(Node) /\ WhoDistinct(g) /\ Ordered(g) /\ Len(g) = Len(qs)
  BY <1>1, <1>3 DEF Pushed, NodesOK
<1>. QED  BY <1>4, <1>5, <1>6 DEF NodesOK, qs

LEMMA NodesInc ==
  ASSUME NEW h, NEW ps, NodesOK(h, ps), NEW n \in Nat, NEW g, Increased(g, h, n)
  PROVE  NodesOK(g, ps)
<1>1. ASSUME NEW j \in Slots(g) PROVE g[j].slot \in Slots(ps) /\ ps[g[j].slot] = g[j].who
  <2>1. PICK i \in Slots(h) : Given2(g[j], h[i], IF i = 1 THEN n ELSE 0)
    BY DEF Increased
  <2>2. g[j].who = h[i].who /\ g[j].slot = h[i].slot
    BY <2>1 DEF Given2
  <2>. QED  BY <2>2 DEF NodesOK
<1>2. ASSUME NEW s \in Slots(ps) PROVE \E j \in Slots(g) : g[j].who = ps[s]
  <2>1. PICK i \in Slots(h) : h[i].who = ps[s]
    BY DEF NodesOK
  <2>2. PICK j \in Slots(g) : Given2(g[j], h[i], IF i = 1 THEN n ELSE 0)
    BY DEF Increased
  <2>. QED  BY <2>1, <2>2 DEF Given2
<1>. QED  BY <1>1, <1>2 DEF NodesOK, Increased

(* The nodes of slot n say s. *)
Relocated(f, g, n, s) ==
  /\ f \in Seq(Node) /\ Len(f) = Len(g) /\ Slots(f) = Slots(g)
  /\ \A i \in Slots(g) : /\ f[i].who = g[i].who /\ f[i].count = g[i].count
                         /\ f[i].slot = IF g[i].slot = n THEN s ELSE g[i].slot

LEMMA RelocateDoes ==
  ASSUME NEW g \in Seq(Node), NEW n, NEW s \in Nat
  PROVE  Relocated([i \in Slots(g) |-> IF g[i].slot = n THEN [g[i] EXCEPT !.slot = s] ELSE g[i]], g, n, s)
<1>. DEFINE f == [i \in Slots(g) |-> IF g[i].slot = n THEN [g[i] EXCEPT !.slot = s] ELSE g[i]]
<1>1. ASSUME NEW i \in Slots(g)
      PROVE  /\ f[i] \in Node /\ f[i].who = g[i].who /\ f[i].count = g[i].count
             /\ f[i].slot = IF g[i].slot = n THEN s ELSE g[i].slot
  <2>1. g[i] \in Node
    BY HeapTypes
  <2>2. CASE g[i].slot = n
    <3>1. f[i] = [g[i] EXCEPT !.slot = s]
      BY <2>2
    <3>. HIDE DEF f
    <3>. QED  BY <3>1, <2>1, <2>2 DEF Node
  <2>3. CASE g[i].slot # n
    <3>1. f[i] = g[i]
      BY <2>3
    <3>. HIDE DEF f
    <3>. QED  BY <3>1, <2>1, <2>3
  <2>. QED  BY <2>2, <2>3
<1>2. f = [i \in Slots(g) |-> f[i]]
  OBVIOUS
<1>. HIDE DEF f
<1>3. f \in Seq(Node) /\ Len(f) = Len(g)
  <2>1. Len(g) \in Nat /\ Slots(g) = 1..Len(g)
    BY SeqTypes DEF Slots
  <2>2. f \in [1..Len(g) -> Node]
    BY <1>1, <1>2, <2>1
  <2>. QED  BY <2>1, <2>2, FunctionIsSeq
<1>4. Slots(f) = Slots(g)
  BY <1>3 DEF Slots
<1>5. Relocated(f, g, n, s)
  BY <1>1, <1>3, <1>4 DEF Relocated
<1>. QED  BY <1>5 DEF f

(* The player in slot s is gone; the last one, if it is another, sits there. *)
Vacated(qs, ps, s) ==
  /\ qs \in Seq(Player) /\ Len(qs) = Len(ps) - 1
  /\ \A j \in 1..(Len(ps) - 1) : qs[j] = IF j = s THEN ps[Len(ps)] ELSE ps[j]

LEMMA NodesLeave ==
  ASSUME NEW h, NEW ps \in Seq(Player), NodesOK(h, ps), Injective(ps), NEW s \in Slots(ps),
         NEW g, Removed(g, h, ps[s]), NEW f, Relocated(f, g, Len(ps), s),
         NEW qs, Vacated(qs, ps, s)
  PROVE  NodesOK(f, qs)
<1>. PICK n : n = Len(ps)
  OBVIOUS
<1>1. n \in Nat \ {0} /\ Slots(ps) = 1..n /\ s \in 1..n
  <2>1. n \in Nat /\ Slots(ps) = 1..n /\ s \in 1..n
    BY SeqTypes DEF Slots
  <2>. QED  BY <2>1
<1>2. Slots(qs) = 1..(n - 1) /\ \A j \in 1..(n - 1) : qs[j] = IF j = s THEN ps[n] ELSE ps[j]
  BY DEF Vacated, Slots
<1>3. ASSUME NEW i \in Slots(f) PROVE f[i].slot \in Slots(qs) /\ qs[f[i].slot] = f[i].who
  <2>1. i \in Slots(g) /\ f[i].who = g[i].who /\ f[i].slot = IF g[i].slot = n THEN s ELSE g[i].slot
    BY DEF Relocated
  <2>2. PICK k \in Slots(h) : g[i] = h[k]
    BY <2>1 DEF Removed
  <2>3. g[i].who # ps[s]
    BY <2>1 DEF Removed
  <2>. PICK t : t = g[i].slot
    OBVIOUS
  <2>4. t \in 1..n /\ ps[t] = g[i].who
    BY <2>2, <1>1 DEF NodesOK
  <2>5. t # s
    BY <2>3, <2>4
  <2>6. CASE t = n
    <3>1. s \in 1..(n - 1)
      BY <2>5, <2>6, <1>1
    <3>. QED  BY <3>1, <2>1, <2>4, <2>6, <1>2
  <2>7. CASE t # n
    <3>1. t \in 1..(n - 1)
      BY <2>4, <2>7, <1>1
    <3>. QED  BY <3>1, <2>1, <2>4, <2>5, <2>7, <1>2
  <2>. QED  BY <2>6, <2>7
<1>4. ASSUME NEW j \in Slots(qs) PROVE \E i \in Slots(f) : f[i].who = qs[j]
  <2>1. PICK k \in 1..n : k # s /\ qs[j] = ps[k]
    <3>1. CASE j = s
      <4>1. n # s /\ n \in 1..n
        BY <3>1, <1>1, <1>2
      <4>. QED  BY <4>1, <3>1, <1>2
    <3>2. CASE j # s
      <4>1. j \in 1..n
        BY <1>1, <1>2
      <4>. QED  BY <4>1, <3>2, <1>2
    <3>. QED  BY <3>1, <3>2
  <2>2. ps[k] # ps[s]
    BY <2>1, <1>1 DEF Injective
  <2>3. PICK i \in Slots(h) : h[i].who = ps[k]
    BY <2>1, <1>1 DEF NodesOK
  <2>4. PICK x \in Slots(g) : g[x] = h[i]
    BY <2>2, <2>3 DEF Removed
  <2>5. x \in Slots(f) /\ f[x].who = g[x].who
    BY <2>4 DEF Relocated
  <2>. QED  BY <2>1, <2>3, <2>4, <2>5
<1>5. WhoDistinct(f)
  BY DEF Relocated, Removed, WhoDistinct
<1>6. Ordered(f)
  <2>. SUFFICES ASSUME NEW j \in Slots(f), j > 1 PROVE f[j \div 2].count <= f[j].count
    BY DEF Ordered
  <2>1. j \in Slots(g) /\ f[j].count = g[j].count
    BY DEF Relocated
  <2>2. g[j \div 2].count <= g[j].count
    BY <2>1 DEF Removed, Ordered
  <2>3. j \div 2 \in Slots(g)
    <3>1. g \in Seq(Node)
      BY DEF Removed
    <3>2. Len(g) \in Nat /\ j \in 1..Len(g)
      BY <3>1, <2>1, HeapTypes DEF Slots
    <3>3. j \div 2 \in 1..Len(g)
      BY <3>2, Halves
    <3>. QED  BY <3>3 DEF Slots
  <2>4. f[j \div 2].count = g[j \div 2].count
    BY <2>3 DEF Relocated
  <2>. QED  BY <2>1, <2>2, <2>4
<1>7. f \in Seq(Node) /\ Len(f) = Len(qs)
  BY DEF Relocated, Removed, NodesOK, Vacated
<1>. QED  BY <1>3, <1>4, <1>5, <1>6, <1>7 DEF NodesOK

(* map_leave(): the top of the heap is somebody else. *)
LEMMA TopStays ==
  ASSUME NEW h, NEW ps \in Seq(Player), NodesOK(h, ps), NEW s \in Slots(ps), Len(ps) > 1,
         NEW g, Removed(g, h, ps[s])
  PROVE  g[1].slot \in Slots(ps) \ {s}
<1>1. Len(ps) \in Nat
  BY SeqTypes
<1>2. Len(g) = Len(ps) - 1
  BY DEF NodesOK, Removed
<1>3. 1 \in Slots(g)
  BY <1>1, <1>2 DEF Slots
<1>4. PICK k \in Slots(h) : g[1] = h[k] /\ g[1].who # ps[s]
  BY <1>3 DEF Removed
<1>5. h[k].slot \in Slots(ps) /\ ps[h[k].slot] = h[k].who
  BY DEF NodesOK
<1>. QED  BY <1>4, <1>5

(* map_join(), map_leave(): the seats.                                     *)
LEMMA SeatsJoin ==
  ASSUME NEW ps, NEW cap, SeatsOK(ps, cap), NEW p \in Player, \A s \in Slots(ps) : ps[s] # p,
         NEW cap2, cap2 = IF Len(ps) = cap THEN 2 * cap ELSE cap
  PROVE  SeatsOK(Append(ps, p), cap2)
<1>1. ps \in Seq(Player) /\ Len(ps) \in Nat /\ cap \in Nat \ {0} /\ Len(ps) <= cap
  BY SeqTypes DEF SeatsOK
<1>2. /\ Append(ps, p) \in Seq(Player) /\ Len(Append(ps, p)) = Len(ps) + 1
      /\ \A i \in 1..Len(ps) : Append(ps, p)[i] = ps[i]
      /\ Append(ps, p)[Len(ps) + 1] = p
  BY <1>1, AppendProperties
<1>. DEFINE qs == Append(ps, p)
<1>. PICK n : n = Len(ps)
  OBVIOUS
<1>3. qs \in Seq(Player) /\ Len(qs) = n + 1 /\ (\A i \in 1..n : qs[i] = ps[i]) /\ qs[n + 1] = p
  BY <1>2
<1>. HIDE DEF qs
<1>4. Injective(qs)
  <2>. SUFFICES ASSUME NEW i \in Slots(qs), NEW j \in Slots(qs), qs[i] = qs[j] PROVE i = j
    BY DEF Injective
  <2>1. i \in 1..(n + 1) /\ j \in 1..(n + 1)
    BY <1>3 DEF Slots
  <2>2. \A k \in 1..n : qs[k] = ps[k] /\ qs[k] # p /\ k \in Slots(ps)
    BY <1>3 DEF Slots
  <2>3. i \in 1..n <=> j \in 1..n
    BY <2>1, <2>2, <1>1, <1>3
  <2>4. CASE i \in 1..n /\ j \in 1..n
    BY <2>2, <2>4 DEF SeatsOK, Injective
  <2>5. CASE i \notin 1..n /\ j \notin 1..n
    BY <2>1, <2>5, <1>1
  <2>. QED  BY <2>3, <2>4, <2>5
<1>5. cap2 \in Nat \ {0} /\ n + 1 <= cap2
  BY <1>1
<1>. QED  BY <1>3, <1>4, <1>5 DEF SeatsOK, qs

LEMMA SeatsLeave ==
  ASSUME NEW ps, NEW cap, SeatsOK(ps, cap), NEW s \in Slots(ps)
  PROVE  /\ Vacated(FillHole(ps, s), ps, s)
         /\ SeatsOK(FillHole(ps, s), cap)
<1>. DEFINE qs == FillHole(ps, s)
<1>1. ps \in Seq(Player) /\ Len(ps) \in Nat /\ cap \in Nat \ {0} /\ Len(ps) <= cap
  BY SeqTypes DEF SeatsOK
<1>2. /\ qs \in Seq(Player) /\ Len(qs) = Len(ps) - 1
      /\ \A j \in 1..(Len(ps) - 1) : qs[j] = IF j = s THEN ps[Len(ps)] ELSE ps[j]
  BY <1>1, HoleFilled
<1>. HIDE DEF qs
<1>3. Vacated(qs, ps, s)
  BY <1>2 DEF Vacated
<1>. PICK n : n = Len(ps)
  OBVIOUS
<1>4. n \in Nat \ {0} /\ s \in 1..n /\ n <= cap /\ Slots(ps) = 1..n /\ Slots(qs) = 1..(n - 1)
  <2>1. n \in Nat /\ s \in 1..n /\ n <= cap /\ Slots(ps) = 1..n /\ Slots(qs) = 1..(n - 1)
    BY <1>1, <1>2 DEF Slots
  <2>. QED  BY <2>1
<1>5. Injective(qs)
  <2>. SUFFICES ASSUME NEW i \in 1..(n - 1), NEW j \in 1..(n - 1), qs[i] = qs[j] PROVE i = j
    BY <1>4 DEF Injective
  <2>1. qs[i] = (IF i = s THEN ps[n] ELSE ps[i]) /\ qs[j] = (IF j = s THEN ps[n] ELSE ps[j])
    BY <1>2
  <2>2. \A a, b \in 1..n : ps[a] = ps[b] => a = b
    BY <1>4 DEF SeatsOK, Injective
  <2>3. i \in 1..n /\ j \in 1..n /\ n \in 1..n /\ i # n /\ j # n
    BY <1>4
  <2>. QED  BY <2>1, <2>2, <2>3
<1>6. Len(qs) <= cap
  BY <1>2, <1>4, <1>1
<1>7. SeatsOK(qs, cap)
  BY <1>1, <1>2, <1>5, <1>6 DEF SeatsOK
<1>. QED  BY <1>3, <1>7 DEF qs

-----------------------------------------------------------------------------
(* The object list.                                                        *)

Ids == 0..SpawnerCount

(* The free stack holds the ids that are not in the set D, each once. *)
StackOK(D, free) ==
  /\ D \subseteq Ids /\ free \in Seq(Ids) /\ Injective(free)
  /\ \A o \in Ids : o \in D <=> \A i \in Slots(free) : free[i] # o

(* The object list leads from an id to its monster, 0 for the boss, and no further. *)
IdsOK(mons, objs, free, oid) ==
  /\ StackOK(DOMAIN objs, free) /\ oid \in Ids \cup {NoOid}
  /\ \A m \in Slots(mons) : mons[m].oid \in DOMAIN objs /\ objs[mons[m].oid] = m
  /\ oid # NoOid => oid \in DOMAIN objs /\ objs[oid] = 0
  /\ \A o \in DOMAIN objs : o # oid => objs[o] \in Slots(mons) /\ mons[objs[o]].oid = o

(* Monsters whose drops still fall are there, dead. *)
DyingOK(mons, objs, oid, bossAlive, dy) ==
  \A o \in dy : o \in DOMAIN objs /\ IF o = oid THEN ~bossAlive ELSE ~mons[objs[o]].alive

(* object_list_allocate(), c times: ids from the top of the stack. *)
Taken(free, x) == free[Len(free) + 1 - x]

Popped(free2, free, c) ==
  /\ free2 \in Seq(Ids) /\ Len(free2) = Len(free) - c
  /\ \A i \in 1..(Len(free) - c) : free2[i] = free[i]

LEMMA StackPopped ==
  ASSUME NEW D, NEW free, StackOK(D, free), NEW c \in 0..Len(free),
         NEW free2, Popped(free2, free, c),
         NEW D2, D2 = D \cup {Taken(free, x) : x \in 1..c}
  PROVE  /\ StackOK(D2, free2)
         /\ \A x \in 1..c : Taken(free, x) \in Ids \ D
         /\ \A x, y \in 1..c : Taken(free, x) = Taken(free, y) => x = y
<1>. PICK n : n = Len(free)
  OBVIOUS
<1>1. n \in Nat /\ Slots(free) = 1..n /\ \A i \in 1..n : free[i] \in Ids
  BY SeqTypes DEF StackOK, Slots
<1>2. Slots(free2) = 1..(n - c) /\ \A i \in 1..(n - c) : free2[i] = free[i]
  BY DEF Popped, Slots
<1>3. c \in Nat /\ c <= n
  BY <1>1
<1>4. \A x \in 1..c : n + 1 - x \in 1..n /\ n + 1 - x \notin 1..(n - c) /\ Taken(free, x) = free[n + 1 - x]
  BY <1>1, <1>3 DEF Taken
<1>5. \A i \in 1..n : i \notin 1..(n - c) => n + 1 - i \in 1..c /\ Taken(free, n + 1 - i) = free[i]
  <2>. SUFFICES ASSUME NEW i \in 1..n, i \notin 1..(n - c)
                PROVE  n + 1 - i \in 1..c /\ Taken(free, n + 1 - i) = free[i]
    OBVIOUS
  <2>1. n + 1 - i \in 1..c /\ n + 1 - (n + 1 - i) = i
    BY <1>1, <1>3
  <2>. QED  BY <2>1 DEF Taken
<1>6. ASSUME NEW x \in 1..c PROVE Taken(free, x) \in Ids \ D
  <2>. PICK i : i = n + 1 - x
    OBVIOUS
  <2>1. i \in 1..n /\ Taken(free, x) = free[i]
    BY <1>4
  <2>. QED  BY <2>1, <1>1 DEF StackOK
<1>7. \A x, y \in 1..c : Taken(free, x) = Taken(free, y) => x = y
  <2>. SUFFICES ASSUME NEW x \in 1..c, NEW y \in 1..c, Taken(free, x) = Taken(free, y) PROVE x = y
    OBVIOUS
  <2>. PICK i : i = n + 1 - x
    OBVIOUS
  <2>. PICK j : j = n + 1 - y
    OBVIOUS
  <2>1. i \in 1..n /\ j \in 1..n /\ free[i] = free[j]
    BY <1>4
  <2>2. i = j
    BY <2>1, <1>1 DEF StackOK, Injective
  <2>. QED  BY <2>2, <1>1, <1>3
<1>8. \A i \in 1..(n - c) : i \in 1..n
  BY <1>1, <1>3
<1>9. Injective(free2)
  BY SMTT(120), <1>1, <1>2, <1>8 DEF StackOK, Injective
<1>10. ASSUME NEW o \in Ids
       PROVE  o \in D2 <=> \A i \in Slots(free2) : free2[i] # o
  <2>1. CASE o \in D
    BY <2>1, <1>1, <1>2, <1>8 DEF StackOK
  <2>2. CASE o \notin D
    <3>1. PICK i \in 1..n : free[i] = o
      BY <2>2, <1>1 DEF StackOK
    <3>2. CASE i \in 1..(n - c)
      <4>1. \A x \in 1..c : Taken(free, x) # o
        BY ZenonT(40), <3>1, <3>2, <1>1, <1>4 DEF StackOK, Injective
      <4>2. o \notin D2
        BY <4>1, <2>2
      <4>. QED  BY <4>2, <3>1, <3>2, <1>2
    <3>3. CASE i \notin 1..(n - c)
      <4>1. o \in D2
        BY <3>1, <3>3, <1>5
      <4>2. \A j \in 1..(n - c) : free[j] # o
        BY <3>1, <3>3, <1>1, <1>8 DEF StackOK, Injective
      <4>. QED  BY <4>1, <4>2, <1>2
    <3>. QED  BY <3>2, <3>3
  <2>. QED  BY <2>1, <2>2
<1>11. D2 \subseteq Ids
  BY <1>6 DEF StackOK
<1>12. StackOK(D2, free2)
  BY <1>9, <1>10, <1>11 DEF StackOK, Popped
<1>. QED  BY <1>6, <1>7, <1>12

(* object_list_free(): the id goes on the stack. *)
LEMMA StackPushed ==
  ASSUME NEW D, NEW free, StackOK(D, free), NEW o \in D
  PROVE  StackOK(D \ {o}, Append(free, o))
<1>1. free \in Seq(Ids) /\ Len(free) \in Nat /\ o \in Ids
  BY SeqTypes DEF StackOK
<1>. DEFINE q == Append(free, o)
<1>. PICK n : n = Len(free)
  OBVIOUS
<1>2. q \in Seq(Ids) /\ Len(q) = n + 1 /\ (\A i \in 1..n : q[i] = free[i]) /\ q[n + 1] = o
  BY <1>1, AppendProperties
<1>. HIDE DEF q
<1>3. Slots(q) = 1..(n + 1) /\ Slots(free) = 1..n
  BY <1>2 DEF Slots
<1>4. \A i \in 1..n : free[i] # o /\ i \in 1..(n + 1)
  BY <1>1, <1>3 DEF StackOK
<1>5. Injective(q)
  <2>. SUFFICES ASSUME NEW i \in 1..(n + 1), NEW j \in 1..(n + 1), q[i] = q[j] PROVE i = j
    BY <1>3 DEF Injective
  <2>1. i \in 1..n <=> j \in 1..n
    <3>1. \A k \in 1..(n + 1) : k \notin 1..n => k = n + 1
      BY <1>1
    <3>. QED  BY <3>1, <1>2, <1>4
  <2>2. CASE i \in 1..n /\ j \in 1..n
    BY <2>2, <1>2, <1>3 DEF StackOK, Injective
  <2>3. CASE i \notin 1..n /\ j \notin 1..n
    BY <2>3, <1>1
  <2>. QED  BY <2>1, <2>2, <2>3
<1>6. ASSUME NEW a \in Ids
      PROVE  a \in D \ {o} <=> \A i \in Slots(q) : q[i] # a
  <2>1. n + 1 \in 1..(n + 1) /\ \A k \in 1..(n + 1) : k \notin 1..n => k = n + 1
    BY <1>1
  <2>2. CASE a = o
    BY <2>1, <2>2, <1>2, <1>3
  <2>3. CASE a # o
    <3>1. a \in D <=> \A i \in 1..n : free[i] # a
      BY <1>3 DEF StackOK
    <3>2. (\A i \in 1..n : free[i] # a) <=> \A i \in 1..(n + 1) : q[i] # a
      BY <2>1, <2>3, <1>2, <1>4
    <3>. QED  BY <3>1, <3>2, <2>3, <1>3
  <2>. QED  BY <2>2, <2>3
<1>7. StackOK(D \ {o}, q)
  BY <1>2, <1>5, <1>6 DEF StackOK
<1>. QED  BY <1>7 DEF q

LEMMA IdsSame ==
  ASSUME NEW m0, NEW mons, Slots(mons) = Slots(m0), \A k \in Slots(m0) : mons[k].oid = m0[k].oid,
         NEW objs, NEW free, NEW oid, IdsOK(m0, objs, free, oid)
  PROVE  IdsOK(mons, objs, free, oid)
BY DEF IdsOK

(* Monsters are made. *)
IdsGrown(mons, m0, objs2, objs, free2, free, n, c) ==
  /\ Len(mons) = n + c /\ \A k \in Slots(m0) : mons[k] = m0[k]
  /\ \A x \in 1..c : mons[n + x].oid = Taken(free, x)
  /\ Popped(free2, free, c)
  /\ DOMAIN objs2 = DOMAIN objs \cup {Taken(free, x) : x \in 1..c}
  /\ \A o \in DOMAIN objs : objs2[o] = objs[o]
  /\ \A x \in 1..c : objs2[Taken(free, x)] = n + x

LEMMA IdsSpawned ==
  ASSUME NEW m0, NEW objs, NEW free, NEW oid, IdsOK(m0, objs, free, oid), NEW n \in Nat, n = Len(m0),
         NEW c \in 0..Len(free), NEW mons, NEW objs2, NEW free2,
         IdsGrown(mons, m0, objs2, objs, free2, free, n, c)
  PROVE  IdsOK(mons, objs2, free2, oid)
<1>. USE DEF IdsGrown
<1>1. StackOK(DOMAIN objs2, free2) /\ \A x \in 1..c : Taken(free, x) \in Ids \ DOMAIN objs
  <2>1. StackOK(DOMAIN objs, free)
    BY DEF IdsOK
  <2>2. Popped(free2, free, c) /\ DOMAIN objs2 = DOMAIN objs \cup {Taken(free, x) : x \in 1..c}
    OBVIOUS
  <2>. HIDE DEF IdsGrown
  <2>3. PICK D, D2 : D = DOMAIN objs /\ D2 = DOMAIN objs2
    OBVIOUS
  <2>4. StackOK(D, free) /\ D2 = D \cup {Taken(free, x) : x \in 1..c}
    BY <2>1, <2>2, <2>3
  <2>5. StackOK(D2, free2) /\ \A x \in 1..c : Taken(free, x) \in Ids \ D
    BY <2>2, <2>4, StackPopped
  <2>. QED  BY <2>3, <2>5
<1>2. c \in Nat /\ Slots(m0) = 1..n /\ Slots(mons) = 1..(n + c)
  <2>1. free \in Seq(Ids)
    BY DEF IdsOK, StackOK
  <2>. QED  BY <2>1, SeqTypes DEF Slots
<1>3. ASSUME NEW m \in Slots(mons) PROVE mons[m].oid \in DOMAIN objs2 /\ objs2[mons[m].oid] = m
  <2>1. CASE m \in 1..n
    BY <2>1, <1>2 DEF IdsOK
  <2>2. CASE m \notin 1..n
    <3>1. m - n \in 1..c /\ n + (m - n) = m
      BY <2>2, <1>2
    <3>2. PICK x \in 1..c : m = n + x
      BY <3>1
    <3>. QED  BY <3>2
  <2>. QED  BY <2>1, <2>2
<1>4. ASSUME NEW o \in DOMAIN objs2, o # oid
      PROVE  objs2[o] \in Slots(mons) /\ mons[objs2[o]].oid = o
  <2>1. CASE o \in DOMAIN objs
    <3>1. objs[o] \in 1..n /\ m0[objs[o]].oid = o
      BY <2>1, <1>2, <1>4 DEF IdsOK
    <3>2. objs[o] \in 1..(n + c)
      BY <3>1, <1>2
    <3>. QED  BY <2>1, <3>1, <3>2, <1>2
  <2>2. CASE o \notin DOMAIN objs
    <3>1. PICK x \in 1..c : o = Taken(free, x)
      BY <2>2
    <3>2. n + x \in 1..(n + c)
      BY <1>2
    <3>. QED  BY <3>1, <3>2, <1>2
  <2>. QED  BY <2>1, <2>2
<1>5. oid \in Ids \cup {NoOid} /\ (oid # NoOid => oid \in DOMAIN objs2 /\ objs2[oid] = 0)
  BY DEF IdsOK
<1>. QED  BY <1>1, <1>3, <1>4, <1>5 DEF IdsOK

LEMMA DyingSpawned ==
  ASSUME NEW m0, NEW objs, NEW free, NEW oid, IdsOK(m0, objs, free, oid), NEW dy, NEW b,
         DyingOK(m0, objs, oid, b, dy),
         NEW mons, \A k \in Slots(m0) : mons[k] = m0[k],
         NEW objs2, DOMAIN objs \subseteq DOMAIN objs2, \A o \in DOMAIN objs : objs2[o] = objs[o]
  PROVE  DyingOK(mons, objs2, oid, b, dy)
BY DEF IdsOK, DyingOK

(* map_kill_monster(): monster i of id o is removed, the last one moves. *)
(* Object o is gone, and the object l leads to slot i. *)
Forgot(objs2, objs, o, l, i) ==
  /\ DOMAIN objs2 = DOMAIN objs \ {o}
  /\ \A a \in DOMAIN objs \ {o} : objs2[a] = IF a = l THEN i ELSE objs[a]

LEMMA IdsRemoved ==
  ASSUME NEW m0, NEW objs, NEW free, NEW oid, IdsOK(m0, objs, free, oid),
         NEW o \in DOMAIN objs, o # oid, NEW i, i = objs[o],
         NEW n \in Nat, n = Len(m0), NEW mons, Moved(mons, m0, i, n),
         NEW objs2, Forgot(objs2, objs, o, m0[n].oid, i)
  PROVE  /\ IdsOK(mons, objs2, Append(free, o), oid)
         /\ \A b, dy : DyingOK(m0, objs, oid, b, dy) => DyingOK(mons, objs2, oid, b, dy \ {o})
<1>. USE DEF Moved, Forgot
<1>1. StackOK(DOMAIN objs2, Append(free, o))
  BY StackPushed DEF IdsOK
<1>2. i \in 1..n /\ Slots(m0) = 1..n /\ m0[i].oid = o
  BY DEF IdsOK, Slots
<1>3. n \in 1..n /\ \A k \in 1..n : k \in 1..(n - 1) <=> k # n
  BY <1>2
<1>. PICK l : l = m0[n].oid
  OBVIOUS
<1>4. l \in DOMAIN objs /\ objs[l] = n
  BY <1>2, <1>3 DEF IdsOK
<1>5. \A k \in 1..n : m0[k].oid \in DOMAIN objs /\ objs[m0[k].oid] = k
  BY <1>2 DEF IdsOK
<1>6. ASSUME NEW m \in 1..(n - 1) PROVE mons[m].oid \in DOMAIN objs2 /\ objs2[mons[m].oid] = m
  <2>1. m \in 1..n /\ m # n
    BY <1>2
  <2>2. CASE m = i
    <3>1. mons[m].oid = l /\ l # o
      BY <2>1, <2>2, <1>4
    <3>. QED  BY <3>1, <2>2, <1>4
  <2>3. CASE m # i
    <3>1. mons[m].oid = m0[m].oid /\ m0[m].oid # o /\ m0[m].oid # l
      BY <2>1, <2>3, <1>4, <1>5
    <3>. QED  BY <3>1, <2>1, <1>5
  <2>. QED  BY <2>2, <2>3
<1>7. ASSUME NEW a \in DOMAIN objs2, a # oid
      PROVE  /\ objs2[a] \in Slots(mons) /\ mons[objs2[a]].oid = a
             /\ mons[objs2[a]].alive = m0[objs[a]].alive
  <2>1. a \in DOMAIN objs /\ a # o /\ objs[a] \in 1..n /\ m0[objs[a]].oid = a
    BY <1>2, <1>7 DEF IdsOK
  <2>2. objs[a] # i
    BY <2>1, <1>2
  <2>3. CASE a = l
    <3>1. objs[a] = n /\ objs2[a] = i /\ i \in 1..(n - 1)
      BY <2>1, <2>2, <2>3, <1>2, <1>3, <1>4
    <3>2. mons[i] = m0[n]
      BY <3>1
    <3>. QED  BY <3>1, <3>2, <2>3
  <2>4. CASE a # l
    <3>1. objs[a] # n /\ objs2[a] = objs[a]
      BY <2>1, <2>4
    <3>2. objs[a] \in 1..(n - 1)
      BY <2>1, <3>1, <1>3
    <3>. QED  BY <3>1, <3>2, <2>1, <2>2
  <2>. QED  BY <2>3, <2>4
<1>8. oid \in Ids \cup {NoOid} /\ (oid # NoOid => oid \in DOMAIN objs2 /\ objs2[oid] = 0)
  <2>1. oid # NoOid => oid \in DOMAIN objs /\ objs[oid] = 0
    BY DEF IdsOK
  <2>2. n # 0
    BY <1>2
  <2>. QED  BY <2>1, <2>2, <1>4 DEF IdsOK
<1>9. IdsOK(mons, objs2, Append(free, o), oid)
  BY <1>1, <1>6, <1>7, <1>8 DEF IdsOK
<1>10. ASSUME NEW b, NEW dy, DyingOK(m0, objs, oid, b, dy) PROVE DyingOK(mons, objs2, oid, b, dy \ {o})
  BY <1>7, <1>10 DEF DyingOK
<1>. QED  BY <1>9, <1>10

(* map_kill_monster() of the boss, and respawn_boss(). *)
LEMMA IdsBossRemoved ==
  ASSUME NEW mons, NEW objs, NEW free, NEW oid, IdsOK(mons, objs, free, oid), oid # NoOid,
         NEW objs2, objs2 = [o \in DOMAIN objs \ {oid} |-> objs[o]]
  PROVE  /\ IdsOK(mons, objs2, Append(free, oid), NoOid)
         /\ \A b, b2, dy : DyingOK(mons, objs, oid, b, dy) => DyingOK(mons, objs2, NoOid, b2, dy \ {oid})
<1>1. oid \in DOMAIN objs /\ objs[oid] = 0
  BY DEF IdsOK
<1>2. DOMAIN objs2 = DOMAIN objs \ {oid} /\ \A o \in DOMAIN objs2 : objs2[o] = objs[o]
  OBVIOUS
<1>3. StackOK(DOMAIN objs2, Append(free, oid)) /\ DOMAIN objs \subseteq Ids
  <2>1. StackOK(DOMAIN objs, free)
    BY DEF IdsOK
  <2>2. StackOK(DOMAIN objs \ {oid}, Append(free, oid))
    BY <2>1, <1>1, StackPushed
  <2>. QED  BY <2>1, <2>2, <1>2 DEF StackOK
<1>4. \A m \in Slots(mons) : mons[m].oid \in DOMAIN objs2 /\ objs2[mons[m].oid] = m
  <2>1. 0 \notin Slots(mons)
    BY DEF Slots
  <2>. QED  BY <2>1, <1>1, <1>2 DEF IdsOK
<1>5. \A o \in DOMAIN objs2 : o # NoOid /\ objs2[o] \in Slots(mons) /\ mons[objs2[o]].oid = o
  BY <1>2, <1>3 DEF IdsOK, Ids, NoOid
<1>6. IdsOK(mons, objs2, Append(free, oid), NoOid)
  BY <1>3, <1>4, <1>5 DEF IdsOK
<1>7. ASSUME NEW b, NEW b2, NEW dy, DyingOK(mons, objs, oid, b, dy)
      PROVE  DyingOK(mons, objs2, NoOid, b2, dy \ {oid})
  BY <1>2, <1>5, <1>7 DEF DyingOK
<1>. QED  BY <1>6, <1>7

LEMMA IdsBossMade ==
  ASSUME NEW mons, NEW objs, NEW free, IdsOK(mons, objs, free, NoOid), Len(free) # 0,
         NEW free2, Popped(free2, free, 1), NEW o, o = Taken(free, 1),
         NEW objs2, DOMAIN objs2 = DOMAIN objs \cup {o},
         \A a \in DOMAIN objs : objs2[a] = objs[a], objs2[o] = 0
  PROVE  /\ IdsOK(mons, objs2, free2, o)
         /\ \A b, b2, dy : DyingOK(mons, objs, NoOid, b, dy) => DyingOK(mons, objs2, o, b2, dy)
<1>1. 1 \in 0..Len(free)
  <2>1. Len(free) \in Nat
    BY SeqTypes DEF IdsOK, StackOK
  <2>. QED  BY <2>1
<1>2. DOMAIN objs2 = DOMAIN objs \cup {Taken(free, x) : x \in 1..1}
  <2>1. 1..1 = {1}
    OBVIOUS
  <2>. QED  BY <2>1
<1>3. StackOK(DOMAIN objs2, free2) /\ o \in Ids \ DOMAIN objs
  <2>1. StackOK(DOMAIN objs, free)
    BY DEF IdsOK
  <2>2. StackOK(DOMAIN objs2, free2) /\ \A x \in 1..1 : Taken(free, x) \in Ids \ DOMAIN objs
    BY SMTT(120), <2>1, <1>1, <1>2, StackPopped
  <2>. QED  BY <2>2
<1>4. DOMAIN objs \subseteq Ids /\ NoOid \notin Ids
  BY DEF IdsOK, StackOK, NoOid, Ids
<1>5. \A a \in DOMAIN objs : objs2[a] \in Slots(mons) /\ mons[objs2[a]].oid = a /\ a # o /\ a # NoOid
  BY <1>3, <1>4 DEF IdsOK
<1>6. IdsOK(mons, objs2, free2, o)
  BY <1>3, <1>5 DEF IdsOK
<1>7. ASSUME NEW b, NEW b2, NEW dy, DyingOK(mons, objs, NoOid, b, dy)
      PROVE  DyingOK(mons, objs2, o, b2, dy)
  BY <1>5, <1>7 DEF DyingOK
<1>. QED  BY <1>6, <1>7

-----------------------------------------------------------------------------
(* The spawners.                                                           *)

(* Every spawner is dead once, or has one monster. *)
NoneOf(mons, s) == \A k \in Slots(mons) : mons[k].spawner # s
OnlyOf(mons, s, m) == m \in Slots(mons) /\ \A k \in Slots(mons) : mons[k].spawner = s <=> k = m

SpawnersOK(mons, d) ==
  /\ d \in [1..SpawnerCount -> Nat]
  /\ \A s \in 1..SpawnerCount :
       (d[s] = 1 /\ NoneOf(mons, s)) \/ (d[s] = 0 /\ \E m : OnlyOf(mons, s, m))

LEMMA SpawnersSame ==
  ASSUME NEW m0, NEW mons, Slots(mons) = Slots(m0),
         \A k \in Slots(m0) : mons[k].spawner = m0[k].spawner, NEW d, SpawnersOK(m0, d)
  PROVE  SpawnersOK(mons, d)
BY DEF SpawnersOK, NoneOf, OnlyOf

(* map_spawn(): a monster of no spawner. *)
LEMMA SpawnersSpawnNone ==
  ASSUME NEW m0, NEW mons, Slots(m0) \subseteq Slots(mons),
         \A k \in Slots(m0) : mons[k].spawner = m0[k].spawner,
         \A k \in Slots(mons) \ Slots(m0) : mons[k].spawner = 0,
         NEW d, SpawnersOK(m0, d)
  PROVE  SpawnersOK(mons, d)
<1>1. ASSUME NEW s \in 1..SpawnerCount
      PROVE  (d[s] = 1 /\ NoneOf(mons, s)) \/ (d[s] = 0 /\ \E m : OnlyOf(mons, s, m))
  <2>0. s # 0
    BY SpawnerAssumption
  <2>1. CASE d[s] = 1 /\ NoneOf(m0, s)
    BY <2>0, <2>1 DEF NoneOf
  <2>2. CASE d[s] = 0 /\ \E m : OnlyOf(m0, s, m)
    <3>1. PICK m : OnlyOf(m0, s, m)
      BY <2>2
    <3>2. OnlyOf(mons, s, m)
      BY <2>0, <3>1 DEF OnlyOf
    <3>. QED  BY <3>2, <2>2
  <2>. QED  BY <2>1, <2>2 DEF SpawnersOK
<1>. QED  BY <1>1 DEF SpawnersOK

LEMMA AtMostOne ==
  ASSUME NEW A, IsFiniteSet(A), Cardinality(A) <= 1
  PROVE  (A = {} /\ Cardinality(A) = 0) \/ (\E x : A = {x} /\ Cardinality(A) = 1)
<1>1. CASE A = {}
  BY <1>1, FS_EmptySet
<1>2. CASE A # {}
  <2>1. PICK x : x \in A
    BY <1>2
  <2>2. IsFiniteSet({x}) /\ Cardinality({x}) = 1 /\ {x} \subseteq A
    BY <2>1, FS_Singleton
  <2>3. Cardinality(A) \in Nat
    BY FS_CardinalityType
  <2>4. Cardinality(A) = 1
    <3>1. Cardinality({x}) <= Cardinality(A)
      BY <2>2, FS_Subset
    <3>. QED  BY <3>1, <2>2, <2>3
  <2>5. {x} = A
    BY <2>2, <2>4, FS_Subset
  <2>. QED  BY <2>4, <2>5
<1>. QED  BY <1>1, <1>2

(* n monsters of m0, and then c new ones of the spawners q. *)
Refilled(mons, m0, q, n, c) ==
  /\ Slots(mons) = 1..(n + c)
  /\ \A k \in 1..n : mons[k].spawner = m0[k].spawner
  /\ \A x \in 1..c : mons[n + x].spawner = q[x]

(* The c spawners q were drawn from the dead ones. *)
Drawn(d2, d, q, c) ==
  /\ \A s \in 1..SpawnerCount : Cardinality({i \in 1..c : q[i] = s}) <= d[s]
  /\ d2 = [s \in 1..SpawnerCount |-> d[s] - Cardinality({i \in 1..c : q[i] = s})]

(* on_respawn(): monsters of spawners that were dead. *)
LEMMA SpawnersRespawn ==
  ASSUME NEW m0, NEW n \in Nat, Slots(m0) = 1..n, NEW c \in Nat, NEW q \in [1..c -> 1..SpawnerCount],
         NEW mons, Refilled(mons, m0, q, n, c), NEW d, SpawnersOK(m0, d), NEW d2, Drawn(d2, d, q, c)
  PROVE  SpawnersOK(mons, d2)
<1>. USE DEF Refilled, Drawn
<1>1. \A k \in 1..(n + c) : k \notin 1..n => \E x \in 1..c : k = n + x
  <2>. SUFFICES ASSUME NEW k \in 1..(n + c), k \notin 1..n PROVE \E x \in 1..c : k = n + x
    OBVIOUS
  <2>1. k - n \in 1..c /\ k = n + (k - n)
    OBVIOUS
  <2>. QED  BY <2>1
<1>2. \A x \in 1..c : n + x \in 1..(n + c) /\ n + x \notin 1..n
  OBVIOUS
<1>3. \A k \in 1..n : k \in 1..(n + c)
  OBVIOUS
<1>4. ASSUME NEW s \in 1..SpawnerCount
      PROVE  /\ d2[s] \in Nat
             /\ (d2[s] = 1 /\ NoneOf(mons, s)) \/ (d2[s] = 0 /\ \E m : OnlyOf(mons, s, m))
  <2>. DEFINE A == {i \in 1..c : q[i] = s}
  <2>1. d2[s] = d[s] - Cardinality(A) /\ Cardinality(A) <= d[s]
    OBVIOUS
  <2>2. \A x \in 1..c : mons[n + x].spawner = s <=> x \in A
    OBVIOUS
  <2>3. IsFiniteSet(A) /\ Cardinality(A) \in Nat
    <3>0. 1 \in Int /\ c \in Int
      OBVIOUS
    <3>1. IsFiniteSet(1..c) /\ A \subseteq 1..c
      BY <3>0, FS_Interval
    <3>2. IsFiniteSet(A)
      BY <3>1, FS_Subset
    <3>. HIDE DEF A
    <3>. QED  BY <3>2, FS_CardinalityType
  <2>4. A \subseteq 1..c
    OBVIOUS
  <2>. HIDE DEF A
  <2>5. CASE d[s] = 1 /\ NoneOf(m0, s)
    <3>0. \A k \in 1..n : mons[k].spawner # s
      BY <2>5 DEF NoneOf
    <3>1. (A = {} /\ Cardinality(A) = 0) \/ (\E x : A = {x} /\ Cardinality(A) = 1)
      BY <2>1, <2>3, <2>5, AtMostOne
    <3>2. CASE A = {} /\ Cardinality(A) = 0
      <4>1. d2[s] = 1
        BY <3>2, <2>1, <2>5
      <4>2. ASSUME NEW k \in 1..(n + c), mons[k].spawner = s PROVE FALSE
        <5>1. PICK y \in 1..c : k = n + y
          BY <4>2, <3>0, <1>1
        <5>. QED  BY <5>1, <4>2, <3>2, <2>2
      <4>. QED  BY <4>1, <4>2 DEF NoneOf
    <3>3. CASE \E x : A = {x} /\ Cardinality(A) = 1
      <4>1. PICK x : A = {x} /\ Cardinality(A) = 1
        BY <3>3
      <4>2. d2[s] = 0 /\ x \in 1..c
        BY <4>1, <2>1, <2>4, <2>5
      <4>3. ASSUME NEW k \in 1..(n + c) PROVE mons[k].spawner = s <=> k = n + x
        <5>1. CASE k \in 1..n
          BY <5>1, <4>2, <3>0, <1>2
        <5>2. CASE k \notin 1..n
          <6>1. PICK y \in 1..c : k = n + y
            BY <5>2, <1>1
          <6>2. mons[k].spawner = s <=> y = x
            BY <6>1, <4>1, <2>2
          <6>3. y = x <=> n + y = n + x
            BY <6>1, <4>2
          <6>. QED  BY <6>1, <6>2, <6>3
        <5>. QED  BY <5>1, <5>2
      <4>4. n + x \in 1..(n + c)
        BY <4>2, <1>2
      <4>5. OnlyOf(mons, s, n + x)
        BY <4>3, <4>4 DEF OnlyOf
      <4>. QED  BY <4>2, <4>5
    <3>. QED  BY <3>1, <3>2, <3>3
  <2>6. CASE d[s] = 0 /\ \E m : OnlyOf(m0, s, m)
    <3>1. PICK m : OnlyOf(m0, s, m)
      BY <2>6
    <3>2. (A = {} /\ Cardinality(A) = 0) \/ (\E x : A = {x} /\ Cardinality(A) = 1)
      BY <2>1, <2>3, <2>6, AtMostOne
    <3>3. A = {} /\ d2[s] = 0
      BY <3>2, <2>1, <2>6
    <3>4. ASSUME NEW k \in 1..(n + c) PROVE mons[k].spawner = s <=> k = m
      <4>1. CASE k \in 1..n
        BY <4>1, <3>1 DEF OnlyOf
      <4>2. CASE k \notin 1..n
        <5>1. PICK y \in 1..c : k = n + y
          BY <4>2, <1>1
        <5>2. mons[k].spawner # s /\ k # m
          BY <5>1, <4>2, <3>1, <3>3, <2>2 DEF OnlyOf
        <5>. QED  BY <5>2
      <4>. QED  BY <4>1, <4>2
    <3>5. OnlyOf(mons, s, m)
      BY <3>1, <3>4, <1>3 DEF OnlyOf
    <3>. QED  BY <3>3, <3>5
  <2>. QED  BY <2>5, <2>6 DEF SpawnersOK
<1>5. d2 \in [1..SpawnerCount -> Nat]
  BY <1>4
<1>. QED  BY <1>4, <1>5 DEF SpawnersOK

(* map_kill_monster(): the dead monster's spawner is dead. *)
(* One more death of a monster of this spawner was recorded. *)
Recorded(d2, d, sp) == d2 = IF sp # 0 THEN [d EXCEPT ![sp] = @ + 1] ELSE d

LEMMA SpawnersRemoved ==
  ASSUME NEW m0, NEW n \in Nat, Slots(m0) = 1..n, NEW i \in 1..n,
         NEW mons, Moved(mons, m0, i, n),
         NEW d, SpawnersOK(m0, d), NEW sp, sp = m0[i].spawner, sp \in 0..SpawnerCount,
         NEW d2, Recorded(d2, d, sp)
  PROVE  SpawnersOK(mons, d2)
<1>. USE DEF Moved, Recorded
<1>1. n \in 1..n /\ \A k \in 1..n : k \in 1..(n - 1) <=> k # n
  OBVIOUS
<1>2. d \in [1..SpawnerCount -> Nat]
  BY DEF SpawnersOK
<1>3. /\ d2 \in [1..SpawnerCount -> Nat]
      /\ \A s \in 1..SpawnerCount : d2[s] = IF s = sp THEN d[s] + 1 ELSE d[s]
  <2>1. CASE sp = 0
    <3>1. \A s \in 1..SpawnerCount : s # sp
      BY <2>1
    <3>. QED  BY <2>1, <3>1, <1>2
  <2>2. CASE sp # 0
    <3>1. sp \in 1..SpawnerCount /\ d2 = [d EXCEPT ![sp] = @ + 1]
      BY <2>2, SpawnerAssumption
    <3>2. d[sp] + 1 \in Nat
      BY <3>1, <1>2
    <3>. QED  BY <3>1, <3>2, <1>2
  <2>. QED  BY <2>1, <2>2
<1>4. ASSUME NEW s \in 1..SpawnerCount
      PROVE  (d2[s] = 1 /\ NoneOf(mons, s)) \/ (d2[s] = 0 /\ \E m : OnlyOf(mons, s, m))
  <2>1. CASE d[s] = 1 /\ NoneOf(m0, s)
    <3>1. s # sp
      BY <2>1 DEF NoneOf
    <3>2. NoneOf(mons, s)
      BY <2>1, <1>1 DEF NoneOf
    <3>. QED  BY <2>1, <3>1, <3>2, <1>3
  <2>2. CASE d[s] = 0 /\ \E m : OnlyOf(m0, s, m)
    <3>1. PICK m : OnlyOf(m0, s, m)
      BY <2>2
    <3>2. m \in 1..n /\ \A k \in 1..n : m0[k].spawner = s <=> k = m
      BY <3>1 DEF OnlyOf
    <3>3. CASE m = i
      <4>1. s = sp /\ d2[s] = 1
        BY <2>2, <3>2, <3>3, <1>3
      <4>2. \A k \in 1..(n - 1) : mons[k].spawner # s
        BY <3>2, <3>3, <1>1
      <4>. QED  BY <4>1, <4>2 DEF NoneOf
    <3>4. CASE m # i
      <4>1. s # sp /\ d2[s] = 0
        BY <2>2, <3>2, <3>4, <1>3
      <4>. PICK l : l = IF m = n THEN i ELSE m
        OBVIOUS
      <4>2. l \in 1..(n - 1)
        BY <3>2, <3>4, <1>1
      <4>3. \A k \in 1..(n - 1) : mons[k].spawner = s <=> k = l
        BY <3>2, <3>4, <1>1
      <4>4. OnlyOf(mons, s, l)
        BY <4>2, <4>3 DEF OnlyOf
      <4>. QED  BY <4>1, <4>4
    <3>. QED  BY <3>3, <3>4
  <2>. QED  BY <2>1, <2>2 DEF SpawnersOK
<1>. QED  BY <1>3, <1>4 DEF SpawnersOK

-----------------------------------------------------------------------------
(* map_join(): the living monsters, in the order of their slots.           *)
LEMMA LivingRoll ==
  ASSUME monsters \in Seq(Monster)
  PROVE  /\ Roll(Living, monsters) /\ Len(Living) \in 0..Len(monsters)
         /\ \A k \in Slots(monsters) : k \in Elems(Living) <=> monsters[k].alive
<1>. DEFINE N == Len(monsters)
            W == Seq(Nat)
            Step(x, n) == IF monsters[n].alive THEN Append(x, n) ELSE x
            t == [z \in W \X (1..N) |-> Step(z[1], z[2])]
            Run(f) == f = [n \in 0..N |-> IF n = 0 THEN <<>> ELSE Step(f[n - 1], n)]
            c == CHOOSE f : Run(f)
<1>0. N \in Nat /\ Slots(monsters) = 1..N
  BY SeqTypes DEF Slots
<1>1. <<>> \in W
  OBVIOUS
<1>2. ASSUME NEW x \in W, NEW n \in 1..N PROVE Step(x, n) \in W
  <2>1. Append(x, n) \in Seq(Nat)
    BY AppendProperties
  <2>. QED  BY <2>1
<1>3. IsLoop(t, W, N)
  <2>. HIDE DEF W, Step
  <2>. QED  BY <1>2 DEF IsLoop
<1>4. PICK f : IsRun(f, t, W, N, <<>>)
  <2>0. N \in Nat
    BY <1>0
  <2>. HIDE DEF t, N, W
  <2>. QED  BY <2>0, <1>1, <1>3, LoopRuns, Zenon
<1>. HIDE DEF Step, W, N
<1>5. Run(f)
  <2>1. ASSUME NEW n \in 1..N PROVE f[n] = Step(f[n - 1], n)
    <3>1. n - 1 \in 0..N /\ f[n - 1] \in W
      BY <1>0, <1>4 DEF IsRun
    <3>2. t[<<f[n - 1], n>>] = Step(f[n - 1], n)
      BY <3>1
    <3>. QED  BY <1>4, <3>2 DEF IsRun
  <2>. QED  BY <1>0, <1>4, <2>1 DEF IsRun
<1>6. Run(c)
  <2>. HIDE DEF Run
  <2>. QED  BY <1>5
<1>. HIDE DEF c
<1>7. c[0] = <<>> /\ \A n \in 1..N : c[n] = Step(c[n - 1], n)
  BY <1>0, <1>6
<1>. DEFINE Rolled(q, n) ==
              /\ q \in Seq(Nat) /\ Len(q) \in 0..n
              /\ \A i, j \in Slots(q) : q[i] = q[j] => i = j
              /\ \A i \in Slots(q) : q[i] \in 1..n /\ monsters[q[i]].alive
              /\ \A k \in 1..n : monsters[k].alive => \E i \in Slots(q) : q[i] = k
            T == {n \in 0..N : Rolled(c[n], n)}
<1>8. 0 \in T
  <2>1. Rolled(<<>>, 0)
    BY DEF Slots
  <2>2. 0 \in 0..N
    BY <1>0
  <2>. HIDE DEF Rolled
  <2>. QED  BY <2>1, <2>2, <1>7
<1>9. ASSUME NEW n \in 1..N, Rolled(c[n - 1], n - 1)
      PROVE  Rolled(c[n], n)
  <2>. PICK q : q = c[n - 1]
    OBVIOUS
  <2>1. Rolled(q, n - 1) /\ n \in Nat \ {0} /\ c[n] = Step(q, n)
    BY <1>0, <1>7, <1>9
  <2>2. CASE ~monsters[n].alive
    <3>1. c[n] = q
      BY <2>1, <2>2 DEF Step
    <3>2. \A k \in 1..n : k \in 1..(n - 1) \/ k = n
      BY <2>1
    <3>3. \A k \in 1..(n - 1) : k \in 1..n
      BY <2>1
    <3>4. Len(q) \in 0..n
      BY <2>1
    <3>. QED  BY <3>1, <3>2, <3>3, <3>4, <2>1, <2>2
  <2>3. CASE monsters[n].alive
    <3>. PICK l : l = Len(q)
      OBVIOUS
    <3>1. l \in Nat /\ l <= n - 1 /\ Slots(q) = 1..l
      BY <2>1 DEF Slots
    <3>. DEFINE r == Append(q, n)
    <3>2. r \in Seq(Nat) /\ Len(r) = l + 1 /\ (\A i \in 1..l : r[i] = q[i]) /\ r[l + 1] = n
      BY <2>1, AppendProperties
    <3>3. c[n] = r
      BY <2>1, <2>3 DEF Step
    <3>. HIDE DEF r
    <3>4. Slots(r) = 1..(l + 1) /\ \A i \in 1..(l + 1) : i \in 1..l \/ i = l + 1
      BY <3>1, <3>2 DEF Slots
    <3>5. ASSUME NEW i \in 1..l
          PROVE  i \in 1..(l + 1) /\ q[i] # n /\ q[i] \in 1..n /\ monsters[q[i]].alive
      <4>1. q[i] \in 1..(n - 1) /\ monsters[q[i]].alive
        BY <2>1, <3>1
      <4>. QED  BY <4>1, <2>1, <3>1
    <3>6. ASSUME NEW i \in Slots(r), NEW j \in Slots(r), r[i] = r[j] PROVE i = j
      <4>1. CASE i \in 1..l /\ j \in 1..l
        BY <4>1, <2>1, <3>1, <3>2, <3>6
      <4>2. CASE i = l + 1 \/ j = l + 1
        BY SMTT(120), <4>2, <3>2, <3>4, <3>5, <3>6
      <4>. QED  BY <4>1, <4>2, <3>4
    <3>7. ASSUME NEW i \in Slots(r) PROVE r[i] \in 1..n /\ monsters[r[i]].alive
      <4>1. CASE i \in 1..l
        BY <4>1, <3>2, <3>5
      <4>2. CASE i = l + 1
        BY <4>2, <2>1, <2>3, <3>2
      <4>. QED  BY <4>1, <4>2, <3>4
    <3>8. ASSUME NEW k \in 1..n, monsters[k].alive PROVE \E i \in Slots(r) : r[i] = k
      <4>1. CASE k = n
        <5>1. l + 1 \in 1..(l + 1)
          BY <3>1
        <5>. QED  BY <5>1, <4>1, <3>2, <3>4
      <4>2. CASE k # n
        <5>1. k \in 1..(n - 1)
          BY <4>2, <2>1
        <5>2. PICK i \in 1..l : q[i] = k
          BY <5>1, <3>1, <3>8, <2>1
        <5>. QED  BY <5>2, <3>2, <3>4, <3>5
      <4>. QED  BY <4>1, <4>2
    <3>9. Len(r) \in 0..n
      BY <3>1, <3>2, <2>1
    <3>. QED  BY <3>2, <3>3, <3>6, <3>7, <3>8, <3>9
  <2>. QED  BY <2>2, <2>3
<1>10. N \in T
  <2>1. N \in 0..N
    BY <1>0
  <2>2. ASSUME NEW n \in 1..N, n - 1 \in T PROVE n \in T
    <3>1. n \in 0..N
      BY <1>0
    <3>. HIDE DEF Rolled
    <3>. QED  BY <3>1, <1>9, <2>2
  <2>. HIDE DEF T, N
  <2>. QED  BY <1>0, <1>8, <2>1, <2>2, TurnByTurn
<1>11. Living = c[N]
  BY Zenon DEF Living, c, Run, Step, N
<1>12. Rolled(Living, N)
  BY <1>10, <1>11
<1>13. Roll(Living, monsters) /\ Len(Living) \in 0..N
  BY <1>0, <1>12 DEF Roll
<1>14. \A k \in Slots(monsters) : k \in Elems(Living) <=> monsters[k].alive
  BY <1>0, <1>12 DEF Elems
<1>. QED  BY <1>13, <1>14 DEF N

-----------------------------------------------------------------------------
(* What the actions do to the arrays, in the terms of the lemmas above.    *)

(* The monsters array after the monsters of these spawners were added. *)
Fresh(spawner, oid) ==
  [oid |-> oid, spawner |-> spawner, alive |-> TRUE, controller |-> 0, index |-> 0]

Added(spawners) == monsters \o [i \in Slots(spawners) |-> Fresh(spawners[i], NewOid(i))]

(* The ids that are taken are those on the stack as long as it has enough. *)
LEMMA StackEnough ==
  ASSUME freeStack \in Seq(Ids), NEW c \in 0..Len(freeStack)
  PROVE  /\ \A x \in 1..c : NewOid(x) = Taken(freeStack, x) /\ NewOid(x) \in Ids
         /\ Popped(StackAfter(c), freeStack, c)
<1>1. Len(freeStack) \in Nat /\ \A i \in 1..Len(freeStack) : freeStack[i] \in Ids
  BY SeqTypes DEF Slots
<1>2. ASSUME NEW x \in 1..c PROVE NewOid(x) = Taken(freeStack, x) /\ NewOid(x) \in Ids
  <2>1. x <= Len(freeStack) /\ Len(freeStack) + 1 - x \in 1..Len(freeStack)
    BY <1>1
  <2>. QED  BY <1>1, <2>1 DEF NewOid, Taken
<1>3. StackAfter(c) = SubSeq(freeStack, 1, Len(freeStack) - c)
  BY <1>1 DEF StackAfter
<1>. DEFINE k == Len(freeStack) - c
<1>4. k \in 0..Len(freeStack)
  BY <1>1
<1>5. SubSeq(freeStack, 1, k) \in Seq(Ids) /\ Len(SubSeq(freeStack, 1, k)) = k
      /\ \A i \in 1..k : SubSeq(freeStack, 1, k)[i] = freeStack[i]
  <2>. HIDE DEF k
  <2>. QED  BY <1>1, <1>4
<1>. QED  BY <1>2, <1>3, <1>5 DEF Popped

LEMMA Joining ==
  ASSUME NEW S, NEW p \in Seq(S), NEW q \in Seq(S), NEW r, r = p \o q
  PROVE  /\ r \in Seq(S) /\ Len(r) = Len(p) + Len(q)
         /\ \A k \in 1..Len(p) : r[k] = p[k]
         /\ \A x \in 1..Len(q) : r[Len(p) + x] = q[x]
<1>1. Len(p) \in Nat /\ Len(q) \in Nat
  BY SeqTypes
<1>2. r \in Seq(S) /\ Len(r) = Len(p) + Len(q)
  OBVIOUS
<1>3. \A k \in 1..Len(p) : r[k] = p[k]
  BY <1>1
<1>4. ASSUME NEW x \in 1..Len(q) PROVE r[Len(p) + x] = q[x]
  <2>1. PICK k : k = Len(p) + x
    OBVIOUS
  <2>2. k \in 1..(Len(p) + Len(q)) /\ ~(k <= Len(p)) /\ k - Len(p) = x
    BY <1>1, <2>1
  <2>. QED  BY <1>1, <2>1, <2>2
<1>. QED  BY <1>2, <1>3, <1>4

LEMMA AddedMonsters ==
  ASSUME monsters \in Seq(Monster), freeStack \in Seq(Ids), NEW spawners \in Seq(0..SpawnerCount),
         Len(spawners) <= Len(freeStack)
  PROVE  /\ Added(spawners) \in Seq(Monster) /\ Len(Added(spawners)) = Len(monsters) + Len(spawners)
         /\ \A k \in Slots(monsters) : Added(spawners)[k] = monsters[k]
         /\ \A x \in Slots(spawners) :
              Added(spawners)[Len(monsters) + x] = Fresh(spawners[x], Taken(freeStack, x))
<1>. DEFINE new == [i \in Slots(spawners) |-> Fresh(spawners[i], NewOid(i))]
<1>1. Len(spawners) \in 0..Len(freeStack) /\ Len(monsters) \in Nat
      /\ \A i \in Slots(spawners) : spawners[i] \in 0..SpawnerCount
  <2>1. Len(monsters) \in Nat /\ Len(freeStack) \in Nat
    BY SeqTypes
  <2>2. Len(spawners) \in Nat /\ \A i \in Slots(spawners) : spawners[i] \in 0..SpawnerCount
    BY SeqTypes
  <2>. QED  BY <2>1, <2>2
<1>2. \A i \in Slots(spawners) : NewOid(i) = Taken(freeStack, i) /\ NewOid(i) \in Ids
  BY <1>1, StackEnough DEF Slots
<1>3. \A a \in 0..SpawnerCount, o \in Ids : Fresh(a, o) \in Monster
  BY SpawnerAssumption, BoundsAssumption DEF Fresh, Monster, Ids, Oids
<1>4. new \in [1..Len(spawners) -> Monster]
  BY <1>1, <1>2, <1>3 DEF Slots
<1>5. new \in Seq(Monster) /\ Len(new) = Len(spawners)
  <2>. HIDE DEF new
  <2>. QED  BY SMTT(30), <1>1, <1>4, FunctionIsSeq
<1>6. \A i \in Slots(spawners) : new[i] = Fresh(spawners[i], Taken(freeStack, i))
  BY <1>2
<1>7. PICK r : r = Added(spawners)
  OBVIOUS
<1>8. r = monsters \o new
  BY <1>7 DEF Added
<1>9. /\ r \in Seq(Monster) /\ Len(r) = Len(monsters) + Len(new)
      /\ \A k \in 1..Len(monsters) : r[k] = monsters[k]
      /\ \A x \in 1..Len(new) : r[Len(monsters) + x] = new[x]
  <2>1. PICK q : q = new
    OBVIOUS
  <2>2. q \in Seq(Monster) /\ r = monsters \o q
    BY <2>1, <1>5, <1>8
  <2>. HIDE DEF new
  <2>. QED  BY <2>1, <2>2, Joining
<1>. HIDE DEF new
<1>. QED  BY <1>5, <1>6, <1>7, <1>9 DEF Slots

LEMMA IdsTaken ==
  ASSUME NEW D, NEW free, StackOK(D, free), NEW c \in 0..Len(free)
  PROVE  /\ \A x \in 1..c : Taken(free, x) \in Ids /\ Taken(free, x) \notin D
         /\ \A x, y \in 1..c : Taken(free, x) = Taken(free, y) => x = y
<1>1. free \in Seq(Ids) /\ Injective(free) /\ \A o \in D : \A i \in Slots(free) : free[i] # o
  BY DEF StackOK
<1>2. Len(free) \in Nat /\ \A i \in Slots(free) : free[i] \in Ids
  BY <1>1, SeqTypes
<1>3. \A x \in 1..c : Len(free) + 1 - x \in Slots(free)
  BY <1>2 DEF Slots
<1>. QED  BY <1>1, <1>2, <1>3 DEF Taken, Injective

(* The object list after these ids were given to the monsters behind slot n. *)
NewObjects(n, c) ==
  [o \in DOMAIN objects \cup {NewOid(i) : i \in 1..c} |->
     IF o \in DOMAIN objects THEN objects[o] ELSE n + CHOOSE i \in 1..c : NewOid(i) = o]

LEMMA ObjectsAdded ==
  ASSUME NEW m0, NEW oid, IdsOK(m0, objects, freeStack, oid), NEW n \in Nat, NEW c \in 0..Len(freeStack),
         NEW objs2, objs2 = NewObjects(n, c)
  PROVE  /\ DOMAIN objs2 = DOMAIN objects \cup {Taken(freeStack, x) : x \in 1..c}
         /\ \A o \in DOMAIN objects : objs2[o] = objects[o]
         /\ \A x \in 1..c : objs2[Taken(freeStack, x)] = n + x
<1>1. StackOK(DOMAIN objects, freeStack) /\ freeStack \in Seq(Ids)
  BY DEF IdsOK, StackOK
<1>2. \A x \in 1..c : NewOid(x) = Taken(freeStack, x)
  BY <1>1, StackEnough
<1>3. Popped(StackAfter(c), freeStack, c)
  BY <1>1, StackEnough
<1>4. /\ \A x \in 1..c : Taken(freeStack, x) \notin DOMAIN objects
      /\ \A x, y \in 1..c : Taken(freeStack, x) = Taken(freeStack, y) => x = y
  BY <1>1, <1>3, IdsTaken
<1>0. objs2 = [o \in DOMAIN objects \cup {NewOid(i) : i \in 1..c} |->
                 IF o \in DOMAIN objects THEN objects[o] ELSE n + CHOOSE i \in 1..c : NewOid(i) = o]
  BY DEF NewObjects
<1>5. DOMAIN objs2 = DOMAIN objects \cup {Taken(freeStack, x) : x \in 1..c}
  <2>1. {NewOid(i) : i \in 1..c} = {Taken(freeStack, x) : x \in 1..c}
    BY <1>2
  <2>. QED  BY <2>1, <1>0
<1>6. \A o \in DOMAIN objects : objs2[o] = objects[o]
  BY <1>0
<1>7. ASSUME NEW x \in 1..c PROVE objs2[Taken(freeStack, x)] = n + x
  <2>1. objs2[Taken(freeStack, x)] = n + CHOOSE i \in 1..c : NewOid(i) = Taken(freeStack, x)
    BY <1>0, <1>4, <1>5
  <2>2. \A i \in 1..c : NewOid(i) = Taken(freeStack, x) <=> i = x
    BY <1>2, <1>4
  <2>3. (CHOOSE i \in 1..c : NewOid(i) = Taken(freeStack, x)) = x
    BY <2>2
  <2>. QED  BY <2>1, <2>3
<1>. QED  BY <1>5, <1>6, <1>7

-----------------------------------------------------------------------------
(* Counting the ids: there are as many as monsters, the boss and free ids. *)

LEMMA EachOnce ==
  ASSUME NEW n \in Nat, NEW S, NEW f \in [1..n -> S],
         \A i, j \in 1..n : f[i] = f[j] => i = j, \A x \in S : \E i \in 1..n : f[i] = x
  PROVE  IsFiniteSet(S) /\ Cardinality(S) = n
<1>1. f \in Bijection(1..n, S)
  BY DEF Bijection, Injection, Surjection, IsInjective
<1>2. ExistsBijection(1..n, S)
  BY <1>1 DEF ExistsBijection
<1>3. IsFiniteSet(S)
  BY <1>2, FS_NatBijection
<1>. QED  BY <1>2, <1>3, FS_CountingElements

LEMMA IdsCounted ==
  ASSUME NEW mons, NEW objs, NEW free, NEW oid, IdsOK(mons, objs, free, oid), Len(mons) \in Nat
  PROVE  /\ IsFiniteSet(DOMAIN objs)
         /\ Cardinality(DOMAIN objs) = Len(mons) + (IF oid = NoOid THEN 0 ELSE 1)
         /\ Len(free) \in Nat /\ Cardinality(DOMAIN objs) + Len(free) = SpawnerCount + 1
         /\ DOMAIN objs \cup Elems(free) = Ids
<1>. DEFINE D == DOMAIN objs
            n == Len(mons)
            f == [m \in 1..n |-> mons[m].oid]
<1>1. /\ \A m \in 1..n : mons[m].oid \in D /\ objs[mons[m].oid] = m
      /\ oid # NoOid => oid \in D /\ objs[oid] = 0
      /\ \A o \in D : o # oid => objs[o] \in 1..n /\ mons[objs[o]].oid = o
      /\ D \subseteq Ids /\ free \in Seq(Ids) /\ Injective(free)
      /\ \A o \in Ids : o \in D <=> \A i \in Slots(free) : free[i] # o
  BY DEF IdsOK, StackOK, Slots
<1>2. IsFiniteSet(D \ {oid}) /\ Cardinality(D \ {oid}) = n
  <2>1. \A m \in 1..n : mons[m].oid # oid
    <3>1. ASSUME NEW m \in 1..n, mons[m].oid = oid PROVE FALSE
      <4>1. oid \in D /\ objs[oid] = m /\ m # 0
        BY <1>1, <3>1
      <4>2. oid = NoOid
        BY <4>1, <1>1
      <4>3. oid \in 0..SpawnerCount
        BY <4>1, <1>1 DEF Ids
      <4>. QED  BY <4>2, <4>3 DEF NoOid
    <3>. QED  BY <3>1
  <2>2. f \in [1..n -> D \ {oid}]
    BY <1>1, <2>1
  <2>3. \A i, j \in 1..n : f[i] = f[j] => i = j
    BY <1>1
  <2>4. \A x \in D \ {oid} : \E i \in 1..n : f[i] = x
    BY <1>1
  <2>. HIDE DEF f, D, n
  <2>5. n \in Nat
    BY DEF n
  <2>. QED  BY <2>2, <2>3, <2>4, <2>5, EachOnce
<1>3. IsFiniteSet(Ids) /\ Cardinality(Ids) = SpawnerCount + 1
  <2>1. 0 \in Int /\ SpawnerCount \in Int /\ SpawnerCount > 0
    BY SpawnerAssumption
  <2>. QED  BY <2>1, FS_Interval DEF Ids
<1>4. IsFiniteSet(D)
  BY <1>1, <1>3, FS_Subset
<1>5. Cardinality(D) = n + (IF oid = NoOid THEN 0 ELSE 1)
  <2>1. Cardinality(D \ {oid}) = IF oid \in D THEN Cardinality(D) - 1 ELSE Cardinality(D)
    <3>. HIDE DEF D
    <3>. QED  BY <1>4, FS_RemoveElement
  <2>2. oid \in D <=> oid # NoOid
    <3>1. NoOid \notin Ids
      BY DEF NoOid, Ids
    <3>. QED  BY <3>1, <1>1
  <2>3. Cardinality(D) \in Nat
    <3>. HIDE DEF D
    <3>. QED  BY <1>4, FS_CardinalityType
  <2>. HIDE DEF D, n
  <2>. QED  BY <2>1, <2>2, <2>3, <1>2
<1>6. Len(free) \in Nat /\ \A i \in Slots(free) : free[i] \in Ids
  BY <1>1, SeqTypes
<1>7. IsFiniteSet(Ids \ D) /\ Cardinality(Ids \ D) = Len(free)
  <2>. DEFINE k == Len(free)
              g == [i \in 1..k |-> free[i]]
  <2>1. g \in [1..k -> Ids \ D]
    BY <1>1, <1>6 DEF Slots
  <2>2. \A i, j \in 1..k : g[i] = g[j] => i = j
    BY <1>1 DEF Slots, Injective
  <2>3. \A x \in Ids \ D : \E i \in 1..k : g[i] = x
    BY <1>1 DEF Slots
  <2>4. k \in Nat
    BY <1>6
  <2>. HIDE DEF g, k, D
  <2>5. IsFiniteSet(Ids \ D) /\ Cardinality(Ids \ D) = k
    BY <2>1, <2>2, <2>3, <2>4, EachOnce
  <2>. QED  BY <2>5 DEF k
<1>8. Cardinality(Ids \ D) = Cardinality(Ids) - Cardinality(D) /\ Cardinality(D) \in Nat
  <2>1. Cardinality(Ids \ D) = Cardinality(Ids) - Cardinality(Ids \cap D)
    <3>. HIDE DEF D
    <3>. QED  BY <1>3, FS_Difference
  <2>2. Ids \cap D = D
    BY <1>1
  <2>. HIDE DEF D
  <2>. QED  BY <2>1, <2>2, <1>4, FS_CardinalityType
<1>9. D \cup Elems(free) = Ids
  BY <1>1, <1>6 DEF Elems
<1>. HIDE DEF D, n
<1>10. Cardinality(D) + Len(free) = SpawnerCount + 1
  BY <1>3, <1>6, <1>7, <1>8, SpawnerAssumption
<1>. QED  BY <1>4, <1>5, <1>6, <1>9, <1>10 DEF D, n
-----------------------------------------------------------------------------
(* What Spawned, RemoveMonster and TakeOver do. *)

LEMMA FreshFields ==
  \A a, o : /\ Fresh(a, o).oid = o /\ Fresh(a, o).spawner = a
            /\ Fresh(a, o).alive /\ Fresh(a, o).controller = 0
BY DEF Fresh

LEMMA SpawnedIds ==
  ASSUME NEW spawners \in Seq(0..SpawnerCount), Len(spawners) <= Len(freeStack),
         monsters \in Seq(Monster), NEW s, NEW led, Spawned(spawners, s, led),
         NEW oid, IdsOK(monsters, objects, freeStack, oid),
         NEW mons, SameMonsters(mons, Added(spawners)),
         NEW b, NEW dy, DyingOK(monsters, objects, oid, b, dy)
  PROVE  IdsOK(mons, objects', freeStack', oid) /\ DyingOK(mons, objects', oid, b, dy)
<1>. DEFINE n == Len(monsters)
            c == Len(spawners)
            added == Added(spawners)
<1>1. freeStack \in Seq(Ids)
  BY DEF IdsOK, StackOK
<1>2. n \in Nat /\ c \in 0..Len(freeStack)
  <2>1. Len(freeStack) \in Nat
    BY <1>1, SeqTypes
  <2>2. Len(spawners) \in Nat
    BY SeqTypes
  <2>3. Len(monsters) \in Nat
    BY SeqTypes
  <2>. QED  BY <2>1, <2>2, <2>3
<1>3. /\ Len(added) = n + c /\ \A k \in Slots(monsters) : added[k] = monsters[k]
      /\ \A x \in 1..c : added[n + x] = Fresh(spawners[x], Taken(freeStack, x))
  BY <1>1, AddedMonsters DEF Slots
<1>4. \A x \in 1..c : added[n + x].oid = Taken(freeStack, x)
  <2>. HIDE DEF n, c, added
  <2>. QED  BY <1>3, FreshFields
<1>5. /\ DOMAIN objects' = DOMAIN objects \cup {Taken(freeStack, x) : x \in 1..c}
      /\ \A o \in DOMAIN objects : objects'[o] = objects[o]
      /\ \A x \in 1..c : objects'[Taken(freeStack, x)] = n + x
  <2>1. objects' = NewObjects(n, c)
    BY DEF Spawned, Slots, NewObjects
  <2>2. PICK objs2 : objs2 = objects'
    OBVIOUS
  <2>3. /\ DOMAIN objs2 = DOMAIN objects \cup {Taken(freeStack, x) : x \in 1..c}
        /\ \A o \in DOMAIN objects : objs2[o] = objects[o]
        /\ \A x \in 1..c : objs2[Taken(freeStack, x)] = n + x
    <3>. HIDE DEF n, c
    <3>. QED  BY <1>2, <2>1, <2>2, ObjectsAdded
  <2>. QED  BY <2>2, <2>3
<1>6. Popped(freeStack', freeStack, c)
  <2>1. freeStack' = StackAfter(c)
    BY DEF Spawned
  <2>. HIDE DEF c
  <2>. QED  BY <1>1, <1>2, <2>1, StackEnough
<1>7. IdsOK(added, objects', freeStack', oid)
  <2>1. PICK m0, objs2, free2 : m0 = added /\ objs2 = objects' /\ free2 = freeStack'
    OBVIOUS
  <2>2. /\ Len(m0) = n + c /\ \A k \in Slots(monsters) : m0[k] = monsters[k]
        /\ \A x \in 1..c : m0[n + x].oid = Taken(freeStack, x)
    BY <2>1, <1>3, <1>4
  <2>3. /\ DOMAIN objs2 = DOMAIN objects \cup {Taken(freeStack, x) : x \in 1..c}
        /\ \A o \in DOMAIN objects : objs2[o] = objects[o]
        /\ \A x \in 1..c : objs2[Taken(freeStack, x)] = n + x
        /\ Popped(free2, freeStack, c)
    BY <2>1, <1>5, <1>6
  <2>4. n = Len(monsters)
    OBVIOUS
  <2>. HIDE DEF n, c, added
  <2>5. IdsGrown(m0, monsters, objs2, objects, free2, freeStack, n, c)
    BY <2>2, <2>3 DEF IdsGrown
  <2>6. IdsOK(m0, objs2, free2, oid)
    BY <1>2, <2>4, <2>5, IdsSpawned
  <2>. QED  BY <2>1, <2>6
<1>8. DyingOK(added, objects', oid, b, dy)
  <2>. HIDE DEF n, c, added
  <2>. QED  BY <1>3, <1>5, DyingSpawned
<1>9. Slots(mons) = Slots(added) /\ \A k \in Slots(added) : mons[k].oid = added[k].oid /\ mons[k].alive = added[k].alive
  BY DEF SameMonsters
<1>10. IdsOK(mons, objects', freeStack', oid)
  <2>. HIDE DEF added
  <2>. QED  BY <1>7, <1>9, IdsSame
<1>11. DyingOK(mons, objects', oid, b, dy)
  <2>1. \A o \in DOMAIN objects' : o # oid => objects'[o] \in Slots(added)
    BY <1>7 DEF IdsOK
  <2>. HIDE DEF added
  <2>. QED  BY <1>8, <1>9, <2>1 DEF DyingOK
<1>. QED  BY <1>10, <1>11

LEMMA SpawnedLinked ==
  ASSUME NEW spawners \in Seq(0..SpawnerCount), Len(spawners) <= Len(freeStack), freeStack \in Seq(Ids),
         NEW S, Linked(monsters, lists, S, {}), NEW s, IF S = {} THEN s = 0 ELSE s \in S,
         Spawned(spawners, s, lists)
  PROVE  /\ Linked(monsters', lists', S, {}) /\ Len(lists') = Len(lists)
         /\ SameMonsters(monsters', Added(spawners))
<1>. DEFINE n == Len(monsters)
            c == Len(spawners)
            ms == [i \in Slots(spawners) |-> n + i]
            w == [monsters |-> Added(spawners), lists |-> lists]
<1>1. monsters \in Seq(Monster)
  BY DEF Linked
<1>2. n \in Nat /\ c \in Nat
  <2>2. Len(spawners) \in Nat
    BY SeqTypes
  <2>3. Len(monsters) \in Nat
    BY <1>1, SeqTypes
  <2>. QED  BY <2>2, <2>3
<1>3. /\ Added(spawners) \in Seq(Monster) /\ Len(Added(spawners)) = n + c
      /\ \A k \in Slots(monsters) : Added(spawners)[k] = monsters[k]
      /\ \A x \in 1..c : Added(spawners)[n + x] = Fresh(spawners[x], Taken(freeStack, x))
  BY <1>1, AddedMonsters DEF Slots
<1>4. ms \in Seq(Nat) /\ Slots(ms) = 1..c
  <2>1. ms \in [1..c -> Nat]
    BY <1>2 DEF Slots
  <2>. HIDE DEF ms
  <2>. QED  BY <1>2, <2>1, FunctionIsSeq DEF Slots
<1>5. \A x \in 1..c : /\ ms[x] = n + x
                      /\ Added(spawners)[ms[x]].alive /\ Added(spawners)[ms[x]].controller = 0
  <2>1. \A x \in 1..c : ms[x] = n + x
    BY DEF Slots
  <2>. HIDE DEF ms
  <2>2. \A x \in 1..c : Added(spawners)[n + x].alive /\ Added(spawners)[n + x].controller = 0
    <3>. HIDE DEF n, c
    <3>. QED  BY <1>3, FreshFields
  <2>. QED  BY <2>1, <2>2
<1>6. /\ Linked(Added(spawners), lists, S, Elems(ms)) /\ Roll(ms, Added(spawners))
      /\ S = {} => Linked(Added(spawners), lists, S, {})
  <2>1. PICK m1 : m1 = Added(spawners)
    OBVIOUS
  <2>2. /\ m1 \in Seq(Monster) /\ Len(m1) = n + c /\ \A k \in Slots(monsters) : m1[k] = monsters[k]
        /\ \A x \in 1..c : ms[x] = n + x /\ m1[ms[x]].alive /\ m1[ms[x]].controller = 0
        /\ n = Len(monsters)
    BY <2>1, <1>3, <1>5
  <2>3. Linked(m1, lists, S, Elems(ms)) /\ Roll(ms, m1) /\ (S = {} => Linked(m1, lists, S, {}))
    <3>. HIDE DEF ms, n, c
    <3>1. LinksGrown(m1, monsters, ms, c)
      BY <1>4, <2>2 DEF LinksGrown
    <3>. QED  BY <1>2, <3>1, SpawnedLinks
  <2>. QED  BY <2>1, <2>3
<1>7. Added(spawners) = monsters \o [i \in Slots(spawners) |->
            [oid |-> NewOid(i), spawner |-> spawners[i], alive |-> TRUE, controller |-> 0, index |-> 0]]
  BY DEF Added, Fresh
<1>8. CASE S = {}
  <2>1. 0 \notin S /\ s = 0
    BY <1>8
  <2>2. monsters' = w.monsters /\ lists' = w.lists
    BY <1>7, <2>1 DEF Spawned
  <2>3. SameMonsters(Added(spawners), Added(spawners))
    BY <1>3 DEF SameMonsters
  <2>. QED  BY <1>6, <1>8, <2>2, <2>3
<1>9. CASE S # {}
  <2>1. s \in S /\ s # 0
    <3>1. S \subseteq Slots(lists) /\ lists \in Seq(Seq(Nat))
      BY DEF Linked
    <3>2. Slots(lists) \subseteq Nat \ {0}
      BY <3>1, SeqTypes
    <3>. QED  BY <1>9, <3>1, <3>2
  <2>2. monsters' = LinkAll(w, ms, s).monsters /\ lists' = LinkAll(w, ms, s).lists
    BY <1>7, <2>1 DEF Spawned
  <2>3. w.monsters = Added(spawners) /\ w.lists = lists
    OBVIOUS
  <2>4. PICK v : v = w
    OBVIOUS
  <2>5. v.monsters = Added(spawners) /\ v.lists = lists
    BY <2>3, <2>4
  <2>. HIDE DEF w, ms
  <2>6. /\ Linked(LinkAll(v, ms, s).monsters, LinkAll(v, ms, s).lists, S, {})
        /\ Len(LinkAll(v, ms, s).lists) = Len(v.lists)
        /\ SameMonsters(LinkAll(v, ms, s).monsters, v.monsters)
    BY <1>6, <2>1, <2>5, LinkAllKeeps
  <2>. QED  BY <2>2, <2>4, <2>5, <2>6
<1>. QED  BY <1>8, <1>9

LEMMA ListRetold ==
  ASSUME NEW l0 \in Seq(Seq(Nat)), NEW s \in Slots(l0), NEW x \in Slots(l0[s]), NEW i \in Nat
  PROVE  Retold(Put(l0, s, Put(l0[s], x, i)), l0, s, x, i)
<1>0. PICK r : r = l0[s]
  OBVIOUS
<1>1. r \in Seq(Nat) /\ x \in Slots(r)
  BY <1>0, SeqTypes
<1>2. PICK q : q = Put(l0[s], x, i)
  OBVIOUS
<1>3. /\ q \in Seq(Nat) /\ Slots(q) = Slots(l0[s])
      /\ \A j \in Slots(l0[s]) : q[j] = IF j = x THEN i ELSE l0[s][j]
  <2>1. /\ Put(r, x, i) \in Seq(Nat) /\ Slots(Put(r, x, i)) = Slots(r)
        /\ \A j \in Slots(r) : Put(r, x, i)[j] = IF j = x THEN i ELSE r[j]
    <3>1. PICK S : S = Nat
      OBVIOUS
    <3>2. r \in Seq(S) /\ i \in S
      BY <1>1, <3>1
    <3>3. /\ Put(r, x, i) \in Seq(S) /\ Slots(Put(r, x, i)) = Slots(r)
          /\ \A j \in Slots(r) : Put(r, x, i)[j] = IF j = x THEN i ELSE r[j]
      BY <1>1, <3>2, PutIn
    <3>. QED  BY <3>1, <3>3
  <2>. QED  BY <1>0, <1>2, <2>1
<1>4. PICK ls : ls = Put(l0, s, q)
  OBVIOUS
<1>5. /\ ls \in Seq(Seq(Nat)) /\ Len(ls) = Len(l0) /\ Slots(ls) = Slots(l0)
      /\ \A t \in Slots(l0) : ls[t] = IF t = s THEN q ELSE l0[t]
  <2>1. /\ Put(l0, s, q) \in Seq(Seq(Nat)) /\ Len(Put(l0, s, q)) = Len(l0)
        /\ Slots(Put(l0, s, q)) = Slots(l0)
        /\ \A t \in Slots(l0) : Put(l0, s, q)[t] = IF t = s THEN q ELSE l0[t]
    <3>1. q \in Seq(Nat)
      BY <1>3
    <3>. QED  BY <3>1, PutIn
  <2>. QED  BY <1>4, <2>1
<1>6. ASSUME NEW t \in Slots(l0)
      PROVE  /\ Slots(ls[t]) = Slots(l0[t])
             /\ \A j \in Slots(l0[t]) : ls[t][j] = IF t = s /\ j = x THEN i ELSE l0[t][j]
  <2>1. CASE t = s
    BY <2>1, <1>3, <1>5
  <2>2. CASE t # s
    BY <2>2, <1>5
  <2>. QED  BY <2>1, <2>2
<1>7. Retold(ls, l0, s, x, i)
  BY <1>5, <1>6 DEF Retold
<1>. QED  BY <1>2, <1>4, <1>7

LEMMA RemovedLists ==
  ASSUME NEW m0, NEW l0, NEW S, Linked(m0, l0, S, {}), m0 # <<>>, NEW last, last = m0[Len(m0)],
         NEW i \in Nat, NEW ls,
         ls = IF last.controller # 0 THEN [l0 EXCEPT ![last.controller][last.index] = i] ELSE l0
  PROVE  Retold(ls, l0, last.controller, last.index, i)
<1>1. m0 \in Seq(Monster) /\ l0 \in Seq(Seq(Nat)) /\ S \subseteq Slots(l0)
  BY DEF Linked
<1>2. Len(m0) \in Slots(m0)
  <2>1. Len(m0) \in Nat /\ Len(m0) # 0
    BY <1>1
  <2>. QED  BY <2>1 DEF Slots
<1>3. CASE last.controller = 0
  <2>1. \A t \in Slots(l0) : t # 0
    BY <1>1, SeqTypes
  <2>. QED  BY <1>1, <1>3, <2>1 DEF Retold
<1>4. CASE last.controller # 0
  <2>1. m0[Len(m0)].alive /\ S # {}
    BY <1>2, <1>4 DEF Linked
  <2>2. PICK c, x : c = last.controller /\ x = last.index
    OBVIOUS
  <2>3. c \in S /\ Lists(l0, c, x, Len(m0))
    BY <1>2, <2>1, <2>2, MonsterListed
  <2>4. c \in Slots(l0) /\ x \in Slots(l0[c])
    BY <1>1, <2>3 DEF Lists
  <2>5. ls = [l0 EXCEPT ![c] = [l0[c] EXCEPT ![x] = i]]
    BY <1>1, <1>4, <2>2
  <2>6. ls = Put(l0, c, Put(l0[c], x, i))
    BY <2>5 DEF Put
  <2>7. Retold(Put(l0, c, Put(l0[c], x, i)), l0, c, x, i)
    BY <1>1, <2>4, ListRetold
  <2>. QED  BY <2>2, <2>6, <2>7
<1>. QED  BY <1>3, <1>4

LEMMA RemoveMonsterKeeps ==
  ASSUME NEW w, NEW S, Linked(w.monsters, w.lists, S, {}),
         NEW oid \in DOMAIN objects, NEW boid, oid # boid, IdsOK(w.monsters, objects, freeStack, boid),
         ~w.monsters[objects[oid]].alive, SpawnersOK(w.monsters, dead), RemoveMonster(oid, w)
  PROVE  /\ Linked(monsters', lists', S, {}) /\ Len(lists') = Len(w.lists)
         /\ IdsOK(monsters', objects', freeStack', boid)
         /\ \A b, dy : DyingOK(w.monsters, objects, boid, b, dy) =>
                       DyingOK(monsters', objects', boid, b, dy \ {oid})
         /\ SpawnersOK(monsters', dead') /\ Len(monsters') = Len(w.monsters) - 1
<1>1. PICK m0, l0 : m0 = w.monsters /\ l0 = w.lists
  OBVIOUS
<1>2. PICK i : i = objects[oid]
  OBVIOUS
<1>3. m0 \in Seq(Monster) /\ Linked(m0, l0, S, {}) /\ IdsOK(m0, objects, freeStack, boid) /\ SpawnersOK(m0, dead)
  BY <1>1 DEF Linked
<1>4. i \in Slots(m0) /\ ~m0[i].alive
  BY <1>1, <1>2, <1>3 DEF IdsOK
<1>5. PICK n : n = Len(m0)
  OBVIOUS
<1>6. n \in Nat \ {0} /\ n \in Nat /\ i \in 1..n /\ Slots(m0) = 1..n /\ i \in Nat /\ m0 # <<>>
  BY <1>3, <1>4, <1>5, SeqTypes DEF Slots
<1>7. PICK last : last = m0[n]
  OBVIOUS
<1>8. /\ monsters' = FillHole(m0, i)
      /\ lists' = IF last.controller # 0 THEN [l0 EXCEPT ![last.controller][last.index] = i] ELSE l0
      /\ dead' = DeadAfter(m0[i].spawner)
      /\ objects' = [o \in DOMAIN objects \ {oid} |-> IF o = last.oid THEN i ELSE objects[o]]
      /\ freeStack' = Append(freeStack, oid)
  BY <1>1, <1>2, <1>5, <1>7 DEF RemoveMonster, FillHole
<1>9. PICK mons, ls, objs2, d2 : mons = monsters' /\ ls = lists' /\ objs2 = objects' /\ d2 = dead'
  OBVIOUS
<1>10. mons \in Seq(Monster) /\ Len(mons) = n - 1 /\ Moved(mons, m0, i, n)
  <2>1. /\ FillHole(m0, i) \in Seq(Monster) /\ Len(FillHole(m0, i)) = Len(m0) - 1
        /\ \A j \in 1..(Len(m0) - 1) : FillHole(m0, i)[j] = IF j = i THEN m0[Len(m0)] ELSE m0[j]
    BY <1>3, <1>4, HoleFilled
  <2>. QED  BY <1>5, <1>8, <1>9, <2>1 DEF Slots, Moved
<1>11. Retold(ls, l0, m0[n].controller, m0[n].index, i)
  <2>1. ls = IF last.controller # 0 THEN [l0 EXCEPT ![last.controller][last.index] = i] ELSE l0
    BY <1>8, <1>9
  <2>2. last = m0[Len(m0)]
    BY <1>5, <1>7
  <2>3. Retold(ls, l0, last.controller, last.index, i)
    BY <1>3, <1>6, <2>1, <2>2, RemovedLists
  <2>. QED  BY <1>7, <2>3
<1>12. Linked(mons, ls, S, {})
  BY <1>3, <1>4, <1>5, <1>10, <1>11, RemovedLinks
<1>13. Len(ls) = Len(l0)
  BY <1>11 DEF Retold
<1>14. Forgot(objs2, objects, oid, m0[n].oid, i)
  BY <1>7, <1>8, <1>9 DEF Forgot
<1>15. /\ IdsOK(mons, objs2, Append(freeStack, oid), boid)
       /\ \A b, dy : DyingOK(m0, objects, boid, b, dy) => DyingOK(mons, objs2, boid, b, dy \ {oid})
  BY <1>2, <1>3, <1>5, <1>6, <1>10, <1>14, IdsRemoved
<1>16. SpawnersOK(mons, d2)
  <2>1. PICK sp : sp = m0[i].spawner
    OBVIOUS
  <2>2. m0[i] \in Monster
    BY <1>3, <1>4, SeqTypes
  <2>3. sp \in 0..SpawnerCount
    BY <2>1, <2>2 DEF Monster
  <2>4. Recorded(d2, dead, sp)
    BY <1>8, <1>9, <2>1 DEF DeadAfter, Recorded
  <2>. QED  BY <1>3, <1>6, <1>10, <2>1, <2>3, <2>4, SpawnersRemoved
<1>. QED  BY <1>1, <1>5, <1>8, <1>9, <1>10, <1>12, <1>13, <1>15, <1>16

-----------------------------------------------------------------------------
(***************************************************************************)
(* The inductive invariant: its parts say what holds of players and heap,  *)
(* of the links, of the ids, of the spawners and of the boss.              *)
(***************************************************************************)

SeatPart == SeatsOK(players, playerCapacity) /\ NodesOK(heap, players)

LinkPart == Len(lists) = Len(players) /\ Linked(monsters, lists, Slots(players), {})

IdPart ==
  /\ IdsOK(monsters, objects, freeStack, boss.oid)
  /\ DyingOK(monsters, objects, boss.oid, boss.alive, dying)

SpawnerPart ==
  SpawnersOK(monsters, dead) /\ Len(monsters) <= SpawnerCount /\ monsterCapacity = SpawnerCount

BossPart ==
  /\ boss \in [oid : Ids \cup {NoOid}, alive : BOOLEAN, controller : Nat \cup {Freed}]
  /\ spawns \in 0..MaxSpawns /\ corrupt \in BOOLEAN

IInv == SeatPart /\ LinkPart /\ IdPart /\ SpawnerPart /\ BossPart

(* map_create() *)
LEMMA InitHolds ==
  ASSUME Init
  PROVE  IInv
<1>1. SeatPart
  <2>1. players = <<>> /\ heap = <<>> /\ playerCapacity = 1 /\ Len(<<>>) = 0 /\ Slots(<<>>) = {}
    BY DEF Init, Slots
  <2>2. <<>> \in Seq(Player) /\ <<>> \in Seq(Node)
    OBVIOUS
  <2>3. SeatsOK(<<>>, 1)
    BY <2>1, <2>2 DEF SeatsOK, Injective
  <2>4. NodesOK(<<>>, <<>>)
    BY <2>1, <2>2 DEF NodesOK, WhoDistinct, Ordered
  <2>. QED  BY <2>1, <2>3, <2>4 DEF SeatPart
<1>. DEFINE mons == [i \in 1..SpawnerCount |-> Fresh(i, i - 1)]
<1>2. monsters = mons
  BY DEF Init, Fresh
<1>3. SpawnerCount \in Nat /\ SpawnerCount # 0 /\ mons \in Seq(Monster) /\ Len(mons) = SpawnerCount
  <2>1. SpawnerCount \in Nat /\ SpawnerCount # 0
    BY SpawnerAssumption
  <2>2. \A a \in 0..SpawnerCount, o \in Ids : Fresh(a, o) \in Monster
    BY SpawnerAssumption, BoundsAssumption DEF Fresh, Monster, Ids, Oids
  <2>3. mons \in [1..SpawnerCount -> Monster]
    BY <2>1, <2>2 DEF Ids
  <2>. HIDE DEF mons
  <2>. QED  BY <2>1, <2>3, FunctionIsSeq
<1>4. \A k \in 1..SpawnerCount : /\ mons[k].oid = k - 1 /\ mons[k].spawner = k
                                 /\ mons[k].controller = 0
  BY FreshFields
<1>. HIDE DEF mons
<1>5. LinkPart
  <2>1. lists = <<>> /\ players = <<>> /\ Len(<<>>) = 0 /\ Slots(<<>>) = {} /\ <<>> \in Seq(Seq(Nat))
    BY DEF Init, Slots
  <2>2. Slots(mons) = 1..SpawnerCount
    BY <1>3 DEF Slots
  <2>3. Linked(mons, <<>>, {}, {})
    BY <2>1, <2>2, <1>3, <1>4 DEF Linked
  <2>. QED  BY <2>1, <2>3, <1>2 DEF LinkPart
<1>6. IdPart
  <2>1. /\ objects = [o \in Ids |-> (o + 1) % (SpawnerCount + 1)]
        /\ freeStack = <<>> /\ dying = {} /\ boss.oid = SpawnerCount
    BY DEF Init, Ids
  <2>2. PICK objs : objs = objects
    OBVIOUS
  <2>3. /\ DOMAIN objs = Ids
        /\ \A o \in 0..(SpawnerCount - 1) : objs[o] = o + 1
        /\ objs[SpawnerCount] = 0
    <3>1. \A o \in Ids : objs[o] = (o + 1) % (SpawnerCount + 1)
      BY <2>1, <2>2
    <3>2. \A o \in 0..(SpawnerCount - 1) : o \in Ids /\ (o + 1) % (SpawnerCount + 1) = o + 1
      BY <1>3 DEF Ids
    <3>3. SpawnerCount \in Ids /\ (SpawnerCount + 1) % (SpawnerCount + 1) = 0
      BY <1>3 DEF Ids
    <3>. QED  BY <3>1, <3>2, <3>3, <2>1, <2>2
  <2>4. StackOK(Ids, <<>>)
    <3>1. <<>> \in Seq(Ids) /\ Slots(<<>>) = {}
      BY DEF Slots
    <3>. QED  BY <3>1 DEF StackOK, Injective
  <2>5. \A m \in Slots(mons) : mons[m].oid \in Ids /\ objs[mons[m].oid] = m
    <3>1. ASSUME NEW m \in 1..SpawnerCount PROVE mons[m].oid \in Ids /\ objs[mons[m].oid] = m
      <4>1. mons[m].oid = m - 1 /\ m - 1 \in 0..(SpawnerCount - 1)
        BY <1>3, <1>4
      <4>2. objs[m - 1] = (m - 1) + 1
        BY <2>3, <4>1
      <4>. QED  BY <4>1, <4>2, <1>3 DEF Ids
    <3>. QED  BY <3>1, <1>3 DEF Slots
  <2>6. \A o \in Ids : o # SpawnerCount => objs[o] \in Slots(mons) /\ mons[objs[o]].oid = o
    <3>1. ASSUME NEW o \in 0..(SpawnerCount - 1) PROVE objs[o] \in 1..SpawnerCount /\ mons[objs[o]].oid = o
      <4>1. objs[o] = o + 1 /\ o + 1 \in 1..SpawnerCount
        BY <2>3, <1>3
      <4>2. mons[o + 1].oid = (o + 1) - 1
        BY <4>1, <1>4
      <4>. QED  BY <4>1, <4>2
    <3>2. \A o \in Ids : o # SpawnerCount => o \in 0..(SpawnerCount - 1)
      BY <1>3 DEF Ids
    <3>. QED  BY <3>1, <3>2, <1>3 DEF Slots
  <2>7. SpawnerCount \in Ids
    BY <1>3 DEF Ids
  <2>8. IdsOK(mons, objs, <<>>, SpawnerCount)
    BY <2>3, <2>4, <2>5, <2>6, <2>7 DEF IdsOK
  <2>. QED  BY <2>1, <2>2, <2>8, <1>2 DEF IdPart, DyingOK
<1>7. SpawnerPart
  <2>1. dead = [i \in 1..SpawnerCount |-> 0] /\ monsterCapacity = SpawnerCount
    BY DEF Init
  <2>2. \A s \in 1..SpawnerCount : dead[s] = 0 /\ OnlyOf(mons, s, s)
    BY <2>1, <1>3, <1>4 DEF OnlyOf, Slots
  <2>3. SpawnersOK(mons, dead)
    BY <2>1, <2>2 DEF SpawnersOK
  <2>. QED  BY <2>1, <2>3, <1>2, <1>3 DEF SpawnerPart
<1>8. BossPart
  <2>1. boss = [oid |-> SpawnerCount, alive |-> TRUE, controller |-> 0] /\ spawns = 0 /\ corrupt = FALSE
    BY DEF Init
  <2>2. SpawnerCount \in Ids /\ 0 \in 0..MaxSpawns
    BY <1>3, BoundsAssumption DEF Ids
  <2>. QED  BY <2>1, <2>2 DEF BossPart
<1>. QED  BY <1>1, <1>5, <1>6, <1>7, <1>8 DEF IInv

(* Nothing but links was changed in the monsters array. *)
LEMMA OthersKept ==
  ASSUME IdPart, SpawnerPart, SameMonsters(monsters', monsters),
         boss'.oid = boss.oid, boss'.alive = boss.alive,
         UNCHANGED <<ids, dying, dead, monsterCapacity>>
  PROVE  IdPart' /\ SpawnerPart'
<1>1. PICK mons : mons = monsters'
  OBVIOUS
<1>2. /\ Len(mons) = Len(monsters) /\ Slots(mons) = Slots(monsters)
      /\ \A k \in Slots(monsters) : /\ mons[k].oid = monsters[k].oid
                                    /\ mons[k].spawner = monsters[k].spawner
                                    /\ mons[k].alive = monsters[k].alive
  BY <1>1 DEF SameMonsters
<1>3. IdsOK(mons, objects, freeStack, boss.oid)
  BY <1>2, IdsSame DEF IdPart
<1>4. DyingOK(mons, objects, boss.oid, boss.alive, dying)
  BY <1>2 DEF IdPart, IdsOK, DyingOK
<1>5. SpawnersOK(mons, dead)
  BY <1>2, SpawnersSame DEF SpawnerPart
<1>6. UNCHANGED <<objects, freeStack, dying, dead, monsterCapacity>>
  BY DEF ids
<1>7. IdPart'
  BY <1>1, <1>3, <1>4, <1>6 DEF IdPart
<1>8. SpawnerPart'
  BY <1>1, <1>2, <1>5, <1>6 DEF SpawnerPart
<1>. QED  BY <1>7, <1>8

LEMMA MonstersSame ==
  ASSUME NEW mons \in Seq(Monster)
  PROVE  SameMonsters(mons, mons)
BY DEF SameMonsters

(* A player who is present has a slot. *)
LEMMA SlotOf ==
  ASSUME NEW p, Present(p)
  PROVE  Slot(p) \in Slots(players) /\ players[Slot(p)] = p
BY DEF Present, Slot

(* map_join() *)
LEMMA JoinKeeps ==
  ASSUME IInv, NEW p \in Player, Join(p)
  PROVE  IInv'
<1>. DEFINE s == Len(players) + 1
            taken == IF heap = <<>> THEN Living ELSE <<>>
            l1 == Append(lists, <<>>)
            w == [monsters |-> monsters, lists |-> l1]
<1>1. /\ players' = Append(players, p) /\ playerCapacity' = CapacityAfterJoin
      /\ monsters' = LinkAll(w, taken, s).monsters /\ lists' = LinkAll(w, taken, s).lists
      /\ heap' = HeapPush(heap, [who |-> p, count |-> Len(taken), slot |-> s])
      /\ UNCHANGED <<monsterCapacity, dead, ids, dying, spawns, corrupt>>
      /\ ~Present(p) /\ ~corrupt
  BY DEF Join
<1>2. /\ players \in Seq(Player) /\ Len(players) \in Nat /\ s \in Nat /\ Len(heap) = Len(players)
      /\ heap \in Seq(Node) /\ WhoDistinct(heap) /\ Ordered(heap)
      /\ \A i \in Slots(heap) : heap[i].slot \in Slots(players) /\ players[heap[i].slot] = heap[i].who
  <2>1. players \in Seq(Player)
    BY DEF IInv, SeatPart, SeatsOK
  <2>2. Len(players) \in Nat
    BY <2>1, SeqTypes
  <2>. QED  BY <2>1, <2>2 DEF IInv, SeatPart, NodesOK
<1>3. \A t \in Slots(players) : players[t] # p
  BY <1>1 DEF Present
<1>4. /\ monsters \in Seq(Monster) /\ Len(monsters) \in Nat /\ Len(monsters) <= SpawnerCount
      /\ lists \in Seq(Seq(Nat)) /\ Len(lists) = Len(players)
      /\ Linked(monsters, lists, Slots(players), {})
  <2>1. monsters \in Seq(Monster) /\ lists \in Seq(Seq(Nat))
    BY DEF IInv, LinkPart, Linked
  <2>2. Len(monsters) \in Nat
    BY <2>1, SeqTypes
  <2>. QED  BY <2>1, <2>2 DEF IInv, LinkPart, SpawnerPart
<1>5. /\ Roll(Living, monsters) /\ Len(Living) \in 0..Len(monsters)
      /\ \A k \in Slots(monsters) : k \in Elems(Living) <=> monsters[k].alive
  BY <1>4, LivingRoll
<1>6. Roll(taken, monsters) /\ Len(taken) \in 0..SpawnerCount
  <2>1. Roll(<<>>, monsters) /\ Len(<<>>) = 0
    <3>1. <<>> \in Seq(Nat) /\ Slots(<<>>) = {} /\ Len(<<>>) = 0
      BY DEF Slots
    <3>. QED  BY <3>1 DEF Roll
  <2>. QED  BY <2>1, <1>4, <1>5, SpawnerAssumption
<1>7. heap = <<>> <=> Slots(players) = {}
  BY <1>2 DEF Slots
<1>8. Elems(<<>>) = {}
  BY DEF Elems, Slots
<1>9. IF Slots(players) = {} THEN \A k \in Slots(monsters) : k \in Elems(taken) <=> monsters[k].alive
      ELSE Elems(taken) = {}
  BY <1>5, <1>7, <1>8
<1>. HIDE DEF taken
<1>10. SeatPart'
  <2>1. SeatsOK(Append(players, p), CapacityAfterJoin)
    <3>1. CapacityAfterJoin = IF Len(players) = playerCapacity THEN 2 * playerCapacity ELSE playerCapacity
      BY DEF CapacityAfterJoin
    <3>2. SeatsOK(players, playerCapacity)
      BY DEF IInv, SeatPart
    <3>. QED  BY <3>1, <3>2, <1>3, SeatsJoin
  <2>2. PICK node : node = [who |-> p, count |-> Len(taken), slot |-> s]
    OBVIOUS
  <2>3. node \in Node /\ node.who = p
    BY <2>2, <1>2, <1>6, BoundsAssumption, SpawnerAssumption DEF Node
  <2>4. Pushed(HeapPush(heap, node), heap, node)
    <3>1. \A i \in Slots(heap) : heap[i].who # node.who
      BY <2>3, <1>2, <1>3
    <3>. QED  BY <2>3, <3>1, <1>2, PushDoes
  <2>5. PICK g, c : g = HeapPush(heap, node) /\ c = Len(taken)
    OBVIOUS
  <2>6. Pushed(g, heap, [who |-> p, count |-> c, slot |-> Len(players) + 1])
    BY <2>2, <2>4, <2>5
  <2>7. c \in 0..SpawnerCount /\ NodesOK(heap, players)
    BY <2>5, <1>6 DEF IInv, SeatPart
  <2>8. NodesOK(g, Append(players, p))
    <3>. HIDE DEF s
    <3>. QED  BY <2>6, <2>7, <1>2, <1>3, NodesJoin
  <2>. QED  BY <2>1, <2>2, <2>5, <2>8, <1>1 DEF SeatPart
<1>11. /\ l1 \in Seq(Seq(Nat)) /\ Len(l1) = s /\ Slots(l1) = Slots(players) \cup {s}
       /\ l1[s] = <<>> /\ \A t \in Slots(players) : l1[t] = lists[t]
       /\ s \in Nat \ Slots(players)
  <2>1. <<>> \in Seq(Nat)
    OBVIOUS
  <2>. QED  BY <2>1, <1>2, <1>4 DEF Slots
<1>12. Linked(monsters, l1, Slots(players) \cup {s}, Elems(taken))
  <2>. HIDE DEF s, l1
  <2>. QED  BY <1>4, <1>9, <1>11, SeatTaken
<1>13. PICK v, S : v = w /\ S = Slots(players) \cup {s}
  OBVIOUS
<1>14. /\ Linked(LinkAll(v, taken, s).monsters, LinkAll(v, taken, s).lists, S, {})
       /\ Len(LinkAll(v, taken, s).lists) = Len(v.lists)
       /\ SameMonsters(LinkAll(v, taken, s).monsters, v.monsters)
       /\ v.monsters = monsters /\ Len(v.lists) = s
  <2>1. v.monsters = monsters /\ v.lists = l1 /\ s \in S
    BY <1>13
  <2>2. Linked(v.monsters, v.lists, S, Elems(taken)) /\ Roll(taken, v.monsters)
    BY <2>1, <1>6, <1>12, <1>13
  <2>. HIDE DEF w, s, l1
  <2>. QED  BY SMTT(30), <2>1, <2>2, <1>11, LinkAllKeeps
<1>15. LinkPart'
  <2>1. Slots(players') = S /\ Len(players') = s
    BY <1>1, <1>2, <1>13 DEF Slots
  <2>. HIDE DEF w, s
  <2>. QED  BY <2>1, <1>1, <1>13, <1>14 DEF LinkPart
<1>16. /\ boss' \in [oid : Ids \cup {NoOid}, alive : BOOLEAN, controller : Nat \cup {Freed}]
       /\ boss'.oid = boss.oid /\ boss'.alive = boss.alive
  <2>1. boss \in [oid : Ids \cup {NoOid}, alive : BOOLEAN, controller : Nat \cup {Freed}]
    BY DEF IInv, BossPart
  <2>2. PICK b \in MovedBoss :
          boss' = IF b.oid # NoOid /\ b.controller = 0 THEN [b EXCEPT !.controller = s] ELSE b
    BY DEF Join
  <2>3. /\ b \in [oid : Ids \cup {NoOid}, alive : BOOLEAN, controller : Nat \cup {Freed}]
        /\ b.oid = boss.oid /\ b.alive = boss.alive
    <3>1. b = boss \/ b = [boss EXCEPT !.controller = Freed]
      BY <2>2 DEF MovedBoss
    <3>. QED  BY <3>1, <2>1
  <2>4. boss' = b \/ boss' = [b EXCEPT !.controller = s]
    BY <2>2
  <2>. HIDE DEF s
  <2>. QED  BY <2>3, <2>4, <1>2
<1>17. BossPart'
  BY <1>1, <1>16 DEF IInv, BossPart
<1>18. SameMonsters(monsters', monsters)
  <2>. HIDE DEF w, s
  <2>. QED  BY <1>1, <1>13, <1>14
<1>19. IdPart' /\ SpawnerPart'
  BY <1>1, <1>16, <1>18, OthersKept DEF IInv
<1>. QED  BY <1>10, <1>15, <1>17, <1>19 DEF IInv

LEMMA SetControllersDoes ==
  ASSUME NEW m0 \in Seq(Monster), NEW q, NEW s \in Nat
  PROVE  Redirected(SetControllers(m0, Elems(q), s), m0, q, s)
<1>. DEFINE mons == SetControllers(m0, Elems(q), s)
<1>1. Len(m0) \in Nat /\ Slots(m0) = 1..Len(m0) /\ \A k \in Slots(m0) : m0[k] \in Monster
  BY SeqTypes DEF Slots
<1>2. \A e \in Monster :
        LET f == [e EXCEPT !.controller = s]
        IN  /\ f \in Monster /\ f.oid = e.oid /\ f.spawner = e.spawner /\ f.alive = e.alive
            /\ f.controller = s /\ f.index = e.index
  BY DEF Monster
<1>3. mons = [k \in 1..Len(m0) |-> IF k \in Elems(q) THEN [m0[k] EXCEPT !.controller = s] ELSE m0[k]]
  BY <1>1 DEF SetControllers
<1>4. mons \in [1..Len(m0) -> Monster]
  BY <1>1, <1>2, <1>3
<1>5. \A k \in 1..Len(m0) :
        /\ mons[k].oid = m0[k].oid /\ mons[k].spawner = m0[k].spawner /\ mons[k].alive = m0[k].alive
        /\ mons[k].controller = IF k \in Elems(q) THEN s ELSE m0[k].controller
        /\ mons[k].index = m0[k].index
  BY <1>1, <1>2, <1>3
<1>. HIDE DEF mons
<1>6. mons \in Seq(Monster) /\ Len(mons) = Len(m0)
  BY <1>1, <1>4, FunctionIsSeq
<1>7. SameMonsters(mons, m0)
  BY <1>1, <1>5, <1>6 DEF SameMonsters, Slots
<1>8. Redirected(mons, m0, q, s)
  BY <1>1, <1>5, <1>7 DEF Redirected
<1>. QED  BY <1>8 DEF mons

LEMMA SlotsSame ==
  ASSUME NEW a, NEW b, Len(a) = Len(b)
  PROVE  Slots(a) = Slots(b)
BY DEF Slots

(* map_leave() while others stay. *)
LEMMA LeaveOthersKeeps ==
  ASSUME IInv, NEW p \in Player, LeaveOthers(p)
  PROVE  IInv'
<1>1. PICK s, h : s = Slot(p) /\ h = HeapRemove(heap, p)
  OBVIOUS
<1>2. PICK n, next : n = Len(players) /\ next = h[1].slot
  OBVIOUS
<1>3. PICK w : w = LinkAll(World, lists[s], next)
  OBVIOUS
<1>4. /\ Present(p) /\ n > 1 /\ FillSlot(s, w, h)
      /\ boss' = IF boss.oid # NoOid /\ boss.controller = s
                 THEN [boss EXCEPT !.controller = next] ELSE boss
      /\ UNCHANGED <<playerCapacity, monsterCapacity, dead, ids, dying, spawns, corrupt>>
  BY <1>1, <1>2, <1>3 DEF LeaveOthers
<1>5. s \in Slots(players) /\ players[s] = p
  BY <1>1, <1>4, SlotOf
<1>6. /\ players \in Seq(Player) /\ Injective(players) /\ SeatsOK(players, playerCapacity)
      /\ NodesOK(heap, players)
      /\ heap \in Seq(Node) /\ WhoDistinct(heap) /\ Ordered(heap)
      /\ \E i \in Slots(heap) : heap[i].who = p
  BY <1>5 DEF IInv, SeatPart, SeatsOK, NodesOK
<1>7. n \in Nat /\ s \in Nat /\ Slots(players) = 1..n /\ s \in 1..n
  BY <1>2, <1>5, <1>6, SeqTypes DEF Slots
<1>8. Removed(h, heap, players[s]) /\ h \in Seq(Node)
  <2>1. Removed(HeapRemove(heap, p), heap, p)
    BY <1>6, RemoveDoes
  <2>. QED  BY <2>1, <1>1, <1>5 DEF Removed
<1>9. next \in Slots(players) \ {s}
  <2>1. h[1].slot \in Slots(players) \ {s}
    BY <1>2, <1>4, <1>5, <1>6, <1>8, TopStays
  <2>. QED  BY <2>1, <1>2
<1>10. players' = FillHole(players, s)
  BY <1>2, <1>4 DEF FillSlot, FillHole
<1>11. Vacated(FillHole(players, s), players, s) /\ SeatsOK(FillHole(players, s), playerCapacity)
  BY <1>5, <1>6, SeatsLeave
<1>12. SeatPart'
  <2>1. Relocated(heap', h, n, s)
    <3>1. heap' = [i \in Slots(h) |-> IF h[i].slot = n THEN [h[i] EXCEPT !.slot = s] ELSE h[i]]
      BY <1>2, <1>4 DEF FillSlot
    <3>. QED  BY <3>1, <1>7, <1>8, RelocateDoes
  <2>2. PICK f, qs : f = heap' /\ qs = FillHole(players, s)
    OBVIOUS
  <2>3. Relocated(f, h, Len(players), s) /\ Vacated(qs, players, s)
    BY <2>1, <2>2, <1>2, <1>11
  <2>4. NodesOK(f, qs)
    BY <2>3, <1>5, <1>6, <1>8, NodesLeave
  <2>. QED  BY <2>2, <2>4, <1>4, <1>10, <1>11 DEF SeatPart
<1>13. PICK S : S = Slots(players) \ {s}
  OBVIOUS
<1>14. Linked(monsters, lists, Slots(players), {}) /\ Len(lists) = n
  BY <1>2 DEF IInv, LinkPart
<1>15. Linked(monsters, lists, S, Elems(lists[s])) /\ Roll(lists[s], monsters)
  <2>1. Slots(players) \ {s} # {}
    BY <1>9
  <2>. QED  BY <2>1, <1>5, <1>13, <1>14, SeatLost
<1>16. Linked(w.monsters, w.lists, S, {}) /\ Len(w.lists) = n /\ SameMonsters(w.monsters, monsters)
  <2>1. PICK v, q : v = World /\ q = lists[s]
    OBVIOUS
  <2>2. v.monsters = monsters /\ v.lists = lists
    BY <2>1 DEF World
  <2>3. Linked(v.monsters, v.lists, S, Elems(q)) /\ Roll(q, v.monsters) /\ next \in S
    BY <2>1, <2>2, <1>9, <1>13, <1>15
  <2>4. /\ Linked(LinkAll(v, q, next).monsters, LinkAll(v, q, next).lists, S, {})
        /\ Len(LinkAll(v, q, next).lists) = Len(v.lists)
        /\ SameMonsters(LinkAll(v, q, next).monsters, v.monsters)
    BY <2>3, LinkAllKeeps
  <2>. QED  BY <2>1, <2>2, <2>4, <1>3, <1>14
<1>17. PICK m0, l0 : m0 = w.monsters /\ l0 = w.lists
  OBVIOUS
<1>18. /\ Linked(m0, l0, S, {}) /\ Len(l0) = n /\ SameMonsters(m0, monsters)
       /\ m0 \in Seq(Monster) /\ l0 \in Seq(Seq(Nat))
  BY <1>16, <1>17 DEF Linked
<1>19. /\ lists' = FillHole(l0, s)
       /\ monsters' = IF s = n THEN m0 ELSE SetControllers(m0, Elems(l0[n]), s)
  BY <1>2, <1>4, <1>17, <1>18 DEF FillSlot, FillHole, Elems
<1>20. PICK ls : ls = lists'
  OBVIOUS
<1>21. /\ ls \in Seq(Seq(Nat)) /\ Len(ls) = n - 1 /\ Slots(ls) = 1..(n - 1)
       /\ \A j \in 1..(n - 1) : ls[j] = IF j = s THEN l0[n] ELSE l0[j]
  <2>1. s \in Slots(l0)
    BY <1>7, <1>18 DEF Slots
  <2>2. /\ FillHole(l0, s) \in Seq(Seq(Nat)) /\ Len(FillHole(l0, s)) = Len(l0) - 1
        /\ \A j \in 1..(Len(l0) - 1) : FillHole(l0, s)[j] = IF j = s THEN l0[Len(l0)] ELSE l0[j]
    BY <2>1, <1>18, HoleFilled
  <2>. QED  BY <2>2, <1>18, <1>19, <1>20 DEF Slots
<1>22. Linked(monsters', ls, 1..(n - 1), {}) /\ SameMonsters(monsters', m0)
  <2>1. CASE s = n
    <3>1. monsters' = m0 /\ S = 1..(n - 1)
      BY <2>1, <1>7, <1>13, <1>19
    <3>2. \A t \in S : ls[t] = l0[t]
      BY <2>1, <3>1, <1>7, <1>21
    <3>3. Linked(m0, ls, S, {})
      BY <3>1, <3>2, <1>18, <1>21, SameLists
    <3>4. SameMonsters(m0, m0)
      BY <1>18, MonstersSame
    <3>. QED  BY <3>1, <3>3, <3>4
  <2>2. CASE s # n
    <3>1. PICK mons, S1 : mons = monsters' /\ S1 = (S \ {n}) \cup {s}
      OBVIOUS
    <3>2. Redirected(mons, m0, l0[n], s)
      <4>1. mons = SetControllers(m0, Elems(l0[n]), s)
        BY <2>2, <3>1, <1>19
      <4>. QED  BY <4>1, <1>7, <1>18, SetControllersDoes
    <3>3. n \in S /\ s \in Nat \ S /\ S1 = 1..(n - 1) /\ S \ {n} \subseteq 1..(n - 1) /\ s \in 1..(n - 1)
      BY <2>2, <3>1, <1>7, <1>13
    <3>4. /\ S1 \subseteq Slots(ls) /\ ls[s] = l0[n] /\ \A t \in S \ {n} : ls[t] = l0[t]
      BY <3>3, <1>13, <1>21
    <3>5. Linked(mons, ls, S1, {})
      <4>1. n \in S /\ s \in Nat \ S /\ S1 = (S \ {n}) \cup {s}
        BY <3>1, <3>3
      <4>2. Linked(m0, l0, S, {}) /\ ls \in Seq(Seq(Nat))
        BY <1>18, <1>21
      <4>. QED  BY SMTT(30), <3>2, <3>4, <4>1, <4>2, SeatMoved
    <3>. QED  BY <3>1, <3>2, <3>3, <3>5 DEF Redirected
  <2>. QED  BY <2>1, <2>2
<1>23. LinkPart'
  <2>1. Len(players') = n - 1 /\ Slots(players') = 1..(n - 1)
    BY <1>2, <1>10, <1>11 DEF Vacated, Slots
  <2>. QED  BY <2>1, <1>20, <1>21, <1>22 DEF LinkPart
<1>24. SameMonsters(monsters', monsters)
  BY <1>18, <1>22 DEF SameMonsters
<1>25. /\ boss' \in [oid : Ids \cup {NoOid}, alive : BOOLEAN, controller : Nat \cup {Freed}]
       /\ boss'.oid = boss.oid /\ boss'.alive = boss.alive
  <2>1. boss \in [oid : Ids \cup {NoOid}, alive : BOOLEAN, controller : Nat \cup {Freed}]
    BY DEF IInv, BossPart
  <2>2. boss' = boss \/ boss' = [boss EXCEPT !.controller = next]
    BY <1>4
  <2>3. next \in Nat
    BY <1>7, <1>9
  <2>. QED  BY <2>1, <2>2, <2>3
<1>26. BossPart'
  BY <1>4, <1>25 DEF IInv, BossPart
<1>27. IdPart' /\ SpawnerPart'
  BY <1>4, <1>24, <1>25, OthersKept DEF IInv
<1>. QED  BY <1>12, <1>23, <1>26, <1>27 DEF IInv

(* map_leave() of the last player. *)
LEMMA LeaveLastKeeps ==
  ASSUME IInv, NEW p \in Player, LeaveLast(p)
  PROVE  IInv'
<1>1. /\ Present(p) /\ Len(players) = 1 /\ players' = <<>> /\ lists' = <<>>
      /\ heap' = HeapRemove(heap, p)
      /\ monsters' = Abandon(monsters, Elems(lists[1])) /\ boss' = [boss EXCEPT !.controller = 0]
      /\ UNCHANGED <<playerCapacity, monsterCapacity, dead, ids, dying, spawns, corrupt>>
  BY DEF LeaveLast, Elems
<1>2. /\ players \in Seq(Player) /\ SeatsOK(players, playerCapacity) /\ NodesOK(heap, players)
      /\ heap \in Seq(Node) /\ WhoDistinct(heap) /\ Ordered(heap) /\ Len(heap) = 1
  BY <1>1 DEF IInv, SeatPart, SeatsOK, NodesOK
<1>3. \E i \in Slots(heap) : heap[i].who = p
  <2>1. \E s \in Slots(players) : players[s] = p
    BY <1>1 DEF Present
  <2>. QED  BY <2>1, <1>2 DEF NodesOK
<1>4. SeatPart'
  <2>1. Removed(HeapRemove(heap, p), heap, p)
    BY <1>2, <1>3, RemoveDoes
  <2>2. heap' \in Seq(Node) /\ Len(heap') = 0
    BY <2>1, <1>1, <1>2 DEF Removed
  <2>3. heap' = <<>>
    BY <2>2
  <2>4. Slots(<<>>) = {} /\ <<>> \in Seq(Player) /\ <<>> \in Seq(Node) /\ Len(<<>>) = 0
    BY DEF Slots
  <2>5. NodesOK(<<>>, <<>>)
    BY <2>4 DEF NodesOK, WhoDistinct, Ordered
  <2>6. SeatsOK(<<>>, playerCapacity)
    BY <2>4, <1>1, <1>2 DEF SeatsOK, Injective
  <2>. QED  BY <2>3, <2>5, <2>6, <1>1 DEF SeatPart
<1>5. Linked(monsters, lists, {1}, {}) /\ monsters \in Seq(Monster)
  <2>1. Slots(players) = {1}
    BY <1>1 DEF Slots
  <2>2. Linked(monsters, lists, {1}, {})
    BY <2>1 DEF IInv, LinkPart
  <2>. QED  BY <2>2 DEF Linked
<1>6. PICK mons : mons = monsters'
  OBVIOUS
<1>7. Abandoned(mons, monsters, Elems(lists[1]))
  BY <1>1, <1>5, <1>6, AbandonEffect
<1>8. Linked(mons, <<>>, {}, {})
  BY <1>5, <1>7, SeatsEmpty
<1>9. LinkPart'
  <2>1. Len(players') = 0 /\ Slots(players') = {} /\ Len(lists') = 0
    BY <1>1 DEF Slots
  <2>. QED  BY <2>1, <1>1, <1>6, <1>8 DEF LinkPart
<1>10. SameMonsters(monsters', monsters)
  BY <1>6, <1>7 DEF Abandoned, SameMonsters
<1>11. /\ boss' \in [oid : Ids \cup {NoOid}, alive : BOOLEAN, controller : Nat \cup {Freed}]
       /\ boss'.oid = boss.oid /\ boss'.alive = boss.alive
  BY <1>1 DEF IInv, BossPart
<1>12. BossPart'
  BY <1>1, <1>11 DEF IInv, BossPart
<1>13. IdPart' /\ SpawnerPart'
  BY <1>1, <1>10, <1>11, OthersKept DEF IInv
<1>. QED  BY <1>4, <1>9, <1>12, <1>13 DEF IInv

(* A player takes over a monster. *)
LEMMA TakeOverKeeps ==
  ASSUME NEW S, Linked(monsters, lists, S, {}), NEW p, Slot(p) \in S,
         NEW m \in Slots(monsters), monsters[m].alive
  PROVE  LET w == TakeOver(m, p)
         IN  /\ Linked(w.monsters, w.lists, S, {}) /\ Len(w.lists) = Len(lists)
             /\ SameMonsters(w.monsters, monsters)
<1>1. PICK v : v = World
  OBVIOUS
<1>2. v.monsters = monsters /\ v.lists = lists
  BY <1>1 DEF World
<1>3. CASE monsters[m].controller = Slot(p)
  <2>1. TakeOver(m, p) = v
    BY <1>1, <1>3 DEF TakeOver
  <2>2. SameMonsters(monsters, monsters)
    BY MonstersSame DEF Linked
  <2>. QED  BY <2>1, <2>2, <1>2
<1>4. CASE monsters[m].controller # Slot(p)
  <2>1. PICK u, s : u = Unlink(v, m) /\ s = Slot(p)
    OBVIOUS
  <2>2. TakeOver(m, p) = Link(u, m, s)
    BY <2>1, <1>1, <1>4 DEF TakeOver
  <2>3. /\ Linked(Unlink(v, m).monsters, Unlink(v, m).lists, S, {m})
        /\ Len(Unlink(v, m).lists) = Len(v.lists)
        /\ SameMonsters(Unlink(v, m).monsters, v.monsters)
    <3>1. Linked(v.monsters, v.lists, S, {}) /\ S # {} /\ m \in Slots(v.monsters) /\ v.monsters[m].alive
      BY <1>2
    <3>. QED  BY <3>1, UnlinkKeeps
  <2>4. /\ Linked(u.monsters, u.lists, S, {m}) /\ Len(u.lists) = Len(lists)
        /\ SameMonsters(u.monsters, monsters)
    BY <2>1, <2>3, <1>2
  <2>5. m \in Slots(u.monsters) /\ u.monsters[m].alive /\ s \in S
    BY <2>1, <2>4 DEF SameMonsters
  <2>6. /\ Linked(Link(u, m, s).monsters, Link(u, m, s).lists, S, {})
        /\ Len(Link(u, m, s).lists) = Len(u.lists)
        /\ SameMonsters(Link(u, m, s).monsters, u.monsters)
    BY <2>4, <2>5, LinkKeeps
  <2>7. SameMonsters(Link(u, m, s).monsters, monsters)
    BY <2>4, <2>6 DEF SameMonsters
  <2>. QED  BY <2>2, <2>4, <2>6, <2>7
<1>. QED  BY <1>3, <1>4

(* The id of a monster leads to it. *)
LEMMA MonsterOf ==
  ASSUME IInv, NEW oid \in DOMAIN objects, oid # boss.oid
  PROVE  objects[oid] \in Slots(monsters) /\ monsters[objects[oid]].oid = oid
BY DEF IInv, IdPart, IdsOK

(* map_damage_monster_by(): the monster survives ... *)
LEMMA HitKeeps ==
  ASSUME IInv, NEW p \in Player, NEW oid \in DOMAIN objects, Hit(p, oid)
  PROVE  IInv'
<1>1. PICK m, w : m = objects[oid] /\ w = TakeOver(m, p)
  OBVIOUS
<1>2. /\ Present(p) /\ oid # boss.oid /\ monsters[m].alive
      /\ monsters' = w.monsters /\ lists' = w.lists
      /\ UNCHANGED <<players, playerCapacity, heap, monsterCapacity, dead, ids, dying, boss,
                     spawns, corrupt>>
  BY <1>1 DEF Hit
<1>3. m \in Slots(monsters) /\ Slot(p) \in Slots(players)
  BY <1>1, <1>2, MonsterOf, SlotOf
<1>4. Linked(monsters, lists, Slots(players), {}) /\ Len(lists) = Len(players)
  BY DEF IInv, LinkPart
<1>5. /\ Linked(w.monsters, w.lists, Slots(players), {}) /\ Len(w.lists) = Len(lists)
      /\ SameMonsters(w.monsters, monsters)
  BY <1>1, <1>2, <1>3, <1>4, TakeOverKeeps
<1>6. LinkPart'
  BY <1>2, <1>4, <1>5 DEF LinkPart
<1>7. SeatPart' /\ BossPart'
  BY <1>2 DEF IInv, SeatPart, BossPart
<1>8. IdPart' /\ SpawnerPart'
  <2>1. SameMonsters(monsters', monsters)
    BY <1>2, <1>5
  <2>. QED  BY <2>1, <1>2, OthersKept DEF IInv
<1>. QED  BY <1>6, <1>7, <1>8 DEF IInv

(* The world after monster m has lost its hit points and its controller. *)
Slain(m, p) ==
  LET v == Unlink(TakeOver(m, p), m)
  IN  [v EXCEPT !.monsters = Abandon([@ EXCEPT ![m].alive = FALSE], {m})]

LEMMA SlainDoes ==
  ASSUME NEW S, Linked(monsters, lists, S, {}), NEW p, Slot(p) \in S,
         NEW m \in Slots(monsters), monsters[m].alive, NEW w, w = Slain(m, p)
  PROVE  /\ Linked(w.monsters, w.lists, S, {}) /\ Len(w.lists) = Len(lists)
         /\ w.monsters \in Seq(Monster) /\ Len(w.monsters) = Len(monsters)
         /\ Slots(w.monsters) = Slots(monsters)
         /\ \A k \in Slots(monsters) :
              /\ w.monsters[k].oid = monsters[k].oid /\ w.monsters[k].spawner = monsters[k].spawner
              /\ w.monsters[k].alive = (monsters[k].alive /\ k # m)
<1>1. PICK t, v : t = TakeOver(m, p) /\ v = Unlink(t, m)
  OBVIOUS
<1>2. Linked(t.monsters, t.lists, S, {}) /\ Len(t.lists) = Len(lists) /\ SameMonsters(t.monsters, monsters)
  BY <1>1, TakeOverKeeps
<1>3. m \in Slots(t.monsters) /\ t.monsters[m].alive /\ S # {}
  BY <1>2 DEF SameMonsters
<1>4. /\ Linked(v.monsters, v.lists, S, {m}) /\ Len(v.lists) = Len(lists)
      /\ SameMonsters(v.monsters, monsters)
  <2>1. /\ Linked(Unlink(t, m).monsters, Unlink(t, m).lists, S, {m})
        /\ Len(Unlink(t, m).lists) = Len(t.lists) /\ SameMonsters(Unlink(t, m).monsters, t.monsters)
    BY <1>2, <1>3, UnlinkKeeps
  <2>. QED  BY <2>1, <1>1, <1>2 DEF SameMonsters
<1>5. PICK m0, l0, mons : /\ m0 = v.monsters /\ l0 = v.lists
                          /\ mons = Abandon([m0 EXCEPT ![m].alive = FALSE], {m})
  OBVIOUS
<1>6. /\ Linked(m0, l0, S, {m}) /\ m \in Slots(m0) /\ Len(m0) = Len(monsters)
      /\ Slots(m0) = Slots(monsters) /\ Len(l0) = Len(lists)
      /\ \A k \in Slots(monsters) : /\ m0[k].oid = monsters[k].oid /\ m0[k].spawner = monsters[k].spawner
                                    /\ m0[k].alive = monsters[k].alive
  BY <1>4, <1>5 DEF SameMonsters
<1>7. /\ Linked(mons, l0, S, {}) /\ Len(mons) = Len(m0) /\ Slots(mons) = Slots(m0)
      /\ \A k \in Slots(m0) : /\ mons[k].oid = m0[k].oid /\ mons[k].spawner = m0[k].spawner
                              /\ mons[k].alive = (m0[k].alive /\ k # m)
  <2>1. mons = Struck(m0, m)
    BY <1>5 DEF Struck
  <2>. QED  BY <2>1, <1>6, SlainKeeps
<1>8. w.monsters = mons /\ w.lists = l0
  <2>1. \E a, b : v = [monsters |-> a, lists |-> b]
    BY <1>1 DEF Unlink
  <2>2. w = [v EXCEPT !.monsters = mons]
    BY <1>1, <1>5 DEF Slain
  <2>. QED  BY <2>1, <2>2, <1>5
<1>9. mons \in Seq(Monster)
  BY <1>7 DEF Linked
<1>. QED  BY <1>6, <1>7, <1>8, <1>9

(* ... or loses its hit points. *)
LEMMA SlayKeeps ==
  ASSUME IInv, NEW p \in Player, NEW oid \in DOMAIN objects, NEW fate \in Fates, Slay(p, oid, fate)
  PROVE  IInv'
<1>1. PICK m, w : m = objects[oid] /\ w = Slain(m, p)
  OBVIOUS
<1>2. /\ Present(p) /\ oid # boss.oid /\ monsters[m].alive
      /\ IF fate = "removed" THEN RemoveMonster(oid, w)
         ELSE /\ monsters' = w.monsters /\ lists' = w.lists
              /\ UNCHANGED <<dead, ids>>
      /\ dying' = IF fate = "dying" THEN dying \cup {oid} ELSE dying
      /\ UNCHANGED <<players, playerCapacity, heap, monsterCapacity, boss, spawns, corrupt>>
  BY <1>1 DEF Slay, Slain
<1>3. m \in Slots(monsters) /\ Slot(p) \in Slots(players)
  BY <1>1, <1>2, MonsterOf, SlotOf
<1>4. Linked(monsters, lists, Slots(players), {}) /\ Len(lists) = Len(players)
  BY DEF IInv, LinkPart
<1>5. /\ Linked(w.monsters, w.lists, Slots(players), {}) /\ Len(w.lists) = Len(lists)
      /\ w.monsters \in Seq(Monster) /\ Len(w.monsters) = Len(monsters)
      /\ Slots(w.monsters) = Slots(monsters)
      /\ \A k \in Slots(monsters) :
           /\ w.monsters[k].oid = monsters[k].oid /\ w.monsters[k].spawner = monsters[k].spawner
           /\ w.monsters[k].alive = (monsters[k].alive /\ k # m)
  BY <1>1, <1>2, <1>3, <1>4, SlainDoes
<1>6. PICK m0, l0 : m0 = w.monsters /\ l0 = w.lists
  OBVIOUS
<1>7. /\ IdsOK(m0, objects, freeStack, boss.oid) /\ SpawnersOK(m0, dead)
      /\ DyingOK(m0, objects, boss.oid, boss.alive, dying) /\ ~m0[m].alive /\ oid \notin dying
  <2>1. /\ Slots(m0) = Slots(monsters)
        /\ \A k \in Slots(monsters) :
             /\ m0[k].oid = monsters[k].oid /\ m0[k].spawner = monsters[k].spawner
             /\ m0[k].alive = (monsters[k].alive /\ k # m)
    BY <1>5, <1>6
  <2>2. IdsOK(m0, objects, freeStack, boss.oid)
    BY <2>1, IdsSame DEF IInv, IdPart
  <2>3. SpawnersOK(m0, dead)
    BY <2>1, SpawnersSame DEF IInv, SpawnerPart
  <2>4. IdsOK(monsters, objects, freeStack, boss.oid) /\ DyingOK(monsters, objects, boss.oid, boss.alive, dying)
    BY DEF IInv, IdPart
  <2>5. DyingOK(m0, objects, boss.oid, boss.alive, dying)
    BY <2>1, <2>4 DEF IdsOK, DyingOK
  <2>6. ~m0[m].alive /\ oid \notin dying
    BY <2>1, <2>4, <1>1, <1>2, <1>3 DEF DyingOK
  <2>. QED  BY <2>2, <2>3, <2>5, <2>6
<1>8. Len(monsters) <= SpawnerCount /\ monsterCapacity = SpawnerCount /\ Len(monsters) \in Nat
  <2>1. Len(monsters) \in Nat
    BY <1>4, SeqTypes DEF Linked
  <2>. QED  BY <2>1 DEF IInv, SpawnerPart
<1>9. SeatPart' /\ BossPart' /\ boss' = boss
  BY <1>2 DEF IInv, SeatPart, BossPart
<1>10. CASE fate = "removed"
  <2>1. RemoveMonster(oid, w) /\ dying' = dying
    BY <1>2, <1>10
  <2>2. /\ Linked(monsters', lists', Slots(players), {}) /\ Len(lists') = Len(w.lists)
        /\ IdsOK(monsters', objects', freeStack', boss.oid)
        /\ \A b, dy : DyingOK(w.monsters, objects, boss.oid, b, dy) =>
                      DyingOK(monsters', objects', boss.oid, b, dy \ {oid})
        /\ SpawnersOK(monsters', dead') /\ Len(monsters') = Len(w.monsters) - 1
    <3>1. Linked(w.monsters, w.lists, Slots(players), {})
      BY <1>5
    <3>2. IdsOK(w.monsters, objects, freeStack, boss.oid) /\ SpawnersOK(w.monsters, dead)
      BY <1>6, <1>7
    <3>3. ~w.monsters[objects[oid]].alive /\ RemoveMonster(oid, w) /\ oid # boss.oid
      BY <2>1, <1>1, <1>2, <1>6, <1>7
    <3>. QED  BY <3>1, <3>2, <3>3, RemoveMonsterKeeps
  <2>3. LinkPart'
    BY <2>2, <1>2, <1>4, <1>5 DEF LinkPart
  <2>4. dying \ {oid} = dying
    BY <1>7
  <2>5. DyingOK(monsters', objects', boss.oid, boss.alive, dying)
    BY <2>2, <2>4, <1>6, <1>7
  <2>6. IdPart'
    BY <2>1, <2>2, <2>5, <1>9 DEF IdPart
  <2>7. SpawnerPart'
    <3>1. Len(monsters') <= SpawnerCount
      BY <2>2, <1>5, <1>8, SpawnerAssumption
    <3>2. monsterCapacity' = SpawnerCount
      BY <1>2, <1>8
    <3>. QED  BY <3>1, <3>2, <2>2 DEF SpawnerPart
  <2>. QED  BY <2>3, <2>6, <2>7, <1>9 DEF IInv
<1>11. CASE fate # "removed"
  <2>1. monsters' = m0 /\ lists' = l0 /\ UNCHANGED <<dead, objects, freeStack>>
    BY <1>2, <1>6, <1>11 DEF ids
  <2>2. LinkPart'
    BY <2>1, <1>2, <1>4, <1>5, <1>6 DEF LinkPart
  <2>3. DyingOK(m0, objects, boss.oid, boss.alive, dying \cup {oid})
    BY <1>1, <1>2, <1>7 DEF DyingOK
  <2>4. dying' = dying \/ dying' = dying \cup {oid}
    BY <1>2
  <2>5. DyingOK(m0, objects, boss.oid, boss.alive, dying')
    BY <2>3, <2>4, <1>7
  <2>6. IdPart'
    BY <2>1, <2>5, <1>7, <1>9 DEF IdPart
  <2>7. SpawnerPart'
    BY <2>1, <1>2, <1>5, <1>6, <1>7, <1>8 DEF SpawnerPart
  <2>. QED  BY <2>2, <2>6, <2>7, <1>9 DEF IInv
<1>. QED  BY <1>10, <1>11

(* on_next_drop(): the last drop of a dead monster has fallen. *)
LEMMA LastDropKeeps ==
  ASSUME IInv, NEW oid \in dying, LastDrop(oid)
  PROVE  IInv'
<1>1. dying' = dying \ {oid} /\ UNCHANGED <<players, playerCapacity, heap, monsterCapacity, spawns, corrupt>>
  BY DEF LastDrop
<1>2. /\ IdsOK(monsters, objects, freeStack, boss.oid)
      /\ DyingOK(monsters, objects, boss.oid, boss.alive, dying)
      /\ Linked(monsters, lists, Slots(players), {}) /\ Len(lists) = Len(players)
      /\ SpawnersOK(monsters, dead) /\ Len(monsters) <= SpawnerCount /\ monsterCapacity = SpawnerCount
  BY DEF IInv, IdPart, LinkPart, SpawnerPart
<1>3. oid \in DOMAIN objects
  BY <1>2 DEF DyingOK
<1>4. SeatPart'
  BY <1>1 DEF IInv, SeatPart
<1>5. CASE oid # boss.oid
  <2>1. RemoveMonster(oid, World) /\ boss' = boss
    BY <1>5 DEF LastDrop
  <2>2. PICK w : w = World
    OBVIOUS
  <2>3. w.monsters = monsters /\ w.lists = lists
    BY <2>2 DEF World
  <2>4. ~monsters[objects[oid]].alive
    BY <1>2, <1>5 DEF DyingOK
  <2>5. /\ Linked(monsters', lists', Slots(players), {}) /\ Len(lists') = Len(w.lists)
        /\ IdsOK(monsters', objects', freeStack', boss.oid)
        /\ \A b, dy : DyingOK(w.monsters, objects, boss.oid, b, dy) =>
                      DyingOK(monsters', objects', boss.oid, b, dy \ {oid})
        /\ SpawnersOK(monsters', dead') /\ Len(monsters') = Len(w.monsters) - 1
    <3>1. Linked(w.monsters, w.lists, Slots(players), {})
      BY <2>3, <1>2
    <3>2. IdsOK(w.monsters, objects, freeStack, boss.oid) /\ SpawnersOK(w.monsters, dead)
      BY <2>3, <1>2
    <3>3. ~w.monsters[objects[oid]].alive /\ RemoveMonster(oid, w)
      BY <2>1, <2>2, <2>3, <2>4
    <3>. QED  BY <3>1, <3>2, <3>3, <1>3, <1>5, RemoveMonsterKeeps
  <2>6. LinkPart'
    BY <2>3, <2>5, <1>1, <1>2 DEF LinkPart
  <2>7. DyingOK(monsters', objects', boss.oid, boss.alive, dying \ {oid})
    BY <2>3, <2>5, <1>2
  <2>8. IdPart'
    BY <2>1, <2>5, <2>7, <1>1 DEF IdPart
  <2>9. SpawnerPart'
    <3>1. Len(monsters) \in Nat
      BY <1>2, SeqTypes DEF Linked
    <3>2. Len(monsters') <= SpawnerCount
      BY <3>1, <2>3, <2>5, <1>2, SpawnerAssumption
    <3>3. monsterCapacity' = SpawnerCount
      BY <1>1, <1>2
    <3>. QED  BY <3>2, <3>3, <2>5 DEF SpawnerPart
  <2>10. BossPart'
    BY <2>1, <1>1 DEF IInv, BossPart
  <2>. QED  BY <2>6, <2>8, <2>9, <2>10, <1>4 DEF IInv
<1>6. CASE oid = boss.oid
  <2>1. /\ RemoveBoss /\ boss' = [boss EXCEPT !.oid = NoOid] /\ UNCHANGED <<monsters, lists, dead>>
    BY <1>6 DEF LastDrop
  <2>2. boss' \in [oid : Ids \cup {NoOid}, alive : BOOLEAN, controller : Nat \cup {Freed}]
        /\ boss'.oid = NoOid
    BY <2>1 DEF IInv, BossPart
  <2>3. oid # NoOid
    <3>1. DOMAIN objects \subseteq Ids
      BY <1>2 DEF IdsOK, StackOK
    <3>. QED  BY <3>1, <1>3 DEF Ids, NoOid
  <2>4. PICK objs2 : objs2 = objects'
    OBVIOUS
  <2>5. objs2 = [o \in DOMAIN objects \ {oid} |-> objects[o]] /\ freeStack' = Append(freeStack, oid)
    BY <2>1, <2>4, <1>6 DEF RemoveBoss
  <2>6. /\ IdsOK(monsters, objs2, Append(freeStack, oid), NoOid)
        /\ \A b, b2, dy : DyingOK(monsters, objects, oid, b, dy) =>
                          DyingOK(monsters, objs2, NoOid, b2, dy \ {oid})
    <3>1. IdsOK(monsters, objects, freeStack, oid)
      BY <1>2, <1>6
    <3>. QED  BY <2>3, <2>5, <3>1, IdsBossRemoved
  <2>7. DyingOK(monsters, objs2, NoOid, boss'.alive, dying \ {oid})
    BY <2>6, <1>2, <1>6
  <2>8. IdPart'
    BY <2>1, <2>2, <2>4, <2>5, <2>6, <2>7, <1>1 DEF IdPart
  <2>9. LinkPart' /\ SpawnerPart'
    BY <2>1, <1>1, <1>2 DEF LinkPart, SpawnerPart
  <2>10. BossPart'
    BY <2>2, <1>1 DEF IInv, BossPart
  <2>. QED  BY <2>8, <2>9, <2>10, <1>4 DEF IInv
<1>. QED  BY <1>5, <1>6

(* There are ids for the monsters that are missing, and one for the boss. *)
LEMMA IdsSuffice ==
  ASSUME IInv
  PROVE  /\ Len(monsters) \in Nat /\ Len(freeStack) \in Nat /\ freeStack \in Seq(Ids)
         /\ SpawnerCount - Len(monsters) <= Len(freeStack)
         /\ boss.oid = NoOid => Len(freeStack) # 0
<1>1. IdsOK(monsters, objects, freeStack, boss.oid) /\ monsters \in Seq(Monster) /\ Len(monsters) <= SpawnerCount
  BY DEF IInv, IdPart, LinkPart, Linked, SpawnerPart
<1>2. Len(monsters) \in Nat
  BY <1>1, SeqTypes
<1>3. PICK c, d : c = Cardinality(DOMAIN objects) /\ d = Len(freeStack)
  OBVIOUS
<1>4. /\ c = Len(monsters) + (IF boss.oid = NoOid THEN 0 ELSE 1)
      /\ d \in Nat /\ c + d = SpawnerCount + 1
  BY <1>1, <1>2, <1>3, IdsCounted
<1>5. c \in Nat /\ SpawnerCount \in Nat
  BY <1>2, <1>4, SpawnerAssumption
<1>6. SpawnerCount - Len(monsters) <= d /\ (boss.oid = NoOid => d # 0)
  <2>1. CASE boss.oid = NoOid
    BY <2>1, <1>1, <1>2, <1>4, <1>5
  <2>2. CASE boss.oid # NoOid
    BY <2>2, <1>1, <1>2, <1>4, <1>5
  <2>. QED  BY <2>1, <2>2
<1>7. freeStack \in Seq(Ids)
  BY <1>1 DEF IdsOK, StackOK
<1>. QED  BY <1>2, <1>3, <1>4, <1>6, <1>7

(* While somebody is there the top of the heap has a slot. *)
LEMMA TopSlot ==
  ASSUME IInv
  PROVE  /\ heap = <<>> <=> Slots(players) = {}
         /\ heap # <<>> => heap[1].slot \in Slots(players) /\ 1 \in Slots(heap)
         /\ Slots(players) \subseteq Nat \ {0}
<1>1. /\ players \in Seq(Player) /\ heap \in Seq(Node) /\ Len(heap) = Len(players)
      /\ \A i \in Slots(heap) : heap[i].slot \in Slots(players)
  BY DEF IInv, SeatPart, SeatsOK, NodesOK
<1>2. Len(players) \in Nat /\ Slots(players) \subseteq Nat \ {0}
  BY <1>1, SeqTypes
<1>3. heap # <<>> => 1 \in Slots(heap)
  BY <1>1, <1>2 DEF Slots
<1>4. heap = <<>> <=> Slots(players) = {}
  BY <1>1, <1>2 DEF Slots
<1>. QED  BY <1>1, <1>2, <1>3, <1>4

(* map_damage_monster_by() of the boss. *)
LEMMA HitBossKeeps ==
  ASSUME IInv, NEW p \in Player, HitBoss(p)
  PROVE  IInv'
<1>1. /\ Present(p) /\ boss' = [boss EXCEPT !.controller = Slot(p)] /\ corrupt' \in BOOLEAN
      /\ UNCHANGED <<players, playerCapacity, lists, heap, monsters, monsterCapacity, dead,
                     objects, freeStack, dying, spawns>>
  BY DEF HitBoss, arrays, ids
<1>2. Slot(p) \in Nat
  <2>1. Slot(p) \in Slots(players)
    BY <1>1, SlotOf
  <2>. QED  BY <2>1, TopSlot
<1>3. /\ boss' \in [oid : Ids \cup {NoOid}, alive : BOOLEAN, controller : Nat \cup {Freed}]
      /\ boss'.oid = boss.oid /\ boss'.alive = boss.alive
  BY <1>1, <1>2 DEF IInv, BossPart
<1>4. SeatPart' /\ LinkPart' /\ SpawnerPart'
  BY <1>1 DEF IInv, SeatPart, LinkPart, SpawnerPart
<1>5. IdPart'
  BY <1>1, <1>3 DEF IInv, IdPart
<1>6. BossPart'
  BY <1>1, <1>3 DEF IInv, BossPart
<1>. QED  BY <1>4, <1>5, <1>6 DEF IInv

LEMMA SlayBossKeeps ==
  ASSUME IInv, NEW p \in Player, NEW fate \in Fates, SlayBoss(p, fate)
  PROVE  IInv'
<1>1. /\ boss.oid # NoOid /\ boss.alive
      /\ boss' = [oid |-> IF fate = "removed" THEN NoOid ELSE boss.oid, alive |-> FALSE, controller |-> 0]
      /\ IF fate = "removed" THEN RemoveBoss ELSE UNCHANGED <<objects, freeStack>>
      /\ dying' = IF fate = "dying" THEN dying \cup {boss.oid} ELSE dying
      /\ corrupt' \in BOOLEAN
      /\ UNCHANGED <<players, playerCapacity, lists, heap, monsters, monsterCapacity, dead, spawns>>
  BY DEF SlayBoss, arrays, ids
<1>2. IdsOK(monsters, objects, freeStack, boss.oid) /\ DyingOK(monsters, objects, boss.oid, boss.alive, dying)
  BY DEF IInv, IdPart
<1>3. boss.oid \in DOMAIN objects /\ boss.oid \in Ids
  BY <1>1, <1>2 DEF IdsOK
<1>4. SeatPart' /\ LinkPart' /\ SpawnerPart'
  BY <1>1 DEF IInv, SeatPart, LinkPart, SpawnerPart
<1>5. BossPart'
  BY <1>1, <1>3 DEF IInv, BossPart
<1>6. CASE fate = "removed"
  <2>1. PICK objs2, o : objs2 = objects' /\ o = boss.oid
    OBVIOUS
  <2>2. objs2 = [a \in DOMAIN objects \ {o} |-> objects[a]] /\ freeStack' = Append(freeStack, o)
    BY <2>1, <1>1, <1>6 DEF RemoveBoss
  <2>3. IdsOK(monsters, objects, freeStack, o) /\ o # NoOid
    BY <2>1, <1>1, <1>2
  <2>4. /\ IdsOK(monsters, objs2, Append(freeStack, o), NoOid)
        /\ \A b, b2, dy : DyingOK(monsters, objects, o, b, dy) =>
                          DyingOK(monsters, objs2, NoOid, b2, dy \ {o})
    BY <2>2, <2>3, IdsBossRemoved
  <2>5. dying' = dying /\ dying \ {o} = dying
    BY <2>1, <1>1, <1>2, <1>6 DEF DyingOK
  <2>6. DyingOK(monsters, objs2, NoOid, boss'.alive, dying)
    BY <2>1, <2>4, <2>5, <1>2
  <2>7. boss'.oid = NoOid /\ monsters' = monsters
    BY <1>1, <1>6
  <2>8. IdPart'
    BY <2>1, <2>2, <2>4, <2>5, <2>6, <2>7 DEF IdPart
  <2>. QED  BY <2>8, <1>4, <1>5 DEF IInv
<1>7. CASE fate # "removed"
  <2>1. /\ boss'.oid = boss.oid /\ boss'.alive = FALSE
        /\ UNCHANGED <<objects, freeStack, monsters>>
    BY <1>1, <1>7
  <2>2. dying' = dying \/ dying' = dying \cup {boss.oid}
    BY <1>1
  <2>3. DyingOK(monsters, objects, boss.oid, FALSE, dying')
    BY <2>2, <1>2, <1>3 DEF DyingOK
  <2>4. IdPart'
    BY <2>1, <2>3, <1>2 DEF IdPart
  <2>. QED  BY <2>4, <1>4, <1>5 DEF IInv
<1>. QED  BY <1>6, <1>7

(* map_spawn() *)
LEMMA SpawnKeeps ==
  ASSUME IInv, NEW p \in Player, Spawn(p),
         Len(monsters) < monsterCapacity \/ UNCHANGED <<monsters, lists, ids, monsterCapacity>>
  PROVE  IInv'
<1>0. IInv => monsterCapacity = SpawnerCount /\ Len(monsters) \in Nat /\ SpawnerCount \in Nat
  BY IdsSuffice, SpawnerAssumption DEF IInv, SpawnerPart
<1>1. /\ Present(p) /\ spawns < MaxSpawns /\ spawns' = spawns + 1
      /\ UNCHANGED <<players, playerCapacity, heap, monsterCapacity, dead, dying, boss>>
  BY <1>0 DEF Spawn
<1>2. SeatPart'
  BY <1>1 DEF IInv, SeatPart
<1>3. BossPart'
  <2>1. corrupt' \in BOOLEAN
    BY DEF Spawn, IInv, BossPart
  <2>2. spawns' \in 0..MaxSpawns
    BY <1>1, BoundsAssumption DEF IInv, BossPart
  <2>. QED  BY <2>1, <2>2, <1>1 DEF IInv, BossPart
<1>4. CASE UNCHANGED <<monsters, lists, ids, monsterCapacity>>
  <2>1. UNCHANGED <<monsters, lists, objects, freeStack>>
    BY <1>4 DEF ids
  <2>2. LinkPart' /\ IdPart' /\ SpawnerPart'
    BY <2>1, <1>1 DEF IInv, LinkPart, IdPart, SpawnerPart
  <2>. QED  BY <2>2, <1>2, <1>3 DEF IInv
<1>5. CASE Len(monsters) < monsterCapacity /\ Spawned(<<0>>, heap[1].slot, lists)
  <2>1. PICK q, s, S : q = <<0>> /\ s = heap[1].slot /\ S = Slots(players)
    OBVIOUS
  <2>2. q \in Seq(0..SpawnerCount) /\ Len(q) = 1 /\ q[1] = 0 /\ Slots(q) = {1}
    BY <2>1, SpawnerAssumption DEF Slots
  <2>3. monsterCapacity = SpawnerCount /\ Len(monsters) \in Nat /\ freeStack \in Seq(Ids) /\ 1 <= Len(freeStack)
    BY <1>5, IdsSuffice, SpawnerAssumption DEF IInv, SpawnerPart
  <2>4. s \in S /\ S # {}
    BY <2>1, <1>1, TopSlot DEF Present
  <2>5. /\ Linked(monsters, lists, S, {}) /\ Len(lists) = Len(players) /\ monsters \in Seq(Monster)
        /\ IdsOK(monsters, objects, freeStack, boss.oid)
        /\ DyingOK(monsters, objects, boss.oid, boss.alive, dying) /\ SpawnersOK(monsters, dead)
    BY <2>1 DEF IInv, LinkPart, IdPart, SpawnerPart, Linked
  <2>6. Spawned(q, s, lists) /\ Len(q) <= Len(freeStack)
    BY <2>1, <2>2, <2>3, <1>5
  <2>7. /\ Linked(monsters', lists', S, {}) /\ Len(lists') = Len(lists)
        /\ SameMonsters(monsters', Added(q))
    BY <2>2, <2>3, <2>4, <2>5, <2>6, SpawnedLinked
  <2>8. PICK mons : mons = monsters'
    OBVIOUS
  <2>9. /\ IdsOK(mons, objects', freeStack', boss.oid)
        /\ DyingOK(mons, objects', boss.oid, boss.alive, dying)
    BY <2>2, <2>5, <2>6, <2>7, <2>8, SpawnedIds
  <2>10. /\ Added(q) \in Seq(Monster) /\ Len(Added(q)) = Len(monsters) + 1
         /\ \A k \in Slots(monsters) : Added(q)[k] = monsters[k]
         /\ \A x \in Slots(q) : Added(q)[Len(monsters) + x] = Fresh(q[x], Taken(freeStack, x))
    BY <2>2, <2>3, <2>5, <2>6, AddedMonsters
  <2>11. /\ Len(mons) = Len(monsters) + 1 /\ \A k \in Slots(monsters) : mons[k].spawner = monsters[k].spawner
         /\ mons[Len(monsters) + 1].spawner = 0
    <3>1. \A k \in Slots(Added(q)) : mons[k].spawner = Added(q)[k].spawner
      BY <2>7, <2>8 DEF SameMonsters
    <3>2. Len(monsters) + 1 \in Slots(Added(q)) /\ Slots(monsters) \subseteq Slots(Added(q))
      BY <2>3, <2>10 DEF Slots
    <3>3. Added(q)[Len(monsters) + 1].spawner = 0
      BY <2>2, <2>10, FreshFields
    <3>4. Len(mons) = Len(monsters) + 1
      BY <2>7, <2>8, <2>10 DEF SameMonsters
    <3>. QED  BY <2>10, <3>1, <3>2, <3>3, <3>4
  <2>12. SpawnersOK(mons, dead)
    <3>1. /\ Slots(monsters) \subseteq Slots(mons)
          /\ \A k \in Slots(mons) \ Slots(monsters) : k = Len(monsters) + 1
      BY <2>3, <2>11 DEF Slots
    <3>2. \A k \in Slots(mons) \ Slots(monsters) : mons[k].spawner = 0
      BY <2>11, <3>1
    <3>. QED  BY <2>5, <2>11, <3>1, <3>2, SpawnersSpawnNone
  <2>13. LinkPart' /\ IdPart' /\ SpawnerPart'
    <3>1. LinkPart'
      BY <2>1, <2>5, <2>7, <1>1 DEF LinkPart
    <3>2. IdPart'
      BY <2>8, <2>9, <1>1 DEF IdPart
    <3>3. Len(mons) <= SpawnerCount
      BY <2>3, <2>11, <1>5, SpawnerAssumption
    <3>4. SpawnerPart'
      BY <2>3, <2>8, <2>12, <3>3, <1>1 DEF SpawnerPart
    <3>. QED  BY <3>1, <3>2, <3>4
  <2>. QED  BY <2>13, <1>2, <1>3 DEF IInv
<1>6. CASE Len(monsters) < monsterCapacity
  BY <1>0, <1>5, <1>6 DEF Spawn
<1>. QED  BY <1>4, <1>6

(* on_respawn() fills the map up to no more monsters than it has spawners. *)
LEMMA SpawnLimit ==
  ASSUME players \in Seq(Player)
  PROVE  MaxSpawnCount \in Nat /\ MaxSpawnCount <= SpawnerCount
<1>1. Len(players) \in Nat /\ SpawnerCount \in Nat
  BY SeqTypes, SpawnerAssumption
<1>2. PICK n : n = IF Len(players) < 6 THEN Len(players) ELSE 6
  OBVIOUS
<1>3. n \in 0..6
  <2>1. PICK k : k = Len(players)
    OBVIOUS
  <2>2. k \in Nat /\ n = IF k < 6 THEN k ELSE 6
    BY <2>1, <1>1, <1>2
  <2>. QED  BY <2>2
<1>4. MaxSpawnCount = ((70 + 5 * n) * SpawnerCount + 99) \div 100
  BY <1>2 DEF MaxSpawnCount
<1>5. PICK c : c = (70 + 5 * n) * SpawnerCount + 99
  OBVIOUS
<1>6. c \in Nat /\ c <= 100 * SpawnerCount + 99
  <2>1. n = 0 \/ n = 1 \/ n = 2 \/ n = 3 \/ n = 4 \/ n = 5 \/ n = 6
    BY <1>3
  <2>2. \/ c = 70 * SpawnerCount + 99 \/ c = 75 * SpawnerCount + 99 \/ c = 80 * SpawnerCount + 99
        \/ c = 85 * SpawnerCount + 99 \/ c = 90 * SpawnerCount + 99 \/ c = 95 * SpawnerCount + 99
        \/ c = 100 * SpawnerCount + 99
    BY <2>1, <1>5
  <2>. QED  BY <2>2, <1>1
<1>7. c \div 100 \in Nat /\ c \div 100 <= SpawnerCount
  BY <1>1, <1>6
<1>. QED  BY <1>4, <1>5, <1>7

(* The monsters that spawners q made, as the spawners see it. *)
LEMMA AddedSpawners ==
  ASSUME monsters \in Seq(Monster), freeStack \in Seq(Ids), NEW q \in Seq(0..SpawnerCount),
         Len(q) <= Len(freeStack), NEW mons, SameMonsters(mons, Added(q)),
         NEW n \in Nat, n = Len(monsters), NEW c \in Nat, c = Len(q)
  PROVE  Len(mons) = n + c /\ Refilled(mons, monsters, q, n, c)
<1>1. /\ Added(q) \in Seq(Monster) /\ Len(Added(q)) = n + c
      /\ \A k \in 1..n : Added(q)[k] = monsters[k]
      /\ \A x \in 1..c : Added(q)[n + x] = Fresh(q[x], Taken(freeStack, x))
  BY AddedMonsters DEF Slots
<1>2. /\ Len(mons) = Len(Added(q)) /\ Slots(Added(q)) = 1..(n + c)
      /\ \A k \in 1..(n + c) : mons[k].spawner = Added(q)[k].spawner
  BY <1>1 DEF SameMonsters, Slots
<1>3. \A k \in 1..n : k \in 1..(n + c)
  OBVIOUS
<1>4. \A x \in 1..c : n + x \in 1..(n + c)
  OBVIOUS
<1>5. \A k \in 1..n : mons[k].spawner = monsters[k].spawner
  BY <1>1, <1>2, <1>3
<1>6. \A x \in 1..c : mons[n + x].spawner = q[x]
  <2>1. \A x \in 1..c : mons[n + x].spawner = Added(q)[n + x].spawner
    BY <1>2, <1>4
  <2>2. \A x \in 1..c : Added(q)[n + x].spawner = q[x]
    BY <1>1, FreshFields
  <2>. QED  BY <2>1, <2>2
<1>. QED  BY <1>1, <1>2, <1>5, <1>6 DEF Slots, Refilled

(* on_respawn() *)
LEMMA RespawnKeeps ==
  ASSUME IInv, Respawn
  PROVE  IInv'
<1>1. PICK c : c = MaxSpawnCount - Len(monsters)
  OBVIOUS
<1>2. PICK q \in [1..c -> 1..SpawnerCount] :
        /\ \A s \in 1..SpawnerCount : Cardinality({i \in 1..c : q[i] = s}) <= dead[s]
        /\ Spawned(q, IF heap = <<>> THEN 0 ELSE heap[1].slot, lists)
        /\ dead' = [s \in 1..SpawnerCount |-> dead[s] - Cardinality({i \in 1..c : q[i] = s})]
  BY <1>1 DEF Respawn
<1>3. /\ c > 0
      /\ IF heap = <<>> THEN heap' = heap
         ELSE heap[1].count + c <= MaxControllees /\ heap' = HeapInc(heap, c)
      /\ UNCHANGED <<players, playerCapacity, monsterCapacity, dying, boss, spawns, corrupt>>
  BY <1>1 DEF Respawn
<1>4. PICK s, S, n : /\ s = IF heap = <<>> THEN 0 ELSE heap[1].slot
                     /\ S = Slots(players) /\ n = Len(monsters)
  OBVIOUS
<1>5. IF S = {} THEN s = 0 ELSE s \in S
  BY <1>4, TopSlot
<1>6. n \in Nat /\ c \in Nat /\ freeStack \in Seq(Ids) /\ c <= Len(freeStack) /\ n + c <= SpawnerCount
  <2>1. MaxSpawnCount \in Nat /\ MaxSpawnCount <= SpawnerCount
    BY SpawnLimit DEF IInv, SeatPart, SeatsOK
  <2>2. PICK f : f = Len(freeStack)
    OBVIOUS
  <2>3. n \in Nat /\ f \in Nat /\ freeStack \in Seq(Ids) /\ SpawnerCount - n <= f
    BY <2>2, <1>4, IdsSuffice
  <2>4. c = MaxSpawnCount - n
    BY <1>1, <1>4
  <2>5. c \in Nat /\ c <= f /\ n + c <= SpawnerCount
    BY <2>1, <2>3, <2>4, <1>3, SpawnerAssumption
  <2>. QED  BY <2>2, <2>3, <2>5
<1>7. q \in Seq(0..SpawnerCount) /\ Len(q) = c /\ Slots(q) = 1..c
  <2>1. q \in [1..c -> 0..SpawnerCount]
    OBVIOUS
  <2>. QED  BY <2>1, <1>6, FunctionIsSeq DEF Slots
<1>8. /\ Linked(monsters, lists, S, {}) /\ Len(lists) = Len(players) /\ monsters \in Seq(Monster)
      /\ IdsOK(monsters, objects, freeStack, boss.oid)
      /\ DyingOK(monsters, objects, boss.oid, boss.alive, dying) /\ SpawnersOK(monsters, dead)
      /\ monsterCapacity = SpawnerCount
  BY <1>4 DEF IInv, LinkPart, IdPart, SpawnerPart, Linked
<1>9. Spawned(q, s, lists) /\ Len(q) <= Len(freeStack)
  BY <1>2, <1>4, <1>6, <1>7
<1>10. /\ Linked(monsters', lists', S, {}) /\ Len(lists') = Len(lists)
       /\ SameMonsters(monsters', Added(q))
  BY <1>5, <1>6, <1>7, <1>8, <1>9, SpawnedLinked
<1>11. PICK mons, d2 : mons = monsters' /\ d2 = dead'
  OBVIOUS
<1>12. /\ IdsOK(mons, objects', freeStack', boss.oid)
       /\ DyingOK(mons, objects', boss.oid, boss.alive, dying)
  BY <1>7, <1>8, <1>9, <1>10, <1>11, SpawnedIds
<1>13. Len(mons) = n + c /\ Refilled(mons, monsters, q, n, c)
  BY <1>4, <1>6, <1>7, <1>8, <1>9, <1>10, <1>11, AddedSpawners
<1>14. SpawnersOK(mons, d2)
  <2>1. Slots(monsters) = 1..n
    BY <1>4 DEF Slots
  <2>2. Drawn(d2, dead, q, c)
    BY <1>2, <1>11 DEF Drawn
  <2>. QED  BY <2>1, <2>2, <1>6, <1>8, <1>13, SpawnersRespawn
<1>15. LinkPart' /\ IdPart' /\ SpawnerPart'
  <2>1. LinkPart'
    BY <1>3, <1>4, <1>8, <1>10 DEF LinkPart
  <2>2. IdPart'
    BY <1>3, <1>11, <1>12 DEF IdPart
  <2>3. monsterCapacity' = SpawnerCount /\ Len(mons) <= SpawnerCount
    BY <1>3, <1>6, <1>8, <1>13
  <2>4. SpawnerPart'
    BY <2>3, <1>11, <1>14 DEF SpawnerPart
  <2>. QED  BY <2>1, <2>2, <2>4
<1>16. SeatPart'
  <2>1. /\ SeatsOK(players, playerCapacity) /\ NodesOK(heap, players)
        /\ heap \in Seq(Node) /\ WhoDistinct(heap) /\ Ordered(heap)
    BY DEF IInv, SeatPart, NodesOK
  <2>2. CASE heap = <<>>
    BY <2>1, <2>2, <1>3 DEF SeatPart
  <2>3. CASE heap # <<>>
    <3>1. heap[1].count + c <= MaxControllees /\ heap' = HeapInc(heap, c)
      BY <2>3, <1>3
    <3>2. PICK g : g = HeapInc(heap, c)
      OBVIOUS
    <3>3. Increased(g, heap, c)
      BY <2>1, <2>3, <3>1, <3>2, <1>6, IncDoes
    <3>4. NodesOK(g, players)
      BY <2>1, <3>3, <1>6, NodesInc
    <3>. QED  BY <2>1, <3>1, <3>2, <3>4, <1>3 DEF SeatPart
  <2>. QED  BY <2>2, <2>3
<1>17. BossPart'
  BY <1>3 DEF IInv, BossPart
<1>. QED  BY <1>15, <1>16, <1>17 DEF IInv

(* respawn_boss() *)
LEMMA RespawnBossKeeps ==
  ASSUME IInv, RespawnBoss
  PROVE  IInv'
<1>1. PICK o, objs2, free2 : o = NewOid(1) /\ objs2 = objects' /\ free2 = freeStack'
  OBVIOUS
<1>2. /\ boss.oid = NoOid
      /\ boss' = [oid |-> o, alive |-> TRUE, controller |-> IF heap = <<>> THEN 0 ELSE heap[1].slot]
      /\ objs2 = [a \in DOMAIN objects \cup {o} |-> IF a \in DOMAIN objects THEN objects[a] ELSE 0]
      /\ free2 = StackAfter(1)
      /\ UNCHANGED <<players, playerCapacity, lists, heap, monsters, monsterCapacity,
                     dead, dying, spawns, corrupt>>
  BY <1>1 DEF RespawnBoss, arrays
<1>3. freeStack \in Seq(Ids) /\ Len(freeStack) \in Nat /\ Len(freeStack) # 0
  BY <1>2, IdsSuffice
<1>4. o = Taken(freeStack, 1) /\ o \in Ids /\ Popped(free2, freeStack, 1)
  <2>1. PICK c : c = 1
    OBVIOUS
  <2>2. c \in 0..Len(freeStack) /\ 1 \in 1..c
    BY <2>1, <1>3
  <2>3. /\ \A x \in 1..c : NewOid(x) = Taken(freeStack, x) /\ NewOid(x) \in Ids
        /\ Popped(StackAfter(c), freeStack, c)
    BY <2>2, <1>3, StackEnough
  <2>. QED  BY <2>1, <2>2, <2>3, <1>1, <1>2
<1>5. IdsOK(monsters, objects, freeStack, NoOid) /\ DyingOK(monsters, objects, NoOid, boss.alive, dying)
  BY <1>2 DEF IInv, IdPart
<1>6. o \notin DOMAIN objects
  <2>1. StackOK(DOMAIN objects, freeStack)
    BY <1>5 DEF IdsOK
  <2>2. Len(freeStack) \in Slots(freeStack) /\ o = freeStack[Len(freeStack)]
    BY <1>3, <1>4 DEF Slots, Taken
  <2>. QED  BY <2>1, <2>2, <1>4 DEF StackOK
<1>7. /\ DOMAIN objs2 = DOMAIN objects \cup {o} /\ \A a \in DOMAIN objects : objs2[a] = objects[a]
      /\ objs2[o] = 0
  BY <1>2, <1>6
<1>8. /\ IdsOK(monsters, objs2, free2, o)
      /\ \A b, b2, dy : DyingOK(monsters, objects, NoOid, b, dy) => DyingOK(monsters, objs2, o, b2, dy)
  BY <1>3, <1>4, <1>5, <1>7, IdsBossMade
<1>9. IdPart'
  <2>1. boss'.oid = o
    BY <1>2
  <2>2. DyingOK(monsters, objs2, o, boss'.alive, dying)
    BY <1>5, <1>8
  <2>. QED  BY <2>1, <2>2, <1>1, <1>2, <1>8 DEF IdPart
<1>10. SeatPart' /\ LinkPart' /\ SpawnerPart'
  BY <1>2 DEF IInv, SeatPart, LinkPart, SpawnerPart
<1>11. BossPart'
  <2>1. PICK c : c = IF heap = <<>> THEN 0 ELSE heap[1].slot
    OBVIOUS
  <2>2. c \in Nat
    BY <2>1, TopSlot
  <2>3. boss' = [oid |-> o, alive |-> TRUE, controller |-> c]
    BY <2>1, <1>2
  <2>. QED  BY <2>2, <2>3, <1>2, <1>4 DEF IInv, BossPart
<1>. QED  BY <1>9, <1>10, <1>11 DEF IInv

(* Every step of the map keeps the invariant. *)
-----------------------------------------------------------------------------
(* What the invariant says of the properties of the map. *)

LEMMA TypesFollow ==
  ASSUME IInv
  PROVE  TypeOK
<1>1. /\ players \in Seq(Player) /\ playerCapacity \in Nat /\ Len(players) <= playerCapacity
      /\ heap \in Seq([who : Player, count : 0..(MaxControllees + SpawnerCount + MaxSpawns), slot : Nat])
  BY DEF IInv, SeatPart, SeatsOK, NodesOK, Node
<1>2. /\ lists \in Seq(Seq(Nat)) /\ Len(lists) = Len(players)
      /\ monsters \in Seq([oid : Oids, spawner : 0..SpawnerCount, alive : BOOLEAN,
                           controller : Nat, index : Nat])
  BY DEF IInv, LinkPart, Linked, Monster
<1>3. monsterCapacity \in Nat /\ dead \in [1..SpawnerCount -> Nat]
  BY SpawnerAssumption DEF IInv, SpawnerPart, SpawnersOK
<1>4. Ids \subseteq Oids
  BY SpawnerAssumption, BoundsAssumption DEF Ids, Oids
<1>5. IdsOK(monsters, objects, freeStack, boss.oid) /\ DyingOK(monsters, objects, boss.oid, boss.alive, dying)
  BY DEF IInv, IdPart
<1>6. DOMAIN objects \subseteq Oids /\ dying \subseteq Oids
  BY <1>4, <1>5 DEF IdsOK, StackOK, DyingOK
<1>7. \A o \in DOMAIN objects : objects[o] \in Nat
  <2>1. \A k \in Slots(monsters) : k \in Nat
    BY DEF Slots
  <2>2. \A o \in DOMAIN objects : o # boss.oid => objects[o] \in Slots(monsters)
    BY <1>5 DEF IdsOK
  <2>3. boss.oid \in DOMAIN objects => objects[boss.oid] = 0
    BY <1>5 DEF IdsOK, StackOK, Ids, NoOid
  <2>. QED  BY <2>1, <2>2, <2>3
<1>8. freeStack \in Seq(Oids)
  <2>1. freeStack \in Seq(Ids)
    BY <1>5 DEF IdsOK, StackOK
  <2>2. Len(freeStack) \in Nat /\ \A i \in 1..Len(freeStack) : freeStack[i] \in Ids
    BY <2>1, SeqTypes DEF Slots
  <2>. QED  BY <2>1, <2>2, <1>4
<1>9. /\ boss \in [oid : Oids \cup {NoOid}, alive : BOOLEAN, controller : Nat \cup {Freed}]
      /\ spawns \in 0..MaxSpawns /\ corrupt \in BOOLEAN
  BY <1>4 DEF IInv, BossPart
<1>. QED  BY <1>1, <1>2, <1>3, <1>6, <1>7, <1>8, <1>9 DEF TypeOK

LEMMA ControllersFollow ==
  ASSUME IInv
  PROVE  ControllersMatch
<1>1. PICK S : S = Slots(players)
  OBVIOUS
<1>2. Linked(monsters, lists, S, {}) /\ Slots(lists) = S /\ lists \in Seq(Seq(Nat))
  BY <1>1, SlotsSame DEF IInv, LinkPart, Linked
<1>3. ASSUME NEW s \in Slots(lists), NEW i \in Slots(lists[s])
      PROVE  /\ lists[s][i] \in Slots(monsters)
             /\ monsters[lists[s][i]].alive /\ monsters[lists[s][i]].controller = s
             /\ monsters[lists[s][i]].index = i
  <2>1. Names(monsters, lists[s][i], s, i)
    BY <1>2, ListedMonster
  <2>. QED  BY <2>1 DEF Names
<1>4. players # <<>> <=> S # {}
  BY <1>1, TopSlot DEF IInv, SeatPart, SeatsOK, Slots
<1>5. ASSUME NEW m \in Slots(monsters), monsters[m].alive, players # <<>>
      PROVE  /\ monsters[m].controller \in Slots(players)
             /\ monsters[m].index \in Slots(lists[monsters[m].controller])
             /\ lists[monsters[m].controller][monsters[m].index] = m
  <2>1. monsters[m].controller \in S /\ Lists(lists, monsters[m].controller, monsters[m].index, m)
    BY <1>2, <1>4, <1>5, MonsterListed
  <2>. QED  BY <2>1, <1>1 DEF Lists
<1>6. ASSUME NEW m \in Slots(monsters), ~(monsters[m].alive /\ players # <<>>)
      PROVE  monsters[m].controller = 0
  BY <1>2, <1>4, <1>6 DEF Linked
<1>7. /\ Len(heap) = Len(players)
      /\ \A i \in Slots(heap) : heap[i].slot \in Slots(players) /\ players[heap[i].slot] = heap[i].who
      /\ \A i, j \in Slots(heap) : heap[i].who = heap[j].who => i = j
  BY DEF IInv, SeatPart, NodesOK, WhoDistinct
<1>. QED  BY <1>3, <1>5, <1>6, <1>7 DEF ControllersMatch

LEMMA ObjectsFollow ==
  ASSUME IInv
  PROVE  ObjectsLead
<1>1. IdsOK(monsters, objects, freeStack, boss.oid) /\ DyingOK(monsters, objects, boss.oid, boss.alive, dying)
  BY DEF IInv, IdPart
<1>2. Len(monsters) \in Nat
  BY IdsSuffice
<1>3. PICK c, d : c = Cardinality(DOMAIN objects) /\ d = Len(freeStack)
  OBVIOUS
<1>4. /\ c = Len(monsters) + (IF boss.oid = NoOid THEN 0 ELSE 1)
      /\ d \in Nat /\ c + d = SpawnerCount + 1 /\ DOMAIN objects \cup Elems(freeStack) = Ids
  BY <1>1, <1>2, <1>3, IdsCounted
<1>5. c + d - 1 = SpawnerCount
  BY <1>2, <1>4, SpawnerAssumption
<1>6. DOMAIN objects \cup {freeStack[i] : i \in Slots(freeStack)} = 0..(c + d - 1)
  BY <1>4, <1>5 DEF Elems, Ids
<1>7. \A m \in Slots(monsters) : monsters[m].oid \in DOMAIN objects /\ objects[monsters[m].oid] = m
  BY <1>1 DEF IdsOK
<1>8. \A o \in dying : /\ o \in DOMAIN objects
                       /\ IF o = boss.oid THEN ~boss.alive ELSE ~monsters[objects[o]].alive
  BY <1>1 DEF DyingOK
<1>. QED  BY <1>3, <1>4, <1>6, <1>7, <1>8 DEF ObjectsLead

LEMMA SpawnersFollow ==
  ASSUME IInv
  PROVE  SpawnersAccounted
<1>1. ASSUME NEW s \in 1..SpawnerCount
      PROVE  dead[s] + Cardinality({m \in Slots(monsters) : monsters[m].spawner = s}) = 1
  <2>. DEFINE M == {m \in Slots(monsters) : monsters[m].spawner = s}
  <2>1. (dead[s] = 1 /\ NoneOf(monsters, s)) \/ (dead[s] = 0 /\ \E m : OnlyOf(monsters, s, m))
    BY DEF IInv, SpawnerPart, SpawnersOK
  <2>2. CASE dead[s] = 1 /\ NoneOf(monsters, s)
    <3>1. M = {}
      BY <2>2 DEF NoneOf
    <3>2. Cardinality(M) = 0
      BY <3>1, FS_EmptySet
    <3>. QED  BY <2>2, <3>2
  <2>3. CASE dead[s] = 0 /\ \E m : OnlyOf(monsters, s, m)
    <3>1. PICK m : OnlyOf(monsters, s, m)
      BY <2>3
    <3>2. M = {m}
      BY <3>1 DEF OnlyOf
    <3>3. Cardinality(M) = 1
      BY <3>2, FS_Singleton
    <3>. QED  BY <2>3, <3>3
  <2>. QED  BY <2>1, <2>2, <2>3
<1>2. Len(monsters) <= monsterCapacity /\ MaxSpawnCount <= monsterCapacity
  BY SpawnLimit DEF IInv, SpawnerPart, SeatPart, SeatsOK
<1>. QED  BY <1>1, <1>2 DEF SpawnersAccounted

-----------------------------------------------------------------------------
(***************************************************************************)
(* map_spawn() with a full array.  The lists of the players go astray; the *)
(* types, the object list and the spawners stay right.                     *)
(***************************************************************************)

(* The pointers have been sent astray, and nothing else. *)
Enlarged == corrupt /\ TypeOK /\ ObjectsLead /\ SpawnersAccounted

LEMMA MisledLists ==
  ASSUME monsters \in Seq(Monster), lists \in Seq(Seq(Nat))
  PROVE  Misled \in Seq(Seq(Nat)) /\ Len(Misled) = Len(lists)
<1>. DEFINE led(s) == [i \in Slots(lists[s]) |->
              IF \E m \in Slots(monsters) : monsters[m].controller = s /\ monsters[m].index = i
              THEN Len(monsters) + 1 ELSE lists[s][i]]
<1>1. Len(monsters) \in Nat /\ Len(lists) \in Nat /\ \A s \in Slots(lists) : lists[s] \in Seq(Nat)
  BY SeqTypes
<1>2. ASSUME NEW s \in 1..Len(lists) PROVE led(s) \in Seq(Nat)
  <2>1. PICK l : l = lists[s]
    OBVIOUS
  <2>2. l \in Seq(Nat) /\ Len(l) \in Nat /\ \A i \in Slots(l) : l[i] \in Nat
    BY <1>1, <2>1, SeqTypes DEF Slots
  <2>3. led(s) \in [1..Len(l) -> Nat]
    BY <1>1, <2>1, <2>2 DEF Slots
  <2>. HIDE DEF led
  <2>. QED  BY <2>2, <2>3, FunctionIsSeq
<1>3. Misled = [s \in 1..Len(lists) |-> led(s)]
  BY DEF Misled, Slots
<1>4. Misled \in [1..Len(lists) -> Seq(Nat)]
  <2>. HIDE DEF led
  <2>. QED  BY <1>2, <1>3
<1>. QED  BY <1>1, <1>4, FunctionIsSeq

LEMMA OneAdded ==
  ASSUME NEW S, NEW a \in Seq(S), NEW q \in Seq(S), Len(q) = 1
  PROVE  /\ a \o q \in Seq(S) /\ Len(a \o q) = Len(a) + 1 /\ (a \o q)[Len(a) + 1] = q[1]
         /\ \A k \in 1..Len(a) : (a \o q)[k] = a[k]
<1>1. Len(a) \in Nat
  BY SeqTypes
<1>2. /\ a \o q \in Seq(S) /\ Len(a \o q) = Len(a) + Len(q)
      /\ \A i \in 1..(Len(a) + Len(q)) :
           (a \o q)[i] = IF i <= Len(a) THEN a[i] ELSE q[i - Len(a)]
  BY ConcatProperties
<1>3. PICK n, r : n = Len(a) /\ r = a \o q
  OBVIOUS
<1>4. n \in Nat /\ \A i \in 1..(n + 1) : r[i] = IF i <= n THEN a[i] ELSE q[i - n]
  BY <1>1, <1>2, <1>3
<1>5. r[n + 1] = q[1] /\ \A k \in 1..n : r[k] = a[k]
  BY <1>4
<1>. QED  BY <1>2, <1>3, <1>5

(* One monster is made with the new id o, whatever the lists are. *)
LEMMA OneSpawned ==
  ASSUME monsters \in Seq(Monster), NEW led \in Seq(Seq(Nat)), NEW s \in Slots(led),
         Spawned(<< 0 >>, s, led), NewOid(1) \in Oids \ DOMAIN objects,
         NEW n, n = Len(monsters), NEW o, o = NewOid(1)
  PROVE  /\ lists' \in Seq(Seq(Nat)) /\ Len(lists') = Len(led)
         /\ monsters' \in Seq(Monster) /\ Len(monsters') = n + 1
         /\ \A k \in 1..n : monsters'[k] = monsters[k]
         /\ monsters'[n + 1].oid = o /\ monsters'[n + 1].spawner = 0
         /\ DOMAIN objects' = DOMAIN objects \cup {o}
         /\ \A a \in DOMAIN objects : objects'[a] = objects[a]
         /\ objects'[o] = n + 1 /\ freeStack' = StackAfter(1)
<1>1. n \in Nat /\ \A k \in 1..n : monsters[k] \in Monster
  BY SeqTypes DEF Slots
<1>2. s \in Nat \ {0} /\ Len(led[s]) \in Nat /\ led[s] \in Seq(Nat) /\ Len(led) \in Nat
  <2>1. s \in Nat \ {0} /\ led[s] \in Seq(Nat) /\ Len(led) \in Nat
    BY SeqTypes
  <2>. QED  BY <2>1, SeqTypes
<1>3. Slots(<<0>>) = {1} /\ Len(<<0>>) = 1 /\ <<0>>[1] = 0
  BY DEF Slots
<1>. DEFINE new == [i \in {1} |-> Fresh(0, o)]
            ms == [i \in {1} |-> n + i]
            grown == monsters \o new
            w == [monsters |-> grown, lists |-> led]
<1>4. Fresh(0, o) \in Monster
  BY SpawnerAssumption DEF Fresh, Monster
<1>5. new \in Seq(Monster) /\ Len(new) = 1 /\ new[1] = Fresh(0, o)
  <2>1. new \in [1..1 -> Monster]
    BY <1>4
  <2>2. new[1] = Fresh(0, o)
    OBVIOUS
  <2>. HIDE DEF new
  <2>. QED  BY <2>1, <2>2, FunctionIsSeq
<1>6. ms \in Seq(Nat) /\ Len(ms) = 1 /\ ms[1] = n + 1
  <2>1. ms \in [1..1 -> Nat] /\ ms[1] = n + 1
    BY <1>1
  <2>. HIDE DEF ms
  <2>. QED  BY <2>1, FunctionIsSeq
<1>7. /\ grown \in Seq(Monster) /\ Len(grown) = n + 1
      /\ \A k \in 1..n : grown[k] = monsters[k]
      /\ grown[n + 1] = Fresh(0, o)
  <2>1. PICK q, r, a : q = new /\ r = grown /\ a = monsters
    OBVIOUS
  <2>2. /\ q \in Seq(Monster) /\ Len(q) = 1 /\ q[1] = Fresh(0, o) /\ r = a \o q
        /\ a \in Seq(Monster) /\ Len(a) = n
    BY <2>1, <1>5
  <2>. HIDE DEF new, ms, grown, w
  <2>3. /\ r \in Seq(Monster) /\ Len(r) = n + 1 /\ r[n + 1] = Fresh(0, o)
        /\ \A k \in 1..n : r[k] = a[k]
    <3>1. /\ a \o q \in Seq(Monster) /\ Len(a \o q) = Len(a) + 1 /\ (a \o q)[Len(a) + 1] = q[1]
          /\ \A k \in 1..Len(a) : (a \o q)[k] = a[k]
      BY <2>2, OneAdded
    <3>. QED  BY <3>1, <2>2
  <2>. QED  BY <2>1, <2>3
<1>8. /\ [i \in Slots(<<0>>) |-> [oid |-> NewOid(i), spawner |-> <<0>>[i], alive |-> TRUE,
                                    controller |-> 0, index |-> 0]] = new
      /\ [i \in Slots(<<0>>) |-> n + i] = ms
  BY <1>3 DEF Fresh
<1>9. monsters' = LinkAll(w, ms, s).monsters /\ lists' = LinkAll(w, ms, s).lists
  BY <1>2, <1>8 DEF Spawned
<1>10. w.monsters = grown /\ w.lists = led
  OBVIOUS
<1>11. PICK g, m1, v : g = grown /\ m1 = ms /\ v = w
  OBVIOUS
<1>12. /\ g \in Seq(Monster) /\ Len(g) = n + 1 /\ \A k \in 1..n : g[k] = monsters[k]
       /\ g[n + 1] = Fresh(0, o) /\ v.monsters = g /\ v.lists = led
       /\ m1 \in Seq(Nat) /\ Slots(m1) = {1} /\ m1[1] = n + 1
       /\ monsters' = LinkAll(v, m1, s).monsters /\ lists' = LinkAll(v, m1, s).lists
  BY <1>6, <1>7, <1>9, <1>10, <1>11 DEF Slots
<1>. HIDE DEF new, ms, grown, w
<1>13. /\ monsters' = [k \in Slots(g) |-> IF \E i \in {1} : m1[i] = k
              THEN [g[k] EXCEPT !.controller = s,
                                !.index = Len(led[s]) + CHOOSE i \in {1} : m1[i] = k]
              ELSE g[k]]
       /\ lists' = [led EXCEPT ![s] = @ \o m1]
  BY <1>12 DEF LinkAll
<1>14. Slots(g) = 1..(n + 1)
  BY <1>12 DEF Slots
<1>22. PICK mons, l, c : mons = monsters' /\ l = Len(led[s]) /\ c = CHOOSE i \in {1} : m1[i] = n + 1
  OBVIOUS
<1>23. c = 1 /\ l \in Nat
  BY <1>2, <1>12, <1>22
<1>24. mons = [k \in 1..(n + 1) |-> IF m1[1] = k
              THEN [g[k] EXCEPT !.controller = s, !.index = l + CHOOSE i \in {1} : m1[i] = k]
              ELSE g[k]]
  BY <1>13, <1>14, <1>22
<1>15. ASSUME NEW k \in 1..n PROVE monsters'[k] = monsters[k]
  <2>1. k \in 1..(n + 1) /\ k # n + 1
    BY <1>1
  <2>2. mons[k] = g[k]
    BY <2>1, <1>12, <1>24
  <2>. QED  BY <2>2, <1>12, <1>22
<1>16. monsters'[n + 1] = [Fresh(0, o) EXCEPT !.controller = s, !.index = l + 1]
  <2>1. n + 1 \in 1..(n + 1) /\ m1[1] = n + 1
    BY <1>1, <1>12
  <2>2. mons[n + 1] = [g[n + 1] EXCEPT !.controller = s, !.index = l + c]
    BY <2>1, <1>22, <1>24
  <2>. QED  BY <2>2, <1>12, <1>22, <1>23
<1>17. monsters'[n + 1] \in Monster /\ monsters'[n + 1].oid = o /\ monsters'[n + 1].spawner = 0
  <2>1. PICK a, b, i : a = Fresh(0, o) /\ b = monsters'[n + 1] /\ i = l + 1
    OBVIOUS
  <2>2. a \in Monster /\ a.oid = o /\ a.spawner = 0
    BY <2>1, <1>4, FreshFields
  <2>3. b = [a EXCEPT !.controller = s, !.index = i] /\ i \in Nat /\ s \in Nat
    BY <2>1, <1>2, <1>16, <1>23
  <2>4. b \in Monster /\ b.oid = a.oid /\ b.spawner = a.spawner
    BY <2>2, <2>3 DEF Monster
  <2>. QED  BY <2>1, <2>2, <2>4
<1>18. monsters' \in Seq(Monster) /\ Len(monsters') = n + 1
  <2>1. mons = monsters'
    BY <1>22
  <2>2. DOMAIN mons = 1..(n + 1) /\ mons = [k \in 1..(n + 1) |-> mons[k]]
    BY <1>24
  <2>3. \A k \in 1..(n + 1) : mons[k] \in Monster
    <3>1. \A k \in 1..(n + 1) : k \in 1..n \/ k = n + 1
      BY <1>1
    <3>. QED  BY <3>1, <2>1, <1>1, <1>15, <1>17
  <2>4. mons \in [1..(n + 1) -> Monster]
    BY <2>2, <2>3
  <2>5. n + 1 \in Nat
    BY <1>1
  <2>6. mons \in Seq(Monster) /\ Len(mons) = n + 1
    BY <2>4, <2>5, FunctionIsSeq
  <2>. QED  BY <2>1, <2>6
<1>19. lists' \in Seq(Seq(Nat)) /\ Len(lists') = Len(led)
  <2>1. PICK ls, q : ls = lists' /\ q = led[s] \o m1
    OBVIOUS
  <2>4. q \in Seq(Nat)
    BY <2>1, <1>2, <1>12
  <2>5. ls = [led EXCEPT ![s] = q]
    BY <2>1, <1>13
  <2>2. q \in Seq(Nat) /\ ls = [led EXCEPT ![s] = q]
    BY <2>4, <2>5
  <2>3. ls \in Seq(Seq(Nat)) /\ Len(ls) = Len(led)
    BY <2>2 DEF Slots
  <2>. QED  BY <2>1, <2>3
<1>20. /\ DOMAIN objects' = DOMAIN objects \cup {o}
       /\ \A a \in DOMAIN objects : objects'[a] = objects[a]
       /\ objects'[o] = n + 1
  <2>1. objects' = [a \in DOMAIN objects \cup {NewOid(i) : i \in {1}} |->
                      IF a \in DOMAIN objects THEN objects[a]
                      ELSE n + CHOOSE i \in {1} : NewOid(i) = a]
    BY <1>3 DEF Spawned
  <2>2. {NewOid(i) : i \in {1}} = {o}
    OBVIOUS
  <2>3. (CHOOSE i \in {1} : NewOid(i) = o) = 1
    OBVIOUS
  <2>. QED  BY <2>1, <2>2, <2>3
<1>21. freeStack' = StackAfter(1)
  BY <1>3 DEF Spawned
<1>. QED  BY <1>15, <1>17, <1>18, <1>19, <1>20, <1>21

(* The object list after it gave out an id for a monster, when it held all *)
(* ids but one or all: the ids stay dense.                                 *)
LEMMA EnlargedIds ==
  ASSUME IInv, Len(monsters) = SpawnerCount, spawns < MaxSpawns
  PROVE  /\ NewOid(1) \in Oids \ DOMAIN objects
         /\ StackAfter(1) = <<>>
         /\ DOMAIN objects \cup {NewOid(1)} = 0..Cardinality(DOMAIN objects)
         /\ Cardinality(DOMAIN objects) \in Nat /\ IsFiniteSet(DOMAIN objects)
<1>1. IdsOK(monsters, objects, freeStack, boss.oid) /\ StackOK(DOMAIN objects, freeStack)
  BY DEF IInv, IdPart, IdsOK
<1>2. PICK c, d : c = Cardinality(DOMAIN objects) /\ d = Len(freeStack)
  OBVIOUS
<1>3. /\ IsFiniteSet(DOMAIN objects) /\ c = Len(monsters) + (IF boss.oid = NoOid THEN 0 ELSE 1)
      /\ d \in Nat /\ c + d = SpawnerCount + 1 /\ DOMAIN objects \cup Elems(freeStack) = Ids
  BY <1>1, <1>2, IdsSuffice, IdsCounted
<1>4. c \in Nat /\ SpawnerCount \in Nat /\ ((d = 1 /\ c = SpawnerCount) \/ (d = 0 /\ c = SpawnerCount + 1))
  BY <1>3, SpawnerAssumption
<1>5. CASE d = 1 /\ c = SpawnerCount
  <2>1. /\ NewOid(1) = Taken(freeStack, 1) /\ NewOid(1) \in Ids /\ Taken(freeStack, 1) \notin DOMAIN objects
    <3>1. 1 \in 0..Len(freeStack) /\ 1 \in 1..1 /\ freeStack \in Seq(Ids)
      BY <1>2, <1>5, <1>1 DEF StackOK
    <3>. QED  BY <3>1, <1>1, StackEnough, IdsTaken
  <2>2. Elems(freeStack) = {NewOid(1)}
    <3>1. Slots(freeStack) = {1} /\ NewOid(1) = freeStack[1]
      BY <1>2, <1>5, <2>1 DEF Slots, Taken
    <3>. QED  BY <3>1 DEF Elems
  <2>3. NewOid(1) \in Oids
    BY <2>1, SpawnerAssumption, BoundsAssumption DEF Ids, Oids
  <2>4. StackAfter(1) = <<>>
    <3>1. 1 \in 0..Len(freeStack) /\ freeStack \in Seq(Ids)
      BY <1>2, <1>5, <1>1 DEF StackOK
    <3>2. Popped(StackAfter(1), freeStack, 1)
      BY <3>1, StackEnough
    <3>. QED  BY <3>2, <1>2, <1>5 DEF Popped
  <2>. QED  BY <2>1, <2>2, <2>3, <2>4, <1>2, <1>3, <1>5, <1>4 DEF Ids
<1>6. CASE d = 0 /\ c = SpawnerCount + 1
  <2>1. NewOid(1) = SpawnerCount + 1 /\ StackAfter(1) = <<>>
    BY <1>2, <1>4, <1>6 DEF NewOid, StackAfter
  <2>2. DOMAIN objects = Ids
    <3>1. Slots(freeStack) = {}
      BY <1>2, <1>6 DEF Slots
    <3>. QED  BY <3>1, <1>3 DEF Elems
  <2>3. NewOid(1) \in Oids
    <3>1. MaxSpawns \in Nat /\ spawns \in Nat
      BY BoundsAssumption DEF IInv, BossPart
    <3>. QED  BY <3>1, <2>1, <1>4 DEF Oids
  <2>4. Ids \cup {SpawnerCount + 1} = 0..(SpawnerCount + 1)
    BY <1>4 DEF Ids
  <2>5. SpawnerCount + 1 \notin Ids
    BY <1>4 DEF Ids
  <2>. QED  BY <2>1, <2>2, <2>3, <2>4, <2>5, <1>2, <1>3, <1>4, <1>6
<1>. QED  BY <1>4, <1>5, <1>6

(* map_spawn() with a full array: only the lists go wrong. *)
LEMMA SpawnEnlarges ==
  ASSUME IInv, NEW p \in Player, Spawn(p),
         ~(Len(monsters) < monsterCapacity \/ UNCHANGED <<monsters, lists, ids, monsterCapacity>>)
  PROVE  Enlarged'
<1>1. monsterCapacity = SpawnerCount /\ Len(monsters) \in Nat /\ SpawnerCount \in Nat \ {0}
      /\ monsters \in Seq(Monster) /\ lists \in Seq(Seq(Nat)) /\ Len(lists) = Len(players)
  BY IdsSuffice, SpawnerAssumption DEF IInv, SpawnerPart, LinkPart, Linked
<1>2. /\ Present(p) /\ spawns < MaxSpawns /\ spawns' = spawns + 1 /\ corrupt' = TRUE
      /\ Len(monsters) = monsterCapacity /\ monsterCapacity' = 2 * monsterCapacity
      /\ Spawned(<<0>>, heap[1].slot, Misled)
      /\ UNCHANGED <<players, playerCapacity, heap, dead, dying, boss>>
  BY DEF Spawn
<1>3. PICK n, o, s : n = Len(monsters) /\ o = NewOid(1) /\ s = heap[1].slot
  OBVIOUS
<1>4. n = SpawnerCount /\ n \in Nat
  BY <1>1, <1>2, <1>3
<1>5. /\ o \in Oids \ DOMAIN objects /\ StackAfter(1) = <<>>
      /\ DOMAIN objects \cup {o} = 0..Cardinality(DOMAIN objects)
      /\ Cardinality(DOMAIN objects) \in Nat /\ IsFiniteSet(DOMAIN objects)
  BY <1>2, <1>3, <1>4, EnlargedIds
<1>6. Misled \in Seq(Seq(Nat)) /\ Len(Misled) = Len(players) /\ s \in Slots(Misled)
  <2>1. Misled \in Seq(Seq(Nat)) /\ Len(Misled) = Len(lists)
    BY <1>1, MisledLists
  <2>2. s \in Slots(players)
    BY <1>2, <1>3, TopSlot DEF Present
  <2>. QED  BY <2>1, <2>2, <1>1 DEF Slots
<1>7. /\ lists' \in Seq(Seq(Nat)) /\ Len(lists') = Len(players)
      /\ monsters' \in Seq(Monster) /\ Len(monsters') = n + 1
      /\ \A k \in 1..n : monsters'[k] = monsters[k]
      /\ monsters'[n + 1].oid = o /\ monsters'[n + 1].spawner = 0
      /\ DOMAIN objects' = DOMAIN objects \cup {o}
      /\ \A a \in DOMAIN objects : objects'[a] = objects[a]
      /\ objects'[o] = n + 1 /\ freeStack' = <<>>
  <2>1. PICK led : led = Misled
    OBVIOUS
  <2>2. led \in Seq(Seq(Nat)) /\ Len(led) = Len(players) /\ s \in Slots(led) /\ Spawned(<<0>>, s, led)
    BY <2>1, <1>2, <1>3, <1>6
  <2>. QED  BY <2>2, <1>1, <1>3, <1>5, OneSpawned
<1>8. Slots(monsters') = 1..(n + 1) /\ Slots(monsters) = 1..n
  BY <1>3, <1>7 DEF Slots
<1>9. TypeOK /\ ObjectsLead /\ SpawnersAccounted
  BY TypesFollow, ObjectsFollow, SpawnersFollow
<1>10. TypeOK'
  <2>1. \A a \in DOMAIN objects' : objects'[a] \in Nat
    BY <1>4, <1>7, <1>9 DEF TypeOK
  <2>2. DOMAIN objects' \subseteq Oids
    BY <1>5, <1>7, <1>9 DEF TypeOK
  <2>3. spawns' \in 0..MaxSpawns
    BY <1>2, <1>9, BoundsAssumption DEF TypeOK
  <2>4. freeStack' \in Seq(Oids)
    BY <1>7
  <2>5. monsterCapacity' \in Nat /\ corrupt' \in BOOLEAN
    BY <1>1, <1>2
  <2>6. monsters' \in Seq([oid : Oids, spawner : 0..SpawnerCount, alive : BOOLEAN,
                            controller : Nat, index : Nat])
    BY <1>7 DEF Monster
  <2>. QED  BY <2>1, <2>2, <2>3, <2>4, <2>5, <2>6, <1>2, <1>7, <1>9 DEF TypeOK
<1>11. ObjectsLead'
  <2>1. ASSUME NEW m \in Slots(monsters')
        PROVE  monsters'[m].oid \in DOMAIN objects' /\ objects'[monsters'[m].oid] = m
    <3>1. CASE m \in 1..n
      BY <3>1, <1>7, <1>8, <1>9 DEF ObjectsLead
    <3>2. CASE m = n + 1
      BY <3>2, <1>7
    <3>. QED  BY <3>1, <3>2, <1>4, <1>8
  <2>2. Cardinality(DOMAIN objects') = Cardinality(DOMAIN objects) + 1
    <3>1. PICK D : D = DOMAIN objects
      OBVIOUS
    <3>2. Cardinality(D \cup {o}) = Cardinality(D) + 1
      BY <3>1, <1>5, FS_AddElement
    <3>. QED  BY <3>1, <3>2, <1>7
  <2>3. Cardinality(DOMAIN objects') = Len(monsters') + (IF boss'.oid = NoOid THEN 0 ELSE 1)
    BY <2>2, <1>2, <1>3, <1>4, <1>7, <1>9 DEF ObjectsLead
  <2>4. DOMAIN objects' \cup {freeStack'[i] : i \in Slots(freeStack')}
          = 0..(Cardinality(DOMAIN objects') + Len(freeStack') - 1)
    <3>1. PICK c : c = Cardinality(DOMAIN objects)
      OBVIOUS
    <3>2. DOMAIN objects' = 0..c /\ Cardinality(DOMAIN objects') = c + 1 /\ c \in Nat
      BY <3>1, <2>2, <1>5, <1>7
    <3>3. Slots(freeStack') = {} /\ Len(freeStack') = 0
      BY <1>7 DEF Slots
    <3>4. (c + 1) + 0 - 1 = c
      BY <3>2
    <3>. QED  BY <3>2, <3>3, <3>4
  <2>5. ASSUME NEW a \in dying'
        PROVE  /\ a \in DOMAIN objects'
               /\ IF a = boss'.oid THEN ~boss'.alive ELSE ~monsters'[objects'[a]].alive
    <3>1. a \in DOMAIN objects /\ IF a = boss.oid THEN ~boss.alive ELSE ~monsters[objects[a]].alive
      BY <2>5, <1>2, <1>9 DEF ObjectsLead
    <3>2. a # boss.oid => objects[a] \in 1..n
      BY <3>1, <1>8 DEF IInv, IdPart, IdsOK
    <3>. QED  BY <3>1, <3>2, <1>2, <1>7
  <2>. QED  BY <2>1, <2>3, <2>4, <2>5 DEF ObjectsLead
<1>12. SpawnersAccounted'
  <2>1. ASSUME NEW r \in 1..SpawnerCount
        PROVE  dead'[r] + Cardinality({m \in Slots(monsters') : monsters'[m].spawner = r}) = 1
    <3>1. {m \in Slots(monsters') : monsters'[m].spawner = r} = {m \in Slots(monsters) : monsters[m].spawner = r}
      <4>1. r # 0 /\ \A m \in 1..(n + 1) : m \in 1..n \/ m = n + 1
        BY <1>4
      <4>2. 1..n \subseteq 1..(n + 1)
        BY <1>4
      <4>. QED  BY <4>1, <4>2, <1>7, <1>8
    <3>. QED  BY <3>1, <1>2, <1>9 DEF SpawnersAccounted
  <2>2. Len(monsters') <= monsterCapacity'
    BY <1>1, <1>2, <1>4, <1>7
  <2>3. MaxSpawnCount' <= monsterCapacity'
    <3>1. MaxSpawnCount' = MaxSpawnCount
      BY <1>2 DEF MaxSpawnCount
    <3>2. MaxSpawnCount \in Nat /\ MaxSpawnCount <= SpawnerCount
      BY SpawnLimit DEF IInv, SeatPart, SeatsOK
    <3>. QED  BY <3>1, <3>2, <1>1, <1>2
  <2>. QED  BY <2>1, <2>2, <2>3 DEF SpawnersAccounted
<1>. QED  BY <1>2, <1>10, <1>11, <1>12 DEF Enlarged

(* Nothing happens on a map whose pointers have been sent astray. *)
LEMMA AstrayStops ==
  ASSUME corrupt, [Next]_vars
  PROVE  UNCHANGED vars
BY DEF Next, Join, LeaveOthers, LeaveLast, Spawn, HitBoss, Hit, Slay, SlayBoss, LastDrop, Respawn,
       RespawnBoss, Present

LEMMA StepKeeps ==
  ASSUME IInv, [Next]_vars
  PROVE  IInv' \/ (Enlarged' /\ heap' = heap)
<1>1. ASSUME NEW p \in Player, Join(p) PROVE IInv'
  BY <1>1, JoinKeeps
<1>2. ASSUME NEW p \in Player, LeaveOthers(p) PROVE IInv'
  BY <1>2, LeaveOthersKeeps
<1>3. ASSUME NEW p \in Player, LeaveLast(p) PROVE IInv'
  BY <1>3, LeaveLastKeeps
<1>4. ASSUME NEW p \in Player, Spawn(p) PROVE IInv' \/ (Enlarged' /\ heap' = heap)
  BY <1>4, SpawnKeeps, SpawnEnlarges DEF Spawn
<1>5. ASSUME NEW p \in Player, HitBoss(p) PROVE IInv'
  BY <1>5, HitBossKeeps
<1>6. ASSUME NEW p \in Player, NEW oid \in DOMAIN objects, Hit(p, oid) PROVE IInv'
  BY <1>6, HitKeeps
<1>7. ASSUME NEW p \in Player, NEW oid \in DOMAIN objects, NEW fate \in Fates, Slay(p, oid, fate) PROVE IInv'
  BY <1>7, SlayKeeps
<1>8. ASSUME NEW p \in Player, NEW fate \in Fates, SlayBoss(p, fate) PROVE IInv'
  BY <1>8, SlayBossKeeps
<1>9. ASSUME NEW oid \in dying, LastDrop(oid) PROVE IInv'
  BY <1>9, LastDropKeeps
<1>10. CASE Respawn
  BY <1>10, RespawnKeeps
<1>11. CASE RespawnBoss
  BY <1>11, RespawnBossKeeps
<1>12. CASE UNCHANGED vars
  BY <1>12 DEF vars, arrays, ids, IInv, SeatPart, LinkPart, IdPart, SpawnerPart, BossPart
<1>. QED  BY <1>1, <1>2, <1>3, <1>4, <1>5, <1>6, <1>7, <1>8, <1>9, <1>10, <1>11, <1>12 DEF Next

-----------------------------------------------------------------------------
Inv == IInv \/ Enlarged

LEMMA InvKept ==
  ASSUME Inv, [Next]_vars
  PROVE  Inv'
<1>1. CASE IInv
  BY <1>1, StepKeeps DEF Inv
<1>2. CASE Enlarged
  <2>1. UNCHANGED vars
    BY <1>2, AstrayStops DEF Enlarged
  <2>2. corrupt' /\ TypeOK'
    BY <1>2, <2>1 DEF Enlarged, vars, arrays, ids, TypeOK
  <2>3. ObjectsLead'
    BY <1>2, <2>1 DEF Enlarged, vars, arrays, ids, ObjectsLead
  <2>4. SpawnersAccounted'
    BY <1>2, <2>1 DEF Enlarged, vars, arrays, ids, SpawnersAccounted, MaxSpawnCount
  <2>. QED  BY <2>2, <2>3, <2>4 DEF Inv, Enlarged
<1>. QED  BY <1>1, <1>2 DEF Inv

(* Every step of map.c that moves a player or a monster takes every        *)
(* pointer along and keeps the invariant, save one: map_spawn() with a     *)
(* full array overwrites the lists of the players (map.c:958-959).  After  *)
(* it only the types, the object list and the spawners are right.          *)
THEOREM InvariantHolds == Spec => [](IInv \/ Enlarged)
<1>1. Init => Inv
  BY InitHolds DEF Inv
<1>2. Inv /\ [Next]_vars => Inv'
  BY InvKept
<1>3. Spec => []Inv
  BY <1>1, <1>2, PTL DEF Spec
<1>. QED  BY <1>3 DEF Inv

(* Every variable has its type whatever happens: map_join() to on_respawn(). *)
THEOREM TypesHold == Spec => []TypeOK
<1>1. IInv \/ Enlarged => TypeOK
  BY TypesFollow DEF Enlarged
<1>. QED  BY <1>1, InvariantHolds, PTL

(* While anybody is on the map every living monster is in the list of its  *)
(* controller, and a list has nothing else, and every player has one node  *)
(* in the heap, which names his slot, after any number of map_join(),      *)
(* map_leave(), map_damage_monster_by() and on_respawn(), as long as       *)
(* map_spawn() has not enlarged the array and no pointer of the boss to    *)
(* freed memory was followed.                                              *)
THEOREM PointersMatch == Spec => []ControllersMatch
<1>1. IInv \/ Enlarged => ControllersMatch
  BY ControllersFollow DEF Enlarged, ControllersMatch
<1>. QED  BY <1>1, InvariantHolds, PTL

(* The object list always leads from an id to its monster, and gives no id *)
(* out twice; drops that fall belong to a monster that is still there.     *)
THEOREM ObjectsFound == Spec => []ObjectsLead
<1>1. IInv \/ Enlarged => ObjectsLead
  BY ObjectsFollow DEF Enlarged
<1>. QED  BY <1>1, InvariantHolds, PTL

(* on_respawn() never draws from an empty list, and no array outgrows its  *)
(* capacity: every spawner is dead once or has one monster.                *)
THEOREM SpawnersCounted == Spec => []SpawnersAccounted
<1>1. IInv \/ Enlarged => SpawnersAccounted
  BY SpawnersFollow DEF Enlarged
<1>. QED  BY <1>1, InvariantHolds, PTL

-----------------------------------------------------------------------------
(***************************************************************************)
(* The heap implements the queue of MinQueue: what its operations do to    *)
(* the numbers of monsters the players were given.                         *)
(***************************************************************************)

GivenOf(h) == [p \in {h[i].who : i \in Slots(h)} |-> h[CHOOSE i \in Slots(h) : h[i].who = p].count]

(* f is a function that says how many the players of the heap h were given. *)
Tells(f, h) ==
  /\ f = [p \in {h[i].who : i \in Slots(h)} |-> f[p]]
  /\ \A i \in Slots(h) : f[h[i].who] = h[i].count

LEMMA GivenTells ==
  ASSUME NEW h, WhoDistinct(h)
  PROVE  Tells(GivenOf(h), h)
<1>. DEFINE W == {h[i].who : i \in Slots(h)}
            at(p) == CHOOSE i \in Slots(h) : h[i].who = p
            f == [p \in W |-> h[at(p)].count]
<1>1. ASSUME NEW i \in Slots(h) PROVE f[h[i].who] = h[i].count
  <2>1. \A j \in Slots(h) : h[j].who = h[i].who <=> j = i
    BY DEF WhoDistinct
  <2>2. (CHOOSE j \in Slots(h) : h[j].who = h[i].who) = i
    BY <2>1
  <2>. QED  BY <2>2
<1>2. f = [p \in W |-> f[p]]
  <2>. HIDE DEF at, W
  <2>. QED  OBVIOUS
<1>3. GivenOf(h) = f
  BY DEF GivenOf
<1>. HIDE DEF f
<1>. QED  BY <1>1, <1>2, <1>3 DEF Tells

LEMMA TellsSame ==
  ASSUME NEW h, NEW f, Tells(f, h), NEW g, Tells(g, h)
  PROVE  f = g
<1>. DEFINE W == {h[i].who : i \in Slots(h)}
<1>1. ASSUME NEW p \in W PROVE f[p] = g[p]
  <2>1. PICK i \in Slots(h) : p = h[i].who
    OBVIOUS
  <2>2. f[h[i].who] = h[i].count /\ g[h[i].who] = h[i].count
    BY DEF Tells
  <2>. QED  BY <2>1, <2>2
<1>2. f = [p \in W |-> f[p]] /\ g = [p \in W |-> g[p]]
  BY DEF Tells
<1>. HIDE DEF W
<1>. QED  BY <1>1, <1>2

(* map_join() *)
LEMMA PushTells ==
  ASSUME NEW h, WhoDistinct(h), NEW g, NEW node, Pushed(g, h, node),
         \A i \in Slots(h) : h[i].who # node.who,
         NEW f, Tells(f, h), NEW k,
         k = [q \in DOMAIN f \cup {node.who} |-> IF q = node.who THEN node.count ELSE f[q]]
  PROVE  Tells(k, g)
<1>. DEFINE W == {h[i].who : i \in Slots(h)}
            V == {g[i].who : i \in Slots(g)}
<1>1. DOMAIN f = W /\ \A i \in Slots(h) : f[h[i].who] = h[i].count
  BY DEF Tells
<1>2. /\ \A i \in Slots(h) : \E j \in Slots(g) : g[j] = h[i]
      /\ \E j \in Slots(g) : g[j] = node
      /\ \A j \in Slots(g) : g[j] = node \/ \E i \in Slots(h) : g[j] = h[i]
  BY DEF Pushed
<1>3. V = W \cup {node.who}
  BY <1>2
<1>4. k = [q \in V |-> k[q]]
  BY <1>1, <1>3
<1>5. ASSUME NEW j \in Slots(g) PROVE k[g[j].who] = g[j].count
  <2>1. CASE g[j] = node
    BY <2>1
  <2>2. CASE \E i \in Slots(h) : g[j] = h[i]
    <3>1. PICK i \in Slots(h) : g[j] = h[i]
      BY <2>2
    <3>2. h[i].who \in DOMAIN f /\ h[i].who # node.who
      BY <1>1
    <3>. QED  BY <3>1, <3>2, <1>1
  <2>. QED  BY <2>1, <2>2, <1>2
<1>. QED  BY <1>4, <1>5 DEF Tells

(* map_leave() *)
LEMMA RemoveTells ==
  ASSUME NEW h, WhoDistinct(h), NEW g, NEW p, Removed(g, h, p), NEW f, Tells(f, h),
         NEW k, k = [q \in DOMAIN f \ {p} |-> f[q]]
  PROVE  Tells(k, g)
<1>. DEFINE W == {h[i].who : i \in Slots(h)}
            V == {g[i].who : i \in Slots(g)}
<1>1. DOMAIN f = W /\ \A i \in Slots(h) : f[h[i].who] = h[i].count
  BY DEF Tells
<1>2. /\ \A i \in Slots(h) : h[i].who # p => \E j \in Slots(g) : g[j] = h[i]
      /\ \A j \in Slots(g) : g[j].who # p /\ \E i \in Slots(h) : g[j] = h[i]
  BY DEF Removed
<1>3. V = W \ {p}
  BY <1>2
<1>4. k = [q \in V |-> k[q]]
  BY <1>1, <1>3
<1>5. ASSUME NEW j \in Slots(g) PROVE k[g[j].who] = g[j].count
  <2>1. PICK i \in Slots(h) : g[j] = h[i]
    BY <1>2
  <2>2. h[i].who \in DOMAIN f \ {p}
    BY <2>1, <1>1, <1>2
  <2>. QED  BY <2>1, <2>2, <1>1
<1>. QED  BY <1>4, <1>5 DEF Tells

LEMMA RelocateTells ==
  ASSUME NEW f, NEW g, NEW n, NEW s, Relocated(f, g, n, s), NEW k, Tells(k, g)
  PROVE  Tells(k, f)
<1>1. {f[i].who : i \in Slots(f)} = {g[i].who : i \in Slots(g)}
  BY DEF Relocated
<1>. QED  BY <1>1 DEF Tells, Relocated

(* on_respawn() *)
LEMMA IncreaseTells ==
  ASSUME NEW h, WhoDistinct(h), 1 \in Slots(h), h \in Seq(Node), NEW g, NEW n \in Nat, Increased(g, h, n),
         NEW f, Tells(f, h), NEW p, p = h[1].who, NEW k, k = [f EXCEPT ![p] = @ + n]
  PROVE  Tells(k, g)
<1>. DEFINE W == {h[i].who : i \in Slots(h)}
            V == {g[i].who : i \in Slots(g)}
<1>1. DOMAIN f = W /\ \A i \in Slots(h) : f[h[i].who] = h[i].count
  BY DEF Tells
<1>2. /\ \A i \in Slots(h) : \E j \in Slots(g) : g[j].who = h[i].who
      /\ \A j \in Slots(g) : \E i \in Slots(h) : /\ g[j].who = h[i].who
                                                 /\ g[j].count = h[i].count + (IF i = 1 THEN n ELSE 0)
  BY DEF Increased, Given2
<1>3. V = W
  BY <1>2
<1>4. k = [q \in V |-> k[q]]
  BY <1>1, <1>3
<1>5. ASSUME NEW j \in Slots(g) PROVE k[g[j].who] = g[j].count
  <2>1. PICK i \in Slots(h) : /\ g[j].who = h[i].who
                              /\ g[j].count = h[i].count + (IF i = 1 THEN n ELSE 0)
    BY <1>2
  <2>2. h[i].who \in DOMAIN f /\ f[h[i].who] = h[i].count /\ h[i].count \in Nat
    BY <1>1, HeapTypes
  <2>3. CASE i = 1
    <3>1. k[g[j].who] = f[h[i].who] + n
      BY <2>1, <2>2, <2>3
    <3>. QED  BY <2>1, <2>2, <2>3, <3>1
  <2>4. CASE i # 1
    <3>1. h[i].who # p
      BY <2>4 DEF WhoDistinct
    <3>2. k[g[j].who] = f[h[i].who]
      BY <2>1, <2>2, <3>1
    <3>. QED  BY <2>1, <2>2, <2>4, <3>2
  <2>. QED  BY <2>3, <2>4
<1>. QED  BY <1>4, <1>5 DEF Tells

(* The top of a heap in order has the fewest. *)
LEMMA TopFewest ==
  ASSUME NEW h \in Seq(Node), Ordered(h), NEW i \in Slots(h)
  PROVE  h[1].count <= h[i].count
<1>. DEFINE T == {j \in Slots(h) : ~(h[1].count <= h[j].count)}
<1>1. Len(h) \in Nat /\ Slots(h) = 1..Len(h) /\ \A j \in Slots(h) : h[j].count \in Nat
  BY HeapTypes DEF Slots
<1>2. SUFFICES ASSUME T # {} PROVE FALSE
  OBVIOUS
<1>3. PICK z \in T : \A y \in T : z <= y
  <2>1. T \in SUBSET Nat
    BY <1>1
  <2>. HIDE DEF T
  <2>. QED  BY <1>2, <2>1, LeastNatural
<1>4. 1 \in Slots(h) /\ z \in Slots(h) /\ z # 1 /\ z > 1
  BY <1>1, <1>3
<1>5. PICK y : y = z \div 2
  OBVIOUS
<1>6. y \in 1..(z - 1)
  BY <1>1, <1>4, <1>5, Halves
<1>7. y \in Slots(h) /\ ~(z <= y)
  BY <1>1, <1>4, <1>6
<1>8. h[1].count <= h[y].count
  BY <1>3, <1>7
<1>9. h[y].count <= h[z].count
  BY <1>4, <1>5 DEF Ordered
<1>10. h[1].count <= h[z].count
  BY <1>1, <1>4, <1>7, <1>8, <1>9
<1>. QED  BY <1>3, <1>10

LEMMA HeapParts ==
  ASSUME IInv
  PROVE  /\ heap \in Seq(Node) /\ WhoDistinct(heap) /\ Ordered(heap) /\ Len(heap) = Len(players)
         /\ NodesOK(heap, players) /\ SeatsOK(players, playerCapacity) /\ players \in Seq(Player)
         /\ \A i \in Slots(heap) : heap[i].slot \in Slots(players) /\ players[heap[i].slot] = heap[i].who
         /\ Given = GivenOf(heap) /\ Tells(Given, heap)
         /\ DOMAIN Given = {heap[i].who : i \in Slots(heap)}
<1>1. /\ heap \in Seq(Node) /\ WhoDistinct(heap) /\ Ordered(heap) /\ Len(heap) = Len(players)
      /\ NodesOK(heap, players) /\ SeatsOK(players, playerCapacity) /\ players \in Seq(Player)
      /\ \A i \in Slots(heap) : heap[i].slot \in Slots(players) /\ players[heap[i].slot] = heap[i].who
  BY DEF IInv, SeatPart, SeatsOK, NodesOK
<1>2. Given = GivenOf(heap)
  BY DEF Given, GivenOf
<1>3. Tells(Given, heap)
  BY <1>1, <1>2, GivenTells
<1>4. DOMAIN Given = {heap[i].who : i \in Slots(heap)}
  BY DEF Given
<1>. QED  BY <1>1, <1>2, <1>3, <1>4

(* The numbers after a step are those that any function tells of the new heap. *)
LEMMA GivenNext ==
  ASSUME IInv', NEW k, Tells(k, heap')
  PROVE  Given' = k
<1>1. PICK g : g = heap'
  OBVIOUS
<1>2. WhoDistinct(g) /\ Given' = GivenOf(g)
  BY <1>1 DEF IInv, SeatPart, NodesOK, Given, GivenOf
<1>3. Tells(GivenOf(g), g)
  BY <1>2, GivenTells
<1>4. GivenOf(g) = k
  BY <1>1, <1>3, TellsSame
<1>. QED  BY <1>2, <1>4

LEMMA JoinAdds ==
  ASSUME IInv, IInv', NEW p \in Player, Join(p)
  PROVE  \E n \in 0..SpawnerCount : Queue!Add(p, n)
<1>1. PICK n, s : n = Len(IF heap = <<>> THEN Living ELSE <<>>) /\ s = Len(players) + 1
  OBVIOUS
<1>2. heap' = HeapPush(heap, [who |-> p, count |-> n, slot |-> s]) /\ ~corrupt /\ ~Present(p)
  BY <1>1 DEF Join
<1>3. n \in 0..SpawnerCount
  <2>1. monsters \in Seq(Monster) /\ Len(monsters) <= SpawnerCount /\ Len(monsters) \in Nat
    BY IdsSuffice DEF IInv, LinkPart, Linked, SpawnerPart
  <2>2. Len(Living) \in 0..Len(monsters)
    BY <2>1, LivingRoll
  <2>3. n = Len(Living) \/ n = 0
    BY <1>1
  <2>. QED  BY <2>1, <2>2, <2>3, SpawnerAssumption
<1>4. s \in Nat
  BY <1>1, HeapParts, SeqTypes
<1>5. PICK node : node = [who |-> p, count |-> n, slot |-> s]
  OBVIOUS
<1>6. node \in Node /\ node.who = p /\ node.count = n
  BY <1>3, <1>4, <1>5, BoundsAssumption, SpawnerAssumption DEF Node
<1>7. \A i \in Slots(heap) : heap[i].who # p
  BY <1>2, HeapParts DEF Present
<1>8. PICK g : g = HeapPush(heap, node)
  OBVIOUS
<1>9. Pushed(g, heap, node)
  <2>1. Pushed(HeapPush(heap, node), heap, node)
    BY <1>6, <1>7, HeapParts, PushDoes
  <2>. QED  BY <2>1, <1>8
<1>10. PICK k : k = [q \in DOMAIN Given \cup {p} |-> IF q = p THEN n ELSE Given[q]]
  OBVIOUS
<1>11. PICK f : f = Given
  OBVIOUS
<1>12. Tells(k, g)
  <2>1. k = [q \in DOMAIN f \cup {node.who} |-> IF q = node.who THEN node.count ELSE f[q]]
    BY <1>6, <1>10, <1>11
  <2>2. Tells(f, heap) /\ WhoDistinct(heap) /\ \A i \in Slots(heap) : heap[i].who # node.who
    BY <1>6, <1>7, <1>11, HeapParts
  <2>. QED  BY <2>1, <2>2, <1>9, PushTells
<1>13. Given' = k
  BY <1>2, <1>5, <1>8, <1>12, GivenNext
<1>14. p \notin DOMAIN Given
  BY <1>7, HeapParts
<1>15. Queue!Add(p, n)
  BY <1>10, <1>13, <1>14 DEF Queue!Add
<1>. QED  BY <1>3, <1>15

(* HeapRemove(), whatever becomes of the slots. *)
LEMMA LeaveRemoves ==
  ASSUME IInv, IInv', NEW p \in Player, Present(p), NEW h, h = HeapRemove(heap, p),
         heap' = h \/ \E n, s : Relocated(heap', h, n, s)
  PROVE  Queue!Remove(p)
<1>1. PICK i \in Slots(heap) : heap[i].who = p
  <2>1. \E s \in Slots(players) : players[s] = p
    BY DEF Present
  <2>. QED  BY <2>1, HeapParts DEF NodesOK
<1>2. Removed(h, heap, p)
  BY <1>1, HeapParts, RemoveDoes
<1>3. PICK k : k = [q \in DOMAIN Given \ {p} |-> Given[q]]
  OBVIOUS
<1>4. PICK f : f = Given
  OBVIOUS
<1>5. Tells(k, h)
  <2>1. k = [q \in DOMAIN f \ {p} |-> f[q]] /\ Tells(f, heap) /\ WhoDistinct(heap)
    BY <1>3, <1>4, HeapParts
  <2>. QED  BY <2>1, <1>2, RemoveTells
<1>6. Tells(k, heap')
  <2>1. CASE heap' = h
    BY <2>1, <1>5
  <2>2. CASE \E n, s : Relocated(heap', h, n, s)
    <3>1. PICK g, n, s : g = heap' /\ Relocated(g, h, n, s)
      BY <2>2
    <3>2. Tells(k, g)
      BY <3>1, <1>5, RelocateTells
    <3>. QED  BY <3>1, <3>2
  <2>. QED  BY <2>1, <2>2
<1>7. Given' = k
  BY <1>6, GivenNext
<1>8. p \in DOMAIN Given
  BY <1>1, HeapParts
<1>. QED  BY <1>3, <1>7, <1>8 DEF Queue!Remove

LEMMA LeaveOthersRemoves ==
  ASSUME IInv, IInv', NEW p \in Player, LeaveOthers(p)
  PROVE  Queue!Remove(p)
<1>1. PICK s, h, n, w : s = Slot(p) /\ h = HeapRemove(heap, p) /\ n = Len(players)
                        /\ w = LinkAll(World, lists[s], h[1].slot)
  OBVIOUS
<1>2. Present(p) /\ FillSlot(s, w, h)
  BY <1>1 DEF LeaveOthers
<1>3. heap' = [i \in Slots(h) |-> IF h[i].slot = n THEN [h[i] EXCEPT !.slot = s] ELSE h[i]]
  BY <1>1, <1>2 DEF FillSlot
<1>4. s \in Nat
  <2>1. s \in Slots(players)
    BY <1>1, <1>2, SlotOf
  <2>. QED  BY <2>1, TopSlot
<1>5. h \in Seq(Node)
  <2>1. \E t \in Slots(players) : players[t] = p
    BY <1>2 DEF Present
  <2>2. \E i \in Slots(heap) : heap[i].who = p
    BY <2>1, HeapParts DEF NodesOK
  <2>3. Removed(HeapRemove(heap, p), heap, p)
    BY <2>2, HeapParts, RemoveDoes
  <2>. QED  BY <2>3, <1>1 DEF Removed
<1>6. Relocated(heap', h, n, s)
  BY <1>3, <1>4, <1>5, RelocateDoes
<1>. QED  BY <1>1, <1>2, <1>6, LeaveRemoves

LEMMA LeaveLastRemoves ==
  ASSUME IInv, IInv', NEW p \in Player, LeaveLast(p)
  PROVE  Queue!Remove(p)
<1>1. PICK h : h = HeapRemove(heap, p)
  OBVIOUS
<1>2. Present(p) /\ heap' = h
  BY <1>1 DEF LeaveLast
<1>. QED  BY <1>1, <1>2, LeaveRemoves

LEMMA RespawnIncreases ==
  ASSUME IInv, IInv', Respawn
  PROVE  heap' = heap \/ \E p \in Player, n \in 0..SpawnerCount : Queue!Increase(p, n)
<1>1. PICK n : n = MaxSpawnCount - Len(monsters)
  OBVIOUS
<1>2. /\ n > 0
      /\ IF heap = <<>> THEN heap' = heap
         ELSE heap[1].count + n <= MaxControllees /\ heap' = HeapInc(heap, n)
  BY <1>1 DEF Respawn
<1>3. n \in 0..SpawnerCount /\ n \in Nat
  <2>1. MaxSpawnCount \in Nat /\ MaxSpawnCount <= SpawnerCount /\ Len(monsters) \in Nat
    BY SpawnLimit, IdsSuffice, HeapParts
  <2>. QED  BY <2>1, <1>1, <1>2, SpawnerAssumption
<1>4. CASE heap # <<>>
  <2>1. heap[1].count + n <= MaxControllees /\ heap' = HeapInc(heap, n) /\ 1 \in Slots(heap)
    BY <1>2, <1>4, TopSlot
  <2>2. PICK g, f, p : g = HeapInc(heap, n) /\ f = Given /\ p = heap[1].who
    OBVIOUS
  <2>3. Increased(g, heap, n)
    BY <2>1, <2>2, <1>3, <1>4, HeapParts, IncDoes
  <2>4. PICK k : k = [f EXCEPT ![p] = @ + n]
    OBVIOUS
  <2>5. Tells(k, g)
    <3>1. Tells(f, heap) /\ WhoDistinct(heap) /\ heap \in Seq(Node)
      BY <2>2, HeapParts
    <3>. QED  BY <2>1, <2>2, <2>3, <2>4, <3>1, <1>3, IncreaseTells
  <2>6. Given' = k
    BY <2>1, <2>2, <2>5, GivenNext
  <2>7. p \in Player /\ p \in DOMAIN Given
    <3>1. heap[1] \in Node
      BY <2>1, HeapParts, HeapTypes
    <3>. QED  BY <2>1, <2>2, <3>1, HeapParts DEF Node
  <2>8. \A q \in DOMAIN Given : Given[p] <= Given[q]
    <3>1. ASSUME NEW q \in DOMAIN Given PROVE Given[p] <= Given[q]
      <4>1. PICK i \in Slots(heap) : q = heap[i].who
        BY HeapParts
      <4>2. Given[heap[1].who] = heap[1].count /\ Given[heap[i].who] = heap[i].count
        BY <2>1, HeapParts DEF Tells
      <4>3. heap[1].count <= heap[i].count
        BY HeapParts, TopFewest
      <4>. QED  BY <2>2, <4>1, <4>2, <4>3
    <3>. QED  BY <3>1
  <2>9. Queue!Increase(p, n)
    BY <2>2, <2>4, <2>6, <2>7, <2>8 DEF Queue!Increase
  <2>. QED  BY <2>7, <2>9, <1>3
<1>. QED  BY <1>2, <1>4

(* Every step of the map is a step of the queue, or changes nobody's number. *)
LEMMA StepQueues ==
  ASSUME IInv, IInv', [Next]_vars
  PROVE  [Queue!Next]_Given
<1>1. ASSUME heap' = heap PROVE Given' = Given
  BY <1>1 DEF Given
<1>2. ASSUME NEW p \in Player, Join(p) PROVE Queue!Next
  BY <1>2, JoinAdds DEF Queue!Next
<1>3. ASSUME NEW p \in Player, LeaveOthers(p) PROVE Queue!Next
  BY <1>3, LeaveOthersRemoves DEF Queue!Next
<1>4. ASSUME NEW p \in Player, LeaveLast(p) PROVE Queue!Next
  BY <1>4, LeaveLastRemoves DEF Queue!Next
<1>5. CASE Respawn
  <2>1. CASE heap' = heap
    BY <2>1, <1>1
  <2>2. CASE \E p \in Player, n \in 0..SpawnerCount : Queue!Increase(p, n)
    BY <2>2 DEF Queue!Next
  <2>. QED  BY <2>1, <2>2, <1>5, RespawnIncreases
<1>6. ASSUME NEW p \in Player, Spawn(p) \/ HitBoss(p) PROVE heap' = heap
  BY <1>6 DEF Spawn, HitBoss, arrays
<1>7. ASSUME NEW p \in Player, NEW oid \in DOMAIN objects, Hit(p, oid) PROVE heap' = heap
  BY <1>7 DEF Hit
<1>8. ASSUME NEW p \in Player, NEW oid \in DOMAIN objects, NEW fate \in Fates, Slay(p, oid, fate)
      PROVE  heap' = heap
  BY <1>8 DEF Slay
<1>9. ASSUME NEW p \in Player, NEW fate \in Fates, SlayBoss(p, fate) PROVE heap' = heap
  BY <1>9 DEF SlayBoss, arrays
<1>10. ASSUME NEW oid \in dying, LastDrop(oid) PROVE heap' = heap
  BY <1>10 DEF LastDrop
<1>11. CASE RespawnBoss
  <2>1. heap' = heap
    BY <1>11 DEF RespawnBoss, arrays
  <2>. QED  BY <2>1, <1>1
<1>12. CASE UNCHANGED vars
  <2>1. heap' = heap
    BY <1>12 DEF vars, arrays
  <2>. QED  BY <2>1, <1>1
<1>. QED  BY <1>1, <1>2, <1>3, <1>4, <1>5, <1>6, <1>7, <1>8, <1>9, <1>10, <1>11, <1>12 DEF Next

(* The heap of controllers is the queue of MinQueue: map_join() adds,      *)
(* map_leave() removes, and on_respawn() gives monsters to a player who    *)
(* was given no more than anybody else; nothing else changes a number.     *)
THEOREM HeapIsQueue == Spec => GivenToFewest
<1>1. Init => Queue!Init
  <2>1. ASSUME Init PROVE Queue!Init
    <3>1. heap = <<>> /\ Slots(<<>>) = {}
      BY <2>1 DEF Init, Slots
    <3>2. {heap[i].who : i \in Slots(heap)} = {}
      BY <3>1
    <3>3. Given = [p \in {} |-> 0]
      BY <3>2 DEF Given
    <3>. QED  BY <3>3 DEF Queue!Init
  <2>. QED  BY <2>1
<1>2. Inv /\ Inv' /\ [Next]_vars => [Queue!Next]_Given
  <2>1. ASSUME IInv, IInv', [Next]_vars PROVE [Queue!Next]_Given
    BY <2>1, StepQueues
  <2>2. ASSUME IInv, ~IInv', [Next]_vars PROVE [Queue!Next]_Given
    <3>1. heap' = heap
      BY <2>2, StepKeeps
    <3>. QED  BY <3>1 DEF Given
  <2>3. ASSUME Enlarged, [Next]_vars PROVE [Queue!Next]_Given
    <3>1. heap' = heap
      BY <2>3, AstrayStops DEF Enlarged, vars, arrays
    <3>. QED  BY <3>1 DEF Given
  <2>. QED  BY <2>1, <2>2, <2>3 DEF Inv
<1>3. Spec => []Inv
  BY InvariantHolds DEF Inv
<1>. QED  BY <1>1, <1>2, <1>3, PTL DEF Spec, GivenToFewest, Queue!Spec

=============================================================================
