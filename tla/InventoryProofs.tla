-------------------------- MODULE InventoryProofs ---------------------------
(***************************************************************************)
(* Proofs about Inventory, for every set of items, equipment and slots:    *)
(* the stacks, the purse and the active slot keep their types,             *)
(* activeProjectile is the first slot with ammunition, a gain is all or    *)
(* nothing and a move conserves the items, but for a stack moved onto its  *)
(* own slot.                                                               *)
(*                                                                         *)
(* The loops over the slots are proved by induction over their turns, for  *)
(* whatever set of bags a turn stays in (LoopStays).  There is one lemma   *)
(* for the loss of items (LossKeeps), one for a stack put into an empty    *)
(* slot (PutKept), and one per branch of client_move_item.  Totals are     *)
(* sums over the slots turn by turn: a change of one slot changes the sum  *)
(* by as much (OneSlotTotal).                                              *)
(***************************************************************************)
EXTENDS Inventory, WellFoundedInduction, TLAPS

Content == {x \in [item : Item, quantity : Nat] : x.quantity <= SlotMax[x.item]} \cup {Empty}
Uses == [Slots -> Content]
Marks == Slots \cup {NoSlot}

(* Slot a is the first that weapon w can shoot from. *)
IsFirst(u, w, a) ==
  \/ a = NoSlot /\ \A s \in Slots : ~Shoots(w, u[s])
  \/ /\ a \in Slots /\ Shoots(w, u[a])
     /\ \A s \in Slots : s < a => ~Shoots(w, u[s])

(* No stack of 0 passes for ammunition: a shot that empties the active     *)
(* slot could not be told from one that does not.                          *)
Clean(u) == \A s \in Slots : ~Hollow(u[s])

(* The slots u and the active slot a are in order, as far as g asks for it. *)
Kept(g, u, a) ==
  /\ u \in Uses /\ a \in Marks
  /\ g => Clean(u) /\ (~worn.isEmpty => IsFirst(u, worn.weapon, a))

Inv == TypeOK /\ Kept(tracked, use, active)

(* A nonempty set of naturals has a least element, which Min returns. *)
LEMMA LeastNatural ==
  ASSUME NEW T \in SUBSET Nat, T # {}
  PROVE  Min(T) \in T /\ \A y \in T : Min(T) <= y
<1>1. PICK x \in T : \A y \in T : ~(<<y, x>> \in OpToRel(<, Nat))
  BY WFMin, NatLessThanWellFounded
<1>2. \A y \in T : ~(y < x)
  BY <1>1 DEF OpToRel
<1>3. \E z \in T : \A y \in T : z =< y
  BY <1>2
<1>. QED  BY <1>3, Zenon DEF Min

(* Slots are naturals below NoSlot. *)
LEMMA SlotTypes ==
  /\ Slots \in SUBSET Nat
  /\ \A s \in Slots : s \in Nat /\ s < NoSlot /\ s # NoSlot
  /\ NoSlot \in Nat
  /\ UseSlots \in Nat /\ \A n \in Nat : n < UseSlots => n \in Slots
BY SlotAssumption DEF Slots, NoSlot

(* The smaller of two numbers. *)
LEMMA MinOfTwo ==
  ASSUME NEW x \in Nat, NEW y \in Nat
  PROVE  Min({x, y}) \in {x, y} /\ Min({x, y}) <= x /\ Min({x, y}) <= y
<1>1. {x, y} \in SUBSET Nat /\ {x, y} # {}
  OBVIOUS
<1>2. Min({x, y}) \in {x, y} /\ \A z \in {x, y} : Min({x, y}) <= z
  BY <1>1, LeastNatural
<1>. QED  BY <1>2

(* What the loops that look for ammunition find. *)
LEMMA FirstFromFinds ==
  ASSUME NEW u, NEW w, NEW i
  PROVE  \/ /\ FirstFrom(u, w, i) = NoSlot
            /\ \A s \in Slots : s >= i => ~Shoots(w, u[s])
         \/ /\ FirstFrom(u, w, i) \in Slots /\ FirstFrom(u, w, i) >= i
            /\ Shoots(w, u[FirstFrom(u, w, i)])
            /\ \A s \in Slots : s >= i /\ s < FirstFrom(u, w, i) => ~Shoots(w, u[s])
<1>. DEFINE good == {s \in Slots : s >= i /\ Shoots(w, u[s])}
<1>1. FirstFrom(u, w, i) = IF good = {} THEN NoSlot ELSE Min(good)
  BY Zenon DEF FirstFrom
<1>2. CASE good = {}
  BY <1>1, <1>2
<1>3. CASE good # {}
  <2>1. good \in SUBSET Nat
    BY SlotTypes
  <2>. HIDE DEF good
  <2>2. Min(good) \in good /\ \A y \in good : Min(good) <= y
    BY <1>3, <2>1, LeastNatural
  <2>3. FirstFrom(u, w, i) = Min(good)
    BY <1>1, <1>3
  <2>4. Min(good) \in Slots /\ Min(good) >= i /\ Shoots(w, u[Min(good)])
    BY <2>2 DEF good
  <2>5. \A s \in Slots : s >= i /\ s < Min(good) => ~Shoots(w, u[s])
    <3>. SUFFICES ASSUME NEW s \in Slots, s >= i, s < Min(good), Shoots(w, u[s]) PROVE FALSE
      OBVIOUS
    <3>1. s \in good
      BY DEF good
    <3>2. Min(good) <= s /\ s \in Nat /\ Min(good) \in Nat
      BY <2>2, <2>4, <3>1, SlotTypes
    <3>. QED  BY <3>2
  <2>. QED  BY <2>3, <2>4, <2>5, Zenon
<1>. QED  BY <1>2, <1>3

(* The search from slot 0 finds the first slot and no other. *)
LEMMA FirstIs ==
  ASSUME NEW u, NEW w, NEW a
  PROVE  a = FirstFrom(u, w, 0) <=> IsFirst(u, w, a)
<1>. DEFINE f == FirstFrom(u, w, 0)
<1>1. IsFirst(u, w, f)
  <2>1. \/ f = NoSlot /\ \A s \in Slots : s >= 0 => ~Shoots(w, u[s])
        \/ /\ f \in Slots /\ Shoots(w, u[f])
           /\ \A s \in Slots : s >= 0 /\ s < f => ~Shoots(w, u[s])
    BY FirstFromFinds, Zenon
  <2>2. \A s \in Slots : s >= 0
    BY SlotTypes
  <2>. HIDE DEF f
  <2>. QED  BY <2>1, <2>2, Zenon DEF IsFirst
<1>2. ASSUME NEW x, NEW y, IsFirst(u, w, x), IsFirst(u, w, y) PROVE x = y
  <2>1. CASE x \in Slots /\ y \in Slots
    <3>1. ~(x < y) /\ ~(y < x)
      BY <1>2, <2>1, SlotTypes DEF IsFirst
    <3>. QED  BY <2>1, <3>1, SlotTypes
  <2>. QED  BY <1>2, <2>1, SlotTypes DEF IsFirst
<1>. HIDE DEF f
<1>3. a = f <=> IsFirst(u, w, a)
  BY <1>1, <1>2
<1>. QED  BY <1>3, Zenon DEF f

(* A change that no slot's fitness depends on. *)
LEMMA SameFirst ==
  ASSUME NEW u, NEW w, NEW a, IsFirst(u, w, a), NEW u2,
         \A s \in Slots : Shoots(w, u2[s]) <=> Shoots(w, u[s])
  PROVE  IsFirst(u2, w, a)
BY DEF IsFirst

(* Slot p may have become fit: Earlier finds out. *)
LEMMA EarlierFirst ==
  ASSUME NEW u, NEW w, NEW a \in Marks, IsFirst(u, w, a), NEW u2, NEW p \in Slots,
         \A s \in Slots : s # p => u2[s] = u[s],
         Shoots(w, u[p]) => Shoots(w, u2[p])
  PROVE  IsFirst(u2, w, Earlier(u2, w, p, a)) /\ Earlier(u2, w, p, a) \in Marks
<1>1. p \in Nat /\ a \in Nat /\ p < NoSlot
  BY SlotTypes DEF Marks
<1>2. CASE p < a /\ Shoots(w, u2[p])
  <2>1. \A s \in Slots : s < p => ~Shoots(w, u2[s])
    <3>. SUFFICES ASSUME NEW s \in Slots, s < p PROVE ~Shoots(w, u2[s])
      OBVIOUS
    <3>1. s \in Nat /\ s < a /\ s # p /\ s < NoSlot
      BY <1>1, <1>2, SlotTypes
    <3>2. ~Shoots(w, u[s])
      BY <3>1 DEF IsFirst
    <3>. QED  BY <3>1, <3>2
  <2>2. IsFirst(u2, w, p)
    BY <1>2, <2>1 DEF IsFirst
  <2>. QED  BY <1>2, <2>2 DEF Earlier, Marks
<1>3. CASE ~(p < a /\ Shoots(w, u2[p]))
  <2>1. Earlier(u2, w, p, a) = a
    BY <1>3 DEF Earlier
  <2>2. CASE a = NoSlot
    <3>1. ~Shoots(w, u2[p])
      BY <1>1, <1>3, <2>2
    <3>2. \A s \in Slots : ~Shoots(w, u[s])
      BY <2>2, SlotTypes DEF IsFirst
    <3>. QED  BY <2>1, <2>2, <3>1, <3>2 DEF IsFirst
  <2>3. CASE a \in Slots
    <3>1. Shoots(w, u[a]) /\ \A s \in Slots : s < a => ~Shoots(w, u[s])
      BY <2>3, SlotTypes DEF IsFirst
    <3>2. Shoots(w, u2[a])
      BY <2>3, <3>1
    <3>3. \A s \in Slots : s < a => ~Shoots(w, u2[s])
      BY <1>3, <3>1
    <3>. QED  BY <2>1, <2>3, <3>2, <3>3 DEF IsFirst
  <2>. QED  BY <2>2, <2>3 DEF Marks
<1>. QED  BY <1>2, <1>3

(* What a slot that is not empty holds. *)
LEMMA ContentTypes ==
  ASSUME NEW x \in Content, x # Empty
  PROVE  /\ x.item \in Item /\ x.quantity \in Nat /\ x.quantity <= SlotMax[x.item]
         /\ SlotMax[x.item] \in Nat /\ x = Stack(x.item, x.quantity)
BY SlotAssumption DEF Content, Stack

(* A stack is content, and not the mark of an empty slot. *)
LEMMA StackTypes ==
  ASSUME NEW i \in Item, NEW n \in Nat
  PROVE  /\ Stack(i, n) # Empty /\ Stack(i, n).item = i /\ Stack(i, n).quantity = n
         /\ n <= SlotMax[i] => Stack(i, n) \in Content
BY EmptyAssumption DEF Content, Stack

LEMMA EmptyContent ==
  ASSUME NEW w
  PROVE  Empty \in Content /\ ~Shoots(w, Empty) /\ ~Hollow(Empty)
BY DEF Content, Shoots, Hollow

-----------------------------------------------------------------------------
(* The loops that take and put stacks *)

Bags == [use : Uses, active : Marks, left : Nat]
Going(g, b) == b \in Bags /\ Kept(g, b.use, b.active)

(* A bag with other slots and another amount. *)
LEMMA NewBag ==
  ASSUME NEW g, NEW b \in Bags, NEW u, NEW n \in Nat, Kept(g, u, b.active)
  PROVE  Going(g, [b EXCEPT !.use = u, !.left = n])
<1>1. u \in Uses /\ b.active \in Marks
  BY DEF Kept
<1>2. [b EXCEPT !.use = u, !.left = n] \in Bags
  BY <1>1 DEF Bags
<1>3. /\ [b EXCEPT !.use = u, !.left = n].use = u
      /\ [b EXCEPT !.use = u, !.left = n].active = b.active
  BY <1>1 DEF Bags
<1>. QED  BY <1>2, <1>3, Zenon DEF Going

(* Another amount in one stack. *)
LEMMA NewAmount ==
  ASSUME NEW u \in Uses, NEW s \in Slots, u[s] # Empty, NEW n \in Nat, n <= SlotMax[u[s].item]
  PROVE  /\ [u EXCEPT ![s].quantity = n] = [u EXCEPT ![s] = Stack(u[s].item, n)]
         /\ [u EXCEPT ![s].quantity = n] \in Uses
         /\ [u EXCEPT ![s].quantity = n][s] = Stack(u[s].item, n)
         /\ \A t \in Slots : t # s => [u EXCEPT ![s].quantity = n][t] = u[t]
<1>1. u[s] \in Content
  BY DEF Uses
<1>2. u[s] = Stack(u[s].item, u[s].quantity) /\ u[s].item \in Item
  BY <1>1, ContentTypes
<1>3. [u[s] EXCEPT !.quantity = n] = Stack(u[s].item, n)
  BY <1>2 DEF Stack
<1>4. Stack(u[s].item, n) \in Content
  BY <1>2, StackTypes
<1>5. [u EXCEPT ![s].quantity = n] = [u EXCEPT ![s] = Stack(u[s].item, n)]
  BY <1>3, Zenon
<1>. QED  BY <1>4, <1>5 DEF Uses

(* One turn of the loop that takes: the types stay. *)
LEMMA TakeTurn ==
  ASSUME NEW i \in Item, NEW b, Going(FALSE, b), NEW s \in Slots
  PROVE  Going(FALSE, TakeFrom(i, b, s))
<1>1. b \in Bags /\ b.use \in Uses /\ b.use[s] \in Content /\ b.left \in Nat /\ b.active \in Marks
  BY DEF Going, Bags, Uses
<1>2. CASE b.left = 0 \/ ~Holds(b.use[s], i)
  BY <1>2 DEF TakeFrom
<1>3. CASE b.left # 0 /\ Holds(b.use[s], i)
  <2>. DEFINE x == b.use[s]
  <2>1. /\ x.item \in Item /\ x.quantity \in Nat /\ x.quantity <= SlotMax[x.item]
        /\ SlotMax[x.item] \in Nat /\ x # Empty
    BY <1>1, <1>3, ContentTypes DEF Holds
  <2>2. CASE x.quantity > b.left
    <3>. DEFINE n == x.quantity - b.left
                u == [b.use EXCEPT ![s].quantity = n]
    <3>1. TakeFrom(i, b, s) = [b EXCEPT !.use = u, !.left = 0]
      BY <1>3, <2>2, Zenon DEF TakeFrom
    <3>2. n \in Nat /\ n <= SlotMax[x.item]
      BY <1>1, <2>1, <2>2
    <3>. HIDE DEF n
    <3>3. u \in Uses
      BY <1>1, <2>1, <3>2, NewAmount
    <3>. HIDE DEF u
    <3>4. Kept(FALSE, u, b.active)
      BY <1>1, <3>3 DEF Kept
    <3>5. b \in Bags /\ 0 \in Nat
      BY <1>1
    <3>6. Going(FALSE, [b EXCEPT !.use = u, !.left = 0])
      BY <3>4, <3>5, NewBag, Zenon
    <3>. QED  BY <3>1, <3>6, Zenon
  <2>3. CASE ~(x.quantity > b.left)
    <3>. DEFINE n == b.left - x.quantity
                u == [b.use EXCEPT ![s] = Empty]
    <3>1. TakeFrom(i, b, s) = [b EXCEPT !.use = u, !.left = n]
      BY <1>3, <2>3, Zenon DEF TakeFrom
    <3>2. n \in Nat
      BY <1>1, <2>1, <2>3
    <3>3. u \in Uses
      BY <1>1, EmptyContent DEF Uses
    <3>. HIDE DEF n, u
    <3>4. Kept(FALSE, u, b.active)
      BY <1>1, <3>3 DEF Kept
    <3>5. Going(FALSE, [b EXCEPT !.use = u, !.left = n])
      BY <1>1, <3>2, <3>4, NewBag, Zenon
    <3>. QED  BY <3>1, <3>5, Zenon
  <2>. QED  BY <2>2, <2>3
<1>. QED  BY <1>2, <1>3

(* A stack of which there is still some shoots as before, unless its items *)
(* are counted.                                                            *)
LEMMA AmountKept ==
  ASSUME NEW g \in BOOLEAN, NEW u, NEW a, Kept(g, u, a), NEW s \in Slots, u[s] # Empty,
         u[s].item \notin Rechargeable, NEW n \in Nat, n > 0, n <= SlotMax[u[s].item]
  PROVE  Kept(g, [u EXCEPT ![s].quantity = n], a)
<1>. DEFINE u2 == [u EXCEPT ![s].quantity = n]
            i == u[s].item
<1>1. u \in Uses /\ u[s] \in Content /\ i \in Item
  BY ContentTypes DEF Kept, Uses
<1>2. /\ u2 \in Uses /\ u2[s] = Stack(i, n)
      /\ \A t \in Slots : t # s => u2[t] = u[t]
  <2>1. u \in Uses
    BY <1>1
  <2>2. u2 \in Uses
    BY <2>1, NewAmount, Zenon
  <2>3. u2[s] = Stack(i, n)
    BY <2>1, NewAmount, ZenonT(40)
  <2>4. \A t \in Slots : t # s => u2[t] = u[t]
    BY <2>1
  <2>. QED  BY <2>2, <2>3, <2>4
<1>3. Stack(i, n) # Empty /\ Stack(i, n).item = i /\ Stack(i, n).quantity = n
  BY <1>1, StackTypes
<1>. HIDE DEF u2
<1>4. ~Hollow(u2[s])
  BY <1>2, <1>3 DEF Hollow
<1>5. \A w : Shoots(w, u2[s]) <=> Shoots(w, u[s])
  BY <1>2, <1>3 DEF Shoots
<1>6. Clean(u) => Clean(u2)
  BY <1>2, <1>4 DEF Clean
<1>7. IsFirst(u, worn.weapon, a) => IsFirst(u2, worn.weapon, a)
  <2>1. \A t \in Slots : Shoots(worn.weapon, u2[t]) <=> Shoots(worn.weapon, u[t])
    BY <1>2, <1>5
  <2>. QED  BY <2>1, SameFirst
<1>8. Kept(g, u2, a)
  BY <1>2, <1>6, <1>7 DEF Kept
<1>. QED  BY <1>8 DEF u2

(* One turn of the loop that fills up stacks. *)
LEMMA UpTurn ==
  ASSUME NEW g \in BOOLEAN, NEW i \in Item \ Rechargeable, NEW b, Going(g, b), NEW s \in Slots
  PROVE  Going(g, FillUp(i, b, s))
<1>1. /\ b \in Bags /\ b.use \in Uses /\ b.use[s] \in Content /\ b.left \in Nat
      /\ Kept(g, b.use, b.active)
  BY DEF Going, Bags, Uses
<1>2. CASE b.left = 0 \/ ~Holds(b.use[s], i)
  BY <1>2 DEF FillUp
<1>3. CASE b.left # 0 /\ Holds(b.use[s], i)
  <2>. DEFINE x == b.use[s]
  <2>1. /\ x.item = i /\ x.quantity \in Nat /\ x.quantity <= SlotMax[i]
        /\ SlotMax[i] \in Nat /\ SlotMax[i] > 0 /\ x # Empty
    BY <1>1, <1>3, ContentTypes, SlotAssumption DEF Holds
  <2>2. CASE x.quantity > SlotMax[i] - b.left
    <3>. DEFINE n == SlotMax[i]
                left == b.left - (SlotMax[i] - x.quantity)
                u == [b.use EXCEPT ![s].quantity = n]
    <3>1. FillUp(i, b, s) = [b EXCEPT !.use = u, !.left = left]
      BY <1>3, <2>2, Zenon DEF FillUp
    <3>2. left \in Nat
      BY <1>1, <2>1, <2>2
    <3>3. Kept(g, u, b.active)
      BY <1>1, <2>1, AmountKept
    <3>. HIDE DEF u, left
    <3>4. Going(g, [b EXCEPT !.use = u, !.left = left])
      BY <1>1, <3>2, <3>3, NewBag, Zenon
    <3>. QED  BY <3>1, <3>4, Zenon
  <2>3. CASE ~(x.quantity > SlotMax[i] - b.left)
    <3>. DEFINE n == x.quantity + b.left
                u == [b.use EXCEPT ![s].quantity = n]
    <3>1. FillUp(i, b, s) = [b EXCEPT !.use = u, !.left = 0]
      BY <1>3, <2>3, Zenon DEF FillUp
    <3>2. n \in Nat /\ n > 0 /\ n <= SlotMax[x.item]
      BY <1>1, <1>3, <2>1, <2>3
    <3>. HIDE DEF n
    <3>3. Kept(g, u, b.active)
      BY <1>1, <2>1, <3>2, AmountKept
    <3>. HIDE DEF u
    <3>4. b \in Bags /\ 0 \in Nat
      BY <1>1
    <3>5. Going(g, [b EXCEPT !.use = u, !.left = 0])
      BY <3>3, <3>4, NewBag, Zenon
    <3>. QED  BY <3>1, <3>5, Zenon
  <2>. QED  BY <2>2, <2>3
<1>. QED  BY <1>2, <1>3

(* A stack that is put into an empty slot may become the active one. *)
LEMMA PutKept ==
  ASSUME NEW g \in BOOLEAN, NEW u, NEW a, Kept(g, u, a), NEW s \in Slots, u[s] = Empty,
         NEW i \in Item, NEW n \in Nat, n > 0, n <= SlotMax[i], NEW a2,
         LET u2 == [u EXCEPT ![s] = Stack(i, n)]
         IN  a2 = Earlier(u2, worn.weapon, s, a) \/ (worn.isEmpty /\ a2 = a)
  PROVE  Kept(g, [u EXCEPT ![s] = Stack(i, n)], a2)
<1>. DEFINE u2 == [u EXCEPT ![s] = Stack(i, n)]
<1>1. Stack(i, n) \in Content /\ ~Hollow(Stack(i, n))
  BY StackTypes DEF Hollow
<1>2. /\ u2 \in Uses /\ u2[s] = Stack(i, n) /\ \A t \in Slots : t # s => u2[t] = u[t]
  BY <1>1 DEF Kept, Uses
<1>3. a2 = Earlier(u2, worn.weapon, s, a) \/ (worn.isEmpty /\ a2 = a)
  OBVIOUS
<1>. HIDE DEF u2
<1>4. a2 \in Marks
  BY <1>3 DEF Kept, Earlier, Marks
<1>5. Clean(u) => Clean(u2)
  BY <1>1, <1>2 DEF Clean
<1>6. IsFirst(u, worn.weapon, a) /\ ~worn.isEmpty => IsFirst(u2, worn.weapon, a2)
  <2>. SUFFICES ASSUME IsFirst(u, worn.weapon, a), ~worn.isEmpty
                PROVE  IsFirst(u2, worn.weapon, a2)
    OBVIOUS
  <2>1. ~Shoots(worn.weapon, u[s])
    BY EmptyContent
  <2>2. a \in Marks
    BY DEF Kept
  <2>3. IsFirst(u2, worn.weapon, Earlier(u2, worn.weapon, s, a))
    BY <1>2, <2>1, <2>2, EarlierFirst
  <2>. QED  BY <1>3, <2>3
<1>7. Kept(g, u2, a2)
  BY <1>2, <1>4, <1>5, <1>6 DEF Kept
<1>. QED  BY <1>7 DEF u2

(* One turn of the loop that fills empty slots. *)
LEMMA EmptyTurn ==
  ASSUME NEW g \in BOOLEAN, NEW i \in Item, NEW b, Going(g, b), NEW s \in Slots
  PROVE  Going(g, FillEmpty(i, b, s))
<1>1. /\ b \in Bags /\ b.use \in Uses /\ b.left \in Nat /\ Kept(g, b.use, b.active)
  BY DEF Going, Bags
<1>2. CASE b.left = 0 \/ b.use[s] # Empty
  BY <1>2 DEF FillEmpty
<1>3. CASE b.left # 0 /\ b.use[s] = Empty
  <2>. DEFINE n == Min({b.left, SlotMax[i]})
              u == [b.use EXCEPT ![s] = Stack(i, n)]
              a == Earlier(u, worn.weapon, s, b.active)
              left == b.left - n
  <2>1. FillEmpty(i, b, s) = [use |-> u, active |-> a, left |-> left]
    BY <1>3, Zenon DEF FillEmpty
  <2>2. SlotMax[i] \in Nat /\ SlotMax[i] > 0
    BY SlotAssumption
  <2>3. n \in {b.left, SlotMax[i]} /\ n <= b.left /\ n <= SlotMax[i]
    BY <1>1, <2>2, MinOfTwo
  <2>. HIDE DEF n
  <2>4. n \in Nat /\ n > 0 /\ left \in Nat
    BY <1>1, <1>3, <2>2, <2>3
  <2>5. Kept(g, u, a)
    BY <1>1, <1>3, <2>3, <2>4, PutKept
  <2>. HIDE DEF u, a, left
  <2>6. [use |-> u, active |-> a, left |-> left] \in Bags
    BY <2>4, <2>5 DEF Kept, Bags
  <2>7. Going(g, [use |-> u, active |-> a, left |-> left])
    BY <2>5, <2>6 DEF Going
  <2>. QED  BY <2>1, <2>7, Zenon
<1>. QED  BY <1>2, <1>3

(* The loops, as one: the three over bags of items, and the one that adds  *)
(* up in Total (i being the slots and the item then, and b the sum).       *)
Turn(kind, i, b, s) ==
  CASE kind = "take"  -> TakeFrom(i, b, s)
    [] kind = "up"    -> FillUp(i, b, s)
    [] kind = "empty" -> FillEmpty(i, b, s)
    [] kind = "add"   -> b + Amount(i[1][s], i[2])

(* The turns of a loop over the first m slots, counted. *)
Turns(f, m, kind, i, b) ==
  f = [n \in 0..m |-> IF n = 0 THEN b ELSE Turn(kind, i, f[n - 1], n - 1)]

LEMMA TurnsExist ==
  ASSUME NEW kind, NEW i, NEW b, NEW l \in Nat
  PROVE  \E f : Turns(f, l, kind, i, b)
<1>. DEFINE Missing == {m \in Nat : ~ \E f : Turns(f, m, kind, i, b)}
<1>. SUFFICES ASSUME Missing # {} PROVE FALSE
  OBVIOUS
<1>1. PICK m \in Missing : \A y \in Missing : m <= y
  <2>1. Missing \in SUBSET Nat
    OBVIOUS
  <2>. HIDE DEF Missing
  <2>. QED  BY <2>1, LeastNatural
<1>2. m # 0
  <2>. DEFINE f == [n \in 0..0 |-> b]
  <2>1. f = [n \in 0..0 |-> IF n = 0 THEN b ELSE Turn(kind, i, f[n - 1], n - 1)]
    OBVIOUS
  <2>2. Turns(f, 0, kind, i, b)
    BY <2>1, Zenon DEF Turns
  <2>. QED  BY <2>2
<1>3. m - 1 \in Nat /\ m - 1 \notin Missing
  BY <1>1, <1>2
<1>4. PICK f : Turns(f, m - 1, kind, i, b)
  BY <1>3
<1>5. f = [n \in 0..(m - 1) |-> IF n = 0 THEN b ELSE Turn(kind, i, f[n - 1], n - 1)]
  BY <1>4, Zenon DEF Turns
<1>. DEFINE h == [n \in 0..m |-> IF n = m THEN Turn(kind, i, f[m - 1], m - 1) ELSE f[n]]
<1>6. h = [n \in 0..m |-> IF n = 0 THEN b ELSE Turn(kind, i, h[n - 1], n - 1)]
  <2>1. ASSUME NEW n \in 0..m
        PROVE  h[n] = IF n = 0 THEN b ELSE Turn(kind, i, h[n - 1], n - 1)
    <3>1. CASE n = 0
      BY <1>2, <1>3, <1>5, <3>1
    <3>2. CASE n = m
      BY <1>2, <1>3, <3>2
    <3>3. CASE n # 0 /\ n # m
      <4>1. n \in 0..(m - 1) /\ n - 1 \in 0..m /\ n - 1 # m
        BY <3>3
      <4>2. h[n] = f[n] /\ h[n - 1] = f[n - 1]
        BY <3>3, <4>1
      <4>3. f[n] = Turn(kind, i, f[n - 1], n - 1)
        BY <1>5, <3>3, <4>1
      <4>. QED  BY <3>3, <4>2, <4>3
    <3>. QED  BY <3>1, <3>2, <3>3
  <2>. DEFINE k == [n \in 0..m |-> IF n = 0 THEN b ELSE Turn(kind, i, h[n - 1], n - 1)]
  <2>2. \A n \in 0..m : h[n] = k[n]
    <3>. HIDE DEF h
    <3>. QED  BY <2>1
  <2>. QED  BY <2>2
<1>7. Turns(h, m, kind, i, b)
  <2>. HIDE DEF h
  <2>. QED  BY <1>6, Zenon DEF Turns
<1>. QED  BY <1>7

(* A loop ends in a set that each of its turns stays in. *)
LEMMA LoopStays ==
  ASSUME NEW S, NEW kind, NEW i, NEW b \in S,
         ASSUME NEW x \in S, NEW s \in Slots PROVE Turn(kind, i, x, s) \in S,
         NEW f, Turns(f, UseSlots, kind, i, b)
  PROVE  f[UseSlots] \in S
<1>3. f = [n \in 0..UseSlots |-> IF n = 0 THEN b ELSE Turn(kind, i, f[n - 1], n - 1)]
  BY Zenon DEF Turns
<1>. DEFINE Bad == {m \in 0..UseSlots : f[m] \notin S}
<1>. SUFFICES ASSUME Bad # {} PROVE FALSE
  BY SlotTypes
<1>4. Bad \in SUBSET Nat
  BY SlotTypes
<1>5. PICK m \in Bad : \A y \in Bad : m <= y
  <2>. HIDE DEF Bad
  <2>. QED  BY <1>4, LeastNatural
<1>6. m # 0
  BY <1>3, <1>5, SlotTypes
<1>7. m - 1 \in 0..UseSlots /\ m - 1 \notin Bad /\ m - 1 \in Slots
      /\ f[m] = Turn(kind, i, f[m - 1], m - 1)
  <2>1. m \in 0..UseSlots /\ m - 1 \in Nat /\ m - 1 \in 0..UseSlots
    BY <1>5, <1>6, SlotTypes
  <2>2. m - 1 \notin Bad
    BY <1>5, <2>1
  <2>3. m - 1 \in Slots
    BY <2>1, SlotTypes
  <2>4. f[m] = Turn(kind, i, f[m - 1], m - 1)
    BY <1>3, <1>6, <2>1
  <2>. QED  BY <2>1, <2>2, <2>3, <2>4
<1>8. f[m - 1] \in S
  BY <1>7
<1>9. f[m] \in S
  BY <1>7, <1>8
<1>. QED  BY <1>5, <1>9

LEMMA LoopKeeps ==
  ASSUME NEW g \in BOOLEAN, NEW kind, NEW i, NEW b, Going(g, b),
         ASSUME NEW x, Going(g, x), NEW s \in Slots PROVE Going(g, Turn(kind, i, x, s)),
         NEW f, Turns(f, UseSlots, kind, i, b)
  PROVE  Going(g, f[UseSlots])
<1>. DEFINE S == {x \in Bags : Going(g, x)}
<1>1. \A x : x \in S <=> Going(g, x)
  BY DEF Going
<1>. HIDE DEF S
<1>2. ASSUME NEW x \in S, NEW s \in Slots PROVE Turn(kind, i, x, s) \in S
  BY <1>1
<1>3. b \in S
  BY <1>1
<1>4. f[UseSlots] \in S
  BY <1>2, <1>3, LoopStays
<1>. QED  BY <1>1, <1>4

LEMMA TakeKeeps ==
  ASSUME NEW i \in Item, NEW b, Going(FALSE, b)
  PROVE  Going(FALSE, Take(i, b))
<1>1. ASSUME NEW x, Going(FALSE, x), NEW s \in Slots
      PROVE  Going(FALSE, Turn("take", i, x, s))
  BY <1>1, TakeTurn DEF Turn
<1>. DEFINE c == CHOOSE f : f = [n \in 0..UseSlots |-> IF n = 0 THEN b ELSE TakeFrom(i, f[n - 1], n - 1)]
<1>2. Take(i, b) = c[UseSlots]
  BY Zenon DEF Take
<1>3. ASSUME NEW f
      PROVE  Turns(f, UseSlots, "take", i, b)
               <=> f = [n \in 0..UseSlots |-> IF n = 0 THEN b ELSE TakeFrom(i, f[n - 1], n - 1)]
  <2>. DEFINE h == [n \in 0..UseSlots |-> IF n = 0 THEN b ELSE Turn("take", i, f[n - 1], n - 1)]
              k == [n \in 0..UseSlots |-> IF n = 0 THEN b ELSE TakeFrom(i, f[n - 1], n - 1)]
  <2>1. \A n \in 0..UseSlots : Turn("take", i, f[n - 1], n - 1) = TakeFrom(i, f[n - 1], n - 1)
    BY DEF Turn
  <2>2. h = k
    BY <2>1
  <2>3. Turns(f, UseSlots, "take", i, b) <=> f = h
    BY Zenon DEF Turns
  <2>. QED  BY <2>2, <2>3, Zenon
<1>4. Turns(c, UseSlots, "take", i, b)
  <2>1. \E f : Turns(f, UseSlots, "take", i, b)
    BY TurnsExist, SlotTypes
  <2>. QED  BY <2>1, <1>3, Zenon
<1>. HIDE DEF c
<1>5. Going(FALSE, c[UseSlots])
  BY <1>1, <1>4, LoopKeeps
<1>. QED  BY <1>2, <1>5, Zenon

LEMMA FillStacksStays ==
  ASSUME NEW S, NEW i \in Item, NEW b \in S,
         ASSUME NEW x \in S, NEW s \in Slots, i \notin Rechargeable PROVE FillUp(i, x, s) \in S
  PROVE  FillStacks(i, b) \in S
<1>1. CASE i \in Rechargeable
  BY <1>1 DEF FillStacks
<1>2. CASE i \notin Rechargeable
  <2>1. ASSUME NEW x \in S, NEW s \in Slots
        PROVE  Turn("up", i, x, s) \in S
    BY <1>2, <2>1 DEF Turn
  <2>. DEFINE c == CHOOSE f : f = [n \in 0..UseSlots |-> IF n = 0 THEN b ELSE FillUp(i, f[n - 1], n - 1)]
  <2>2. FillStacks(i, b) = c[UseSlots]
    BY <1>2, Zenon DEF FillStacks
  <2>3. ASSUME NEW f
        PROVE  Turns(f, UseSlots, "up", i, b)
                 <=> f = [n \in 0..UseSlots |-> IF n = 0 THEN b ELSE FillUp(i, f[n - 1], n - 1)]
    <3>. DEFINE h == [n \in 0..UseSlots |-> IF n = 0 THEN b ELSE Turn("up", i, f[n - 1], n - 1)]
                k == [n \in 0..UseSlots |-> IF n = 0 THEN b ELSE FillUp(i, f[n - 1], n - 1)]
    <3>1. \A n \in 0..UseSlots : Turn("up", i, f[n - 1], n - 1) = FillUp(i, f[n - 1], n - 1)
      BY DEF Turn
    <3>2. h = k
      BY <3>1
    <3>3. Turns(f, UseSlots, "up", i, b) <=> f = h
      BY Zenon DEF Turns
    <3>. QED  BY <3>2, <3>3, Zenon
  <2>4. Turns(c, UseSlots, "up", i, b)
    <3>1. \E f : Turns(f, UseSlots, "up", i, b)
      BY TurnsExist, SlotTypes
    <3>. QED  BY <3>1, <2>3, Zenon
  <2>. HIDE DEF c
  <2>5. c[UseSlots] \in S
    BY <2>1, <2>4, LoopStays
  <2>. QED  BY <2>2, <2>5, Zenon
<1>. QED  BY <1>1, <1>2

LEMMA FillStacksKeeps ==
  ASSUME NEW g \in BOOLEAN, NEW i \in Item, NEW b, Going(g, b)
  PROVE  Going(g, FillStacks(i, b))
<1>. DEFINE S == {x \in Bags : Going(g, x)}
<1>1. \A x : x \in S <=> Going(g, x)
  BY DEF Going
<1>. HIDE DEF S
<1>2. ASSUME NEW x \in S, NEW s \in Slots, i \notin Rechargeable PROVE FillUp(i, x, s) \in S
  BY <1>1, <1>2, UpTurn
<1>3. b \in S
  BY <1>1
<1>4. FillStacks(i, b) \in S
  BY <1>2, <1>3, FillStacksStays
<1>. QED  BY <1>1, <1>4

(* The slots as they are, with an amount to take or put. *)
LEMMA BagGoing ==
  ASSUME Inv, NEW g \in BOOLEAN, g => tracked, NEW n \in Nat
  PROVE  Going(g, Bag(n)) /\ Bag(n).use = use /\ Bag(n).active = active /\ Bag(n).left = n
<1>1. Kept(g, use, active)
  BY DEF Inv, Kept
<1>2. Bag(n) \in Bags
  BY <1>1 DEF Bag, Bags, Kept
<1>3. Bag(n).use = use /\ Bag(n).active = active /\ Bag(n).left = n
  BY DEF Bag
<1>. QED  BY <1>1, <1>2, <1>3 DEF Going

(* Filling up stacks leaves the active slot and the empty slots alone, and *)
(* puts something of what there is.                                        *)
LEMMA FillStacksLeaves ==
  ASSUME Inv, NEW i \in Item, NEW n \in Nat
  PROVE  LET b == FillStacks(i, Bag(n))
         IN  /\ Going(tracked, b) /\ b.active = active /\ b.left <= n
             /\ \A t \in Slots : use[t] = Empty => b.use[t] = Empty
             /\ i \in Rechargeable => b.left = n
<1>. DEFINE S == {x \in Bags : /\ x.active = active /\ x.left <= n
                              /\ \A t \in Slots : use[t] = Empty => x.use[t] = Empty}
<1>0. tracked \in BOOLEAN
  BY DEF Inv, TypeOK
<1>1. Going(tracked, Bag(n)) /\ Bag(n).use = use /\ Bag(n).active = active /\ Bag(n).left = n
  BY <1>0, BagGoing
<1>2. Going(tracked, FillStacks(i, Bag(n)))
  BY <1>0, <1>1, FillStacksKeeps
<1>3. Bag(n) \in S
  BY <1>1 DEF Going
<1>4. ASSUME NEW x \in S, NEW s \in Slots, i \notin Rechargeable PROVE FillUp(i, x, s) \in S
  <2>1. Going(FALSE, x)
    BY DEF Going, Bags, Kept
  <2>2. Going(FALSE, FillUp(i, x, s))
    BY <1>4, <2>1, UpTurn
  <2>3. CASE x.left = 0 \/ ~Holds(x.use[s], i)
    BY <2>3 DEF FillUp
  <2>4. CASE x.left # 0 /\ Holds(x.use[s], i)
    <3>. DEFINE full == SlotMax[i]
    <3>1. x.use \in Uses /\ x.left \in Nat /\ x.left <= n /\ x.use[s] # Empty /\ x.use[s] \in Content
      BY <2>4 DEF Bags, Uses, Holds
    <3>2. x.use[s].quantity \in Nat /\ x.use[s].quantity <= full /\ full \in Nat
      BY <2>4, <3>1, ContentTypes DEF Holds
    <3>3. PICK u, m : /\ FillUp(i, x, s) = [x EXCEPT !.use = u, !.left = m]
                      /\ m \in Nat /\ m <= n
                      /\ \A t \in Slots : t # s => u[t] = x.use[t]
      <4>1. CASE x.use[s].quantity > full - x.left
        <5>. DEFINE u == [x.use EXCEPT ![s].quantity = full]
                    m == x.left - (full - x.use[s].quantity)
        <5>1. FillUp(i, x, s) = [x EXCEPT !.use = u, !.left = m]
          BY <2>4, <4>1, Zenon DEF FillUp
        <5>2. m \in Nat /\ m <= n
          BY <3>1, <3>2, <4>1
        <5>3. \A t \in Slots : t # s => u[t] = x.use[t]
          BY <3>1 DEF Uses
        <5>. HIDE DEF u, m
        <5>. QED  BY <5>1, <5>2, <5>3, Zenon
      <4>2. CASE ~(x.use[s].quantity > full - x.left)
        <5>. DEFINE u == [x.use EXCEPT ![s].quantity = x.use[s].quantity + x.left]
        <5>1. FillUp(i, x, s) = [x EXCEPT !.use = u, !.left = 0]
          BY <2>4, <4>2, Zenon DEF FillUp
        <5>2. 0 \in Nat /\ 0 <= n
          OBVIOUS
        <5>3. \A t \in Slots : t # s => u[t] = x.use[t]
          BY <3>1 DEF Uses
        <5>. HIDE DEF u
        <5>. QED  BY <5>1, <5>2, <5>3, Zenon
      <4>. QED  BY <4>1, <4>2
    <3>4. FillUp(i, x, s) \in Bags
      BY <2>2 DEF Going
    <3>5. /\ FillUp(i, x, s).active = x.active /\ FillUp(i, x, s).left = m
          /\ FillUp(i, x, s).use = u
      BY <3>3 DEF Bags
    <3>6. use[s] # Empty
      BY <3>1
    <3>7. \A t \in Slots : use[t] = Empty => u[t] = Empty
      BY <3>3, <3>6
    <3>. QED  BY <3>3, <3>4, <3>5, <3>7
  <2>. QED  BY <2>3, <2>4
<1>5. FillStacks(i, Bag(n)) \in S
  <2>. HIDE DEF S
  <2>. QED  BY <1>3, <1>4, FillStacksStays
<1>6. i \in Rechargeable => FillStacks(i, Bag(n)).left = n
  BY <1>1 DEF FillStacks
<1>. QED  BY <1>2, <1>5, <1>6

LEMMA FillSlotsStays ==
  ASSUME NEW S, NEW i \in Item, NEW b \in S,
         ASSUME NEW x \in S, NEW s \in Slots PROVE FillEmpty(i, x, s) \in S
  PROVE  FillSlots(i, b) \in S
<1>1. ASSUME NEW x \in S, NEW s \in Slots
      PROVE  Turn("empty", i, x, s) \in S
  BY DEF Turn
<1>. DEFINE c == CHOOSE f : f = [n \in 0..UseSlots |-> IF n = 0 THEN b ELSE FillEmpty(i, f[n - 1], n - 1)]
<1>2. FillSlots(i, b) = c[UseSlots]
  BY Zenon DEF FillSlots
<1>3. ASSUME NEW f
      PROVE  Turns(f, UseSlots, "empty", i, b)
               <=> f = [n \in 0..UseSlots |-> IF n = 0 THEN b ELSE FillEmpty(i, f[n - 1], n - 1)]
  <2>. DEFINE h == [n \in 0..UseSlots |-> IF n = 0 THEN b ELSE Turn("empty", i, f[n - 1], n - 1)]
              k == [n \in 0..UseSlots |-> IF n = 0 THEN b ELSE FillEmpty(i, f[n - 1], n - 1)]
  <2>1. \A n \in 0..UseSlots : Turn("empty", i, f[n - 1], n - 1) = FillEmpty(i, f[n - 1], n - 1)
    BY DEF Turn
  <2>2. h = k
    BY <2>1
  <2>3. Turns(f, UseSlots, "empty", i, b) <=> f = h
    BY Zenon DEF Turns
  <2>. QED  BY <2>2, <2>3, Zenon
<1>4. Turns(c, UseSlots, "empty", i, b)
  <2>1. \E f : Turns(f, UseSlots, "empty", i, b)
    BY TurnsExist, SlotTypes
  <2>. QED  BY <2>1, <1>3, Zenon
<1>. HIDE DEF c
<1>5. c[UseSlots] \in S
  BY <1>1, <1>4, LoopStays
<1>. QED  BY <1>2, <1>5, Zenon

LEMMA FillSlotsKeeps ==
  ASSUME NEW g \in BOOLEAN, NEW i \in Item, NEW b, Going(g, b)
  PROVE  Going(g, FillSlots(i, b))
<1>. DEFINE S == {x \in Bags : Going(g, x)}
<1>1. \A x : x \in S <=> Going(g, x)
  BY DEF Going
<1>. HIDE DEF S
<1>2. ASSUME NEW x \in S, NEW s \in Slots PROVE FillEmpty(i, x, s) \in S
  BY <1>1, EmptyTurn
<1>3. b \in S
  BY <1>1
<1>4. FillSlots(i, b) \in S
  BY <1>2, <1>3, FillSlotsStays
<1>. QED  BY <1>1, <1>4

LEMMA NewLeft ==
  ASSUME NEW g, NEW b, Going(g, b), NEW n \in Nat
  PROVE  Going(g, [b EXCEPT !.left = n])
<1>1. /\ [b EXCEPT !.left = n] \in Bags /\ [b EXCEPT !.left = n].use = b.use
      /\ [b EXCEPT !.left = n].active = b.active
  BY DEF Going, Bags
<1>. QED  BY <1>1, Zenon DEF Going

(* An exchange that takes nothing keeps the active slot right; one that    *)
(* takes keeps the types.                                                  *)
LEMMA ExchangeKeeps ==
  ASSUME Inv, NEW g \in BOOLEAN, NEW i \in Item, NEW lost \in Nat, NEW j \in Item,
         NEW got \in Nat, g => tracked /\ lost = 0
  PROVE  LET b == CopiedBack(Exchanged(i, lost, j, got)) IN Kept(g, b.use, b.active)
<1>. DEFINE taken == IF lost = 0 THEN Bag(0) ELSE Take(i, Bag(lost))
            e == Exchanged(i, lost, j, got)
<1>1. Going(g, taken)
  <2>1. CASE lost = 0
    BY <2>1, BagGoing
  <2>2. CASE lost # 0
    <3>1. g = FALSE
      BY <2>2
    <3>2. Going(FALSE, Take(i, Bag(lost)))
      BY BagGoing, TakeKeeps
    <3>. QED  BY <2>2, <3>1, <3>2
  <2>. QED  BY <2>1, <2>2
<1>2. e = IF got = 0 THEN [taken EXCEPT !.left = 0]
          ELSE FillSlots(j, FillStacks(j, [taken EXCEPT !.left = got]))
  BY Zenon DEF Exchanged
<1>. HIDE DEF taken, e
<1>3. Going(g, [taken EXCEPT !.left = 0]) /\ Going(g, [taken EXCEPT !.left = got])
  BY <1>1, NewLeft
<1>4. Going(g, FillSlots(j, FillStacks(j, [taken EXCEPT !.left = got])))
  BY <1>3, FillStacksKeeps, FillSlotsKeeps
<1>5. Going(g, e)
  BY <1>2, <1>3, <1>4
<1>6. Going(g, CopiedBack(e))
  <2>1. e.left \in Nat
    BY <1>5 DEF Going, Bags
  <2>2. Going(g, Bag(e.left))
    BY <2>1, BagGoing
  <2>. QED  BY <1>5, <2>2 DEF CopiedBack
<1>. QED  BY <1>6, Zenon DEF Going, e

-----------------------------------------------------------------------------
(* The steps *)

(* What a step leaves besides the stacks is of its type. *)
Outside ==
  /\ equipment' \in [Places -> Piece \cup {Empty}]
  /\ worn' \in [weapon : Piece, isEmpty : BOOLEAN]
  /\ elsewhere' \in Piece \cup {Empty}
  /\ mesos' \in 0..MaxMesos
  /\ shop' \in BOOLEAN

LEMMA OutsideSame ==
  ASSUME Inv
  PROVE  /\ UNCHANGED equipment => equipment' \in [Places -> Piece \cup {Empty}]
         /\ UNCHANGED worn => worn' \in [weapon : Piece, isEmpty : BOOLEAN]
         /\ UNCHANGED elsewhere => elsewhere' \in Piece \cup {Empty}
         /\ UNCHANGED mesos => mesos' \in 0..MaxMesos
         /\ UNCHANGED shop => shop' \in BOOLEAN
BY DEF Inv, TypeOK

(* The types of a state whose slots and active slot are of their type. *)
LEMMA TypesAfter ==
  ASSUME use' \in Uses, active' \in Marks, Outside, tracked' \in BOOLEAN
  PROVE  TypeOK'
<1>1. ASSUME NEW s \in Slots, use'[s] # Empty
      PROVE  use'[s].item \in Item /\ use'[s].quantity \in 0..SlotMax[use'[s].item]
  <2>1. use'[s] \in Content
    BY DEF Uses
  <2>. QED  BY <1>1, <2>1, ContentTypes
<1>. QED  BY <1>1 DEF TypeOK, Outside, Marks, LowestQuantity

(* A step that keeps what is worn, and keeps the active slot right. *)
LEMMA KeptStep ==
  ASSUME Inv, Kept(tracked, use', active'), Outside, UNCHANGED <<worn, tracked>>
  PROVE  Inv'
<1>1. TypeOK'
  <2>1. tracked' \in BOOLEAN
    BY DEF Inv, TypeOK
  <2>. QED  BY <2>1, TypesAfter DEF Kept
<1>2. Kept(tracked, use, active)'
  BY DEF Kept
<1>. QED  BY <1>1, <1>2 DEF Inv

(* A step after which the active slot may be right or wrong. *)
LEMMA ResyncStep ==
  ASSUME Inv, use' \in Uses, active' \in Marks, Outside, Resync
  PROVE  Inv'
<1>1. tracked' = (/\ active' = (IF worn'.isEmpty THEN NoSlot ELSE FirstFrom(use', worn'.weapon, 0))
                  /\ \A s \in Slots : ~Hollow(use'[s]))
  BY Zenon DEF Resync, Fresh, Expected
<1>2. tracked' \in BOOLEAN
  BY <1>1
<1>3. TypeOK'
  BY <1>2, TypesAfter
<1>4. tracked' => Clean(use')
  BY <1>1 DEF Clean
<1>5. tracked' /\ ~worn'.isEmpty => IsFirst(use', worn'.weapon, active')
  <2>1. tracked' /\ ~worn'.isEmpty => active' = FirstFrom(use', worn'.weapon, 0)
    BY <1>1
  <2>. QED  BY <2>1, FirstIs
<1>6. Kept(tracked, use, active)'
  BY <1>4, <1>5 DEF Kept
<1>. QED  BY <1>3, <1>6 DEF Inv

(* What the loops for ammunition return is an active slot. *)
LEMMA MarkTypes ==
  ASSUME NEW u, NEW w, NEW i
  PROVE  /\ FirstFrom(u, w, i) \in Marks
         /\ \A a \in Marks : FirstFromOr(u, w, i, a) \in Marks
<1>1. FirstFrom(u, w, i) \in Marks
  BY FirstFromFinds DEF Marks
<1>. QED  BY <1>1 DEF FirstFromOr

(* Items are gained, or exchanged. *)
LEMMA GainItemsInv ==
  ASSUME Inv, NEW i \in Item, NEW lost \in Nat, NEW j \in Item, NEW got \in Nat,
         GainItems(i, lost, j, got)
  PROVE  Inv'
<1>. DEFINE b == CopiedBack(Exchanged(i, lost, j, got))
<1>1. use' = b.use /\ active' = b.active /\ UNCHANGED <<gear, mesos, shop>>
      /\ IF lost > 0 THEN Resync ELSE UNCHANGED tracked
  BY Zenon DEF GainItems
<1>2. Outside
  BY <1>1, OutsideSame DEF Outside, gear
<1>3. CASE lost = 0
  <2>1. tracked \in BOOLEAN
    BY DEF Inv, TypeOK
  <2>2. Kept(tracked, b.use, b.active)
    BY <1>3, <2>1, ExchangeKeeps
  <2>3. UNCHANGED <<worn, tracked>>
    BY <1>1, <1>3 DEF gear
  <2>. HIDE DEF b
  <2>. QED  BY <1>1, <1>2, <2>2, <2>3, KeptStep
<1>4. CASE lost # 0
  <2>1. Kept(FALSE, b.use, b.active)
    BY <1>4, ExchangeKeeps
  <2>2. Resync
    BY <1>1, <1>4
  <2>. HIDE DEF b
  <2>. QED  BY <1>1, <1>2, <2>1, <2>2, ResyncStep DEF Kept
<1>. QED  BY <1>3, <1>4

(* A stack is picked up. *)
LEMMA PickUpInv ==
  ASSUME Inv, NEW i \in Item, NEW n \in Nat, n > 0, n <= SlotMax[i], PickUp(i, n)
  PROVE  Inv'
<1>. DEFINE filled == FillStacks(i, Bag(n))
            free == {t \in Slots : use[t] = Empty}
            s == Min(free)
            placed == [filled.use EXCEPT ![s] = Stack(i, filled.left)]
<1>1. UNCHANGED <<gear, mesos, shop, tracked>>
  BY DEF PickUp
<1>2. /\ Kept(tracked, use, active) /\ tracked \in BOOLEAN
  BY DEF Inv, TypeOK
<1>3. Outside /\ UNCHANGED <<worn, tracked>>
  BY <1>1, OutsideSame DEF Outside, gear
<1>4. \/ /\ i \notin Rechargeable /\ filled.left = 0
         /\ use' = filled.use /\ UNCHANGED active
      \/ UNCHANGED bags
      \/ /\ ~(i \notin Rechargeable /\ filled.left = 0)
         /\ free # {} /\ use' = placed
         /\ active' = IF worn.isEmpty THEN active ELSE Earlier(placed, worn.weapon, s, active)
  BY Zenon DEF PickUp
<1>5. /\ Going(tracked, filled) /\ filled.active = active /\ filled.left <= n
      /\ \A t \in Slots : use[t] = Empty => filled.use[t] = Empty
      /\ i \in Rechargeable => filled.left = n
  BY FillStacksLeaves
<1>6. /\ filled \in Bags /\ filled.left \in Nat /\ Kept(tracked, filled.use, active)
  BY <1>5 DEF Going, Bags
<1>7. CASE use' = filled.use /\ UNCHANGED active
  BY <1>3, <1>6, <1>7, KeptStep
<1>8. CASE UNCHANGED bags
  BY <1>2, <1>3, <1>8, KeptStep DEF bags
<1>9. CASE /\ ~(i \notin Rechargeable /\ filled.left = 0)
           /\ free # {} /\ use' = placed
           /\ active' = IF worn.isEmpty THEN active ELSE Earlier(placed, worn.weapon, s, active)
  <2>1. free \in SUBSET Nat
    BY SlotTypes
  <2>2. s \in free
    <3>. HIDE DEF free
    <3>. QED  BY <1>9, <2>1, LeastNatural
  <2>3. s \in Slots /\ filled.use[s] = Empty
    BY <1>5, <2>2
  <2>4. filled.left > 0 /\ filled.left <= SlotMax[i]
    BY <1>5, <1>6, <1>9, SlotAssumption
  <2>. DEFINE l == filled.left
              fu == filled.use
  <2>5. active' = Earlier([fu EXCEPT ![s] = Stack(i, l)], worn.weapon, s, active)
          \/ (worn.isEmpty /\ active' = active)
    BY <1>9
  <2>6. Kept(tracked, fu, active) /\ l \in Nat /\ fu[s] = Empty /\ l > 0 /\ l <= SlotMax[i]
    BY <1>6, <2>3, <2>4
  <2>7. use' = [fu EXCEPT ![s] = Stack(i, l)]
    BY <1>9
  <2>. HIDE DEF free, s, l, fu, filled, placed
  <2>8. Kept(tracked, [fu EXCEPT ![s] = Stack(i, l)], active')
    BY <1>2, <2>3, <2>5, <2>6, PutKept
  <2>. QED  BY <1>3, <2>7, <2>8, KeptStep
<1>. QED  BY <1>4, <1>7, <1>8, <1>9

(* Some of a stack, or all of it, is gone. *)
Less(x, y) ==
  \/ x = y
  \/ x = Empty
  \/ /\ x # Empty /\ y # Empty /\ x.item = y.item /\ x.quantity <= y.quantity
     /\ x.quantity \in Nat /\ y.quantity \in Nat /\ ~Hollow(x)

(* Slots that are less in one place shoot from no new slot, and are no     *)
(* more hollow.                                                            *)
LEMMA LessShoots ==
  ASSUME NEW x, NEW y, Less(x, y), NEW w
  PROVE  (Shoots(w, x) => Shoots(w, y)) /\ (~Hollow(y) => ~Hollow(x))
<1>1. CASE x = y
  BY <1>1
<1>2. CASE x = Empty
  BY <1>2, EmptyContent
<1>3. CASE /\ x # Empty /\ y # Empty /\ x.item = y.item /\ x.quantity <= y.quantity
           /\ x.quantity \in Nat /\ y.quantity \in Nat /\ ~Hollow(x)
  BY <1>3 DEF Shoots
<1>. QED  BY <1>1, <1>2, <1>3 DEF Less

(* After a loss the search starts behind the active slot when that has     *)
(* been emptied: what AfterRemoval returns is the first slot again.        *)
LEMMA LossKeeps ==
  ASSUME Inv, NEW u \in Uses, NEW s \in Slots, \A t \in Slots : t # s => u[t] = use[t],
         Less(u[s], use[s]), NEW p \in Slots, p = s \/ (p = active /\ active <= s)
  PROVE  Kept(tracked, u, AfterRemoval(u, p))
<1>. DEFINE w == worn.weapon
            a == AfterRemoval(u, p)
            gone == u[p] = Empty \/ u[p].quantity = 0
<1>1. Kept(tracked, use, active) /\ tracked \in BOOLEAN /\ active \in Marks
  BY DEF Inv, TypeOK, Kept
<1>2. a = IF active = p /\ gone /\ Fits[w] # {} THEN FirstFrom(u, w, p + 1) ELSE active
  BY DEF AfterRemoval
<1>. HIDE DEF a, gone
<1>3. a \in Marks
  BY <1>1, <1>2, MarkTypes
<1>4. tracked => Clean(u)
  <2>. SUFFICES ASSUME tracked, NEW t \in Slots PROVE ~Hollow(u[t])
    BY DEF Clean
  <2>1. ~Hollow(use[t])
    BY <1>1 DEF Kept, Clean
  <2>2. CASE t = s
    BY <2>1, <2>2, LessShoots
  <2>. QED  BY <2>1, <2>2
<1>5. ASSUME tracked, ~worn.isEmpty PROVE IsFirst(u, w, a)
  <2>1. IsFirst(use, w, active) /\ Clean(use) /\ Clean(u)
    BY <1>1, <1>4, <1>5 DEF Kept
  <2>2. \A t \in Slots : Shoots(w, u[t]) => Shoots(w, use[t])
    <3>1. Shoots(w, u[s]) => Shoots(w, use[s])
      BY LessShoots
    <3>. QED  BY <3>1
  <2>3. \A t \in Slots : t < active => ~Shoots(w, u[t])
    BY <2>1, <2>2, SlotTypes DEF IsFirst
  <2>4. ASSUME active \in Slots, Shoots(w, u[active]) PROVE IsFirst(u, w, active)
    BY <2>3, <2>4 DEF IsFirst
  <2>5. ASSUME active \in Slots
        PROVE  Shoots(w, use[active]) /\ use[active] # Empty /\ use[active].quantity # 0
               /\ Fits[w] # {}
    <3>1. Shoots(w, use[active])
      BY <2>1, <2>5, SlotTypes DEF IsFirst
    <3>2. use[active] # Empty /\ use[active].item \in Fits[w]
          /\ (use[active].item \in Rechargeable => use[active].quantity # 0)
      BY <3>1 DEF Shoots
    <3>3. use[active].quantity # 0
      BY <2>1, <2>5, <3>2 DEF Clean, Hollow
    <3>. QED  BY <3>1, <3>2, <3>3
  <2>6. CASE active = NoSlot
    <3>1. \A t \in Slots : ~Shoots(w, use[t])
      BY <2>1, <2>6, SlotTypes DEF IsFirst
    <3>2. a = active
      BY <1>2, <2>6, SlotTypes
    <3>. QED  BY <2>2, <2>6, <3>1, <3>2 DEF IsFirst
  <2>7. CASE active \in Slots /\ active # s
    <3>1. u[active] = use[active]
      BY <2>7
    <3>2. a = active
      BY <1>2, <2>5, <2>7, <3>1 DEF gone
    <3>. QED  BY <2>4, <2>5, <2>7, <3>1, <3>2
  <2>8. CASE active = s /\ gone
    <3>1. p = s /\ active \in Slots
      BY <2>8
    <3>2. a = FirstFrom(u, w, s + 1)
      BY <1>2, <2>5, <2>8, <3>1
    <3>3. ~Shoots(w, u[s])
      BY <2>1, <2>8, <3>1 DEF gone, Shoots, Clean, Hollow
    <3>4. \A t \in Slots : t >= s + 1 \/ ~Shoots(w, u[t])
      <4>. SUFFICES ASSUME NEW t \in Slots, ~(t >= s + 1), Shoots(w, u[t]) PROVE FALSE
        OBVIOUS
      <4>1. t \in Nat /\ s \in Nat /\ t # s
        BY <3>3, SlotTypes
      <4>2. t < active
        BY <2>8, <4>1
      <4>. QED  BY <2>3, <4>2
    <3>5. \/ a = NoSlot /\ \A t \in Slots : t >= s + 1 => ~Shoots(w, u[t])
          \/ /\ a \in Slots /\ Shoots(w, u[a])
             /\ \A t \in Slots : t >= s + 1 /\ t < a => ~Shoots(w, u[t])
      BY <3>2, FirstFromFinds
    <3>. QED  BY <3>4, <3>5 DEF IsFirst
  <2>9. CASE active = s /\ ~gone
    <3>1. p = s /\ active \in Slots /\ a = active
      BY <1>2, <2>9
    <3>2. Shoots(w, use[s])
      BY <2>5, <2>9
    <3>3. Less(u[s], use[s]) /\ u[s] # Empty /\ u[s].quantity # 0
      BY <2>9, <3>1 DEF gone
    <3>4. Shoots(w, u[s])
      BY <3>2, <3>3 DEF Less, Shoots
    <3>. QED  BY <2>4, <2>9, <3>1, <3>4
  <2>. QED  BY <1>1, <2>6, <2>7, <2>8, <2>9 DEF Marks
<1>6. Kept(tracked, u, a)
  BY <1>3, <1>4, <1>5 DEF Kept
<1>. QED  BY <1>6 DEF a

(* A stack of which n are gone. *)
LEMMA FewerIsLess ==
  ASSUME NEW u \in Uses, NEW s \in Slots, u[s] # Empty, NEW n \in Nat, n > 0, n <= u[s].quantity,
         u[s].item \in Rechargeable \/ n # u[s].quantity
  PROVE  /\ [u EXCEPT ![s].quantity = @ - n] \in Uses
         /\ Less([u EXCEPT ![s].quantity = @ - n][s], u[s])
         /\ \A t \in Slots : t # s => [u EXCEPT ![s].quantity = @ - n][t] = u[t]
<1>. DEFINE m == u[s].quantity - n
            u2 == [u EXCEPT ![s].quantity = m]
<1>1. /\ u[s] \in Content /\ u[s].quantity \in Nat /\ u[s].quantity <= SlotMax[u[s].item]
      /\ SlotMax[u[s].item] \in Nat /\ u[s].item \in Item
  BY ContentTypes DEF Uses
<1>2. m \in Nat /\ m <= SlotMax[u[s].item] /\ m <= u[s].quantity
      /\ (u[s].item \notin Rechargeable => m # 0)
  BY <1>1
<1>. HIDE DEF m
<1>3. u2 \in Uses /\ u2[s] = Stack(u[s].item, m) /\ \A t \in Slots : t # s => u2[t] = u[t]
  <2>0. m \in Nat /\ m <= SlotMax[u[s].item]
    BY <1>2
  <2>1. u2 \in Uses
    BY <2>0, NewAmount, Zenon
  <2>2. u2[s] = Stack(u[s].item, m)
    <3>1. u[s] = Stack(u[s].item, u[s].quantity)
      BY <1>1, ContentTypes
    <3>2. [u[s] EXCEPT !.quantity = m] = Stack(u[s].item, m)
      BY <3>1 DEF Stack
    <3>3. u2[s] = [u[s] EXCEPT !.quantity = m]
      BY DEF Uses
    <3>. QED  BY <3>2, <3>3
  <2>3. \A t \in Slots : t # s => u2[t] = u[t]
    OBVIOUS
  <2>. QED  BY <2>1, <2>2, <2>3
<1>4. Stack(u[s].item, m) # Empty /\ Stack(u[s].item, m).item = u[s].item
      /\ Stack(u[s].item, m).quantity = m
  BY <1>1, <1>2, StackTypes
<1>5. Less(u2[s], u[s])
  <2>. HIDE DEF u2
  <2>1. ~Hollow(u2[s])
    BY <1>2, <1>3, <1>4 DEF Hollow
  <2>. QED  BY <1>1, <1>2, <1>3, <1>4, <2>1 DEF Less
<1>6. u2 = [u EXCEPT ![s].quantity = @ - n]
  BY Zenon DEF m
<1>. QED  BY <1>3, <1>5, <1>6, Zenon

(* A slot that is emptied. *)
LEMMA EmptiedIsLess ==
  ASSUME NEW u \in Uses, NEW s \in Slots
  PROVE  /\ [u EXCEPT ![s] = Empty] \in Uses
         /\ Less([u EXCEPT ![s] = Empty][s], u[s])
         /\ \A t \in Slots : t # s => [u EXCEPT ![s] = Empty][t] = u[t]
BY EmptyContent DEF Uses, Less

(* Items are dropped or sold. *)
LEMMA RemoveItemInv ==
  ASSUME Inv, NEW s \in Slots, NEW n \in Nat, n > 0, RemoveItem(s, n), mesos' \in 0..MaxMesos
  PROVE  Inv'
<1>. DEFINE u == Removed(s, n)
<1>1. CanRemove(s, n) /\ use' = u /\ active' = AfterRemoval(u, s) /\ UNCHANGED <<gear, shop, tracked>>
  BY DEF RemoveItem
<1>2. use \in Uses
  BY DEF Inv, Kept
<1>3. u \in Uses /\ Less(u[s], use[s]) /\ \A t \in Slots : t # s => u[t] = use[t]
  <2>1. CASE use[s].item \in Rechargeable \/ use[s].quantity = n
    <3>1. u = [use EXCEPT ![s] = Empty]
      BY <2>1 DEF Removed
    <3>. HIDE DEF u
    <3>. QED  BY <1>2, <3>1, EmptiedIsLess
  <2>2. CASE ~(use[s].item \in Rechargeable \/ use[s].quantity = n)
    <3>1. u = [use EXCEPT ![s].quantity = @ - n]
      BY <2>2 DEF Removed
    <3>2. use[s] # Empty /\ n <= use[s].quantity
      <4>1. use[s] \in Content
        BY <1>2 DEF Uses
      <4>. QED  BY <1>1, <2>2, <4>1, ContentTypes DEF CanRemove
    <3>3. use[s].item \in Rechargeable \/ n # use[s].quantity
      BY <2>2
    <3>4. u \in Uses
      <4>1. [use EXCEPT ![s].quantity = @ - n] \in Uses
        BY <1>2, <3>2, <3>3, FewerIsLess, Zenon
      <4>. QED  BY <3>1, <4>1, Zenon
    <3>5. Less(u[s], use[s])
      BY <1>2, <3>1, <3>2, <3>3, FewerIsLess, Zenon
    <3>6. \A t \in Slots : t # s => u[t] = use[t]
      BY <3>1
    <3>. QED  BY <3>4, <3>5, <3>6
  <2>. QED  BY <2>1, <2>2
<1>. HIDE DEF u
<1>4. Kept(tracked, u, AfterRemoval(u, s))
  BY <1>3, LossKeeps
<1>5. Outside
  BY <1>1, OutsideSame DEF Outside, gear
<1>6. UNCHANGED <<worn, tracked>>
  BY <1>1 DEF gear
<1>. QED  BY <1>1, <1>4, <1>5, <1>6, KeptStep

(* A shot is fired. *)
LEMMA UseProjectileInv ==
  ASSUME Inv, NEW n \in Nat, n > 0, UseProjectile(n)
  PROVE  Inv'
<1>1. active # NoSlot /\ active' = AfterRemoval(use', active)
      /\ UNCHANGED <<gear, mesos, shop, tracked>>
  BY DEF UseProjectile
<1>2. PICK s \in Slots : /\ s >= active
                         /\ IF use[s] = Empty THEN UNCHANGED use
                            ELSE /\ use[s].quantity >= n
                                 /\ use' = [use EXCEPT ![s] = Shot(@, n)]
  BY DEF UseProjectile
<1>3. use \in Uses /\ active \in Slots
  BY <1>1 DEF Inv, Kept, Marks
<1>4. use' \in Uses /\ Less(use'[s], use[s]) /\ \A t \in Slots : t # s => use'[t] = use[t]
  <2>1. CASE use[s] = Empty
    BY <1>2, <1>3, <2>1 DEF Less
  <2>2. CASE use[s] # Empty /\ ~(use[s].item \in Rechargeable \/ use[s].quantity # n)
    <3>1. use' = [use EXCEPT ![s] = Empty]
      BY <1>2, <2>2 DEF Shot
    <3>. QED  BY <1>3, <3>1, EmptiedIsLess
  <2>3. CASE use[s] # Empty /\ (use[s].item \in Rechargeable \/ use[s].quantity # n)
    <3>1. use' = [use EXCEPT ![s].quantity = @ - n]
      BY <1>2, <2>3 DEF Shot
    <3>2. n <= use[s].quantity
      <4>1. use[s] \in Content
        BY <1>3 DEF Uses
      <4>. QED  BY <1>2, <2>3, <4>1, ContentTypes
    <3>3. use[s].item \in Rechargeable \/ n # use[s].quantity
      BY <2>3
    <3>4. use' \in Uses
      BY <1>3, <2>3, <3>1, <3>2, <3>3, FewerIsLess, Zenon
    <3>5. Less(use'[s], use[s])
      BY <1>3, <2>3, <3>1, <3>2, <3>3, FewerIsLess, Zenon
    <3>6. \A t \in Slots : t # s => use'[t] = use[t]
      BY <1>3, <3>1 DEF Uses
    <3>. QED  BY <3>4, <3>5, <3>6
  <2>. QED  BY <2>1, <2>2, <2>3
<1>5. active <= s
  BY <1>2, <1>3, SlotTypes
<1>6. Kept(tracked, use', AfterRemoval(use', active))
  BY <1>3, <1>4, <1>5, LossKeeps
<1>7. Outside
  BY <1>1, OutsideSame DEF Outside, gear
<1>8. UNCHANGED <<worn, tracked>>
  BY <1>1 DEF gear
<1>. QED  BY <1>1, <1>6, <1>7, <1>8, KeptStep

(* Something is drunk. *)
LEMMA UseItemInv ==
  ASSUME Inv, NEW s \in Slots, UseItem(s)
  PROVE  Inv'
<1>1. /\ use[s] # Empty /\ use[s].quantity > 0 /\ use' = [use EXCEPT ![s] = Drunk(@)]
      /\ tracked' = (tracked /\ ~(s = active /\ use'[s] = Empty))
      /\ UNCHANGED <<active, gear, mesos, shop>>
  BY DEF UseItem, LowestQuantity
<1>2. use \in Uses /\ active \in Marks /\ tracked \in BOOLEAN /\ Kept(tracked, use, active)
  BY DEF Inv, TypeOK, Kept
<1>3. use' \in Uses /\ Less(use'[s], use[s]) /\ \A t \in Slots : t # s => use'[t] = use[t]
  <2>1. CASE use[s].quantity = 1
    <3>1. use' = [use EXCEPT ![s] = Empty]
      BY <1>1, <2>1 DEF Drunk
    <3>. QED  BY <1>2, <3>1, EmptiedIsLess
  <2>2. CASE use[s].quantity # 1
    <3>1. use' = [use EXCEPT ![s].quantity = @ - 1]
      BY <1>1, <2>2 DEF Drunk
    <3>2. 1 <= use[s].quantity
      <4>1. use[s] \in Content
        BY <1>2 DEF Uses
      <4>. QED  BY <1>1, <4>1, ContentTypes
    <3>3. 1 \in Nat /\ 1 > 0 /\ 1 # use[s].quantity
      BY <2>2
    <3>4. use' \in Uses
      <4>1. use[s] # Empty
        BY <1>1
      <4>2. [use EXCEPT ![s].quantity = @ - 1] \in Uses
        BY <1>2, <3>2, <3>3, <4>1, FewerIsLess, Zenon
      <4>. QED  BY <3>1, <4>2, Zenon
    <3>5. Less(use'[s], use[s])
      BY <1>1, <1>2, <3>1, <3>2, <3>3, FewerIsLess, Zenon
    <3>6. \A t \in Slots : t # s => use'[t] = use[t]
      BY <1>2, <3>1 DEF Uses
    <3>. QED  BY <3>4, <3>5, <3>6
  <2>. QED  BY <2>1, <2>2
<1>4. \A t \in Slots : \A w : /\ Shoots(w, use'[t]) => Shoots(w, use[t])
                              /\ ~Hollow(use[t]) => ~Hollow(use'[t])
  BY <1>3, LessShoots
<1>5. ASSUME tracked', ~worn.isEmpty PROVE IsFirst(use', worn.weapon, active)
  <2>1. IsFirst(use, worn.weapon, active) /\ tracked /\ ~(s = active /\ use'[s] = Empty)
    BY <1>1, <1>2, <1>5 DEF Kept
  <2>2. CASE active = NoSlot
    BY <1>4, <2>1, <2>2, SlotTypes DEF IsFirst
  <2>3. CASE active \in Slots
    <3>1. Shoots(worn.weapon, use[active]) /\ \A t \in Slots : t < active => ~Shoots(worn.weapon, use[t])
      BY <2>1, <2>3, SlotTypes DEF IsFirst
    <3>2. Shoots(worn.weapon, use'[active])
      <4>1. CASE active # s
        BY <1>3, <2>3, <3>1, <4>1
      <4>2. CASE active = s
        <5>1. use'[s] # Empty /\ use'[s].quantity > 0
          <6>1. use'[s] # Empty
            BY <2>1, <4>2
          <6>2. use[s].quantity # 1 /\ use[s].quantity \in Nat
            <7>1. use[s].quantity # 1
              BY <1>1, <1>2, <6>1 DEF Drunk, Uses
            <7>2. use[s] \in Content
              BY <1>2 DEF Uses
            <7>. QED  BY <1>1, <7>1, <7>2, ContentTypes
          <6>3. use'[s].quantity = use[s].quantity - 1
            <7>1. use[s] \in [item : Item, quantity : Nat]
              BY <1>1, <1>2 DEF Uses, Content
            <7>2. use'[s] = [use[s] EXCEPT !.quantity = @ - 1]
              BY <1>1, <1>2, <6>2 DEF Drunk, Uses
            <7>. QED  BY <7>1, <7>2
          <6>. QED  BY <1>1, <6>1, <6>2, <6>3
        <5>. QED  BY <1>3, <3>1, <4>2, <5>1 DEF Less, Shoots
      <4>. QED  BY <4>1, <4>2
    <3>. QED  BY <1>4, <2>3, <3>1, <3>2 DEF IsFirst
  <2>. QED  BY <1>2, <2>2, <2>3 DEF Marks
<1>6. tracked' => Clean(use')
  BY <1>1, <1>2, <1>4 DEF Kept, Clean
<1>7. UNCHANGED <<worn, elsewhere, equipment, active, mesos, shop>>
  BY <1>1 DEF gear
<1>8. TypeOK'
  <2>1. Outside
    BY <1>7, OutsideSame DEF Outside
  <2>2. active' \in Marks /\ tracked' \in BOOLEAN
    BY <1>1, <1>2
  <2>. QED  BY <1>3, <2>1, <2>2, TypesAfter
<1>9. Kept(tracked, use, active)'
  BY <1>2, <1>3, <1>5, <1>6, <1>7 DEF Kept
<1>. QED  BY <1>8, <1>9 DEF Inv

-----------------------------------------------------------------------------
(* Moving stacks *)

(* The first slot, in terms of the slots before it. *)
LEMMA FirstMeans ==
  ASSUME NEW u, NEW w, NEW a
  PROVE  IsFirst(u, w, a) <=> /\ a \in Marks
                              /\ a \in Slots => Shoots(w, u[a])
                              /\ \A t \in Slots : t < a => ~Shoots(w, u[t])
BY SlotTypes DEF IsFirst, Marks

(* A search that cannot fail. *)
LEMMA FoundIsFirst ==
  ASSUME NEW u, NEW w, NEW a, NEW i \in Nat, NEW p \in Slots, p >= i, Shoots(w, u[p]),
         \A t \in Slots : t < i => ~Shoots(w, u[t])
  PROVE  IsFirst(u, w, FirstFromOr(u, w, i, a))
<1>. DEFINE f == FirstFrom(u, w, i)
<1>1. \/ f = NoSlot /\ \A t \in Slots : t >= i => ~Shoots(w, u[t])
      \/ /\ f \in Slots /\ Shoots(w, u[f])
         /\ \A t \in Slots : t >= i /\ t < f => ~Shoots(w, u[t])
  BY FirstFromFinds
<1>2. f \in Slots /\ Shoots(w, u[f]) /\ \A t \in Slots : t >= i /\ t < f => ~Shoots(w, u[t])
  BY <1>1
<1>3. FirstFromOr(u, w, i, a) = f
  BY <1>2, SlotTypes DEF FirstFromOr
<1>. HIDE DEF f
<1>4. \A t \in Slots : t < i \/ t >= i
  BY SlotTypes
<1>5. IsFirst(u, w, f)
  BY <1>2, <1>4 DEF IsFirst
<1>. QED  BY <1>3, <1>5

(* What there is to show of a move. *)
LEMMA MoveKeeps ==
  ASSUME Inv, use' \in Uses, active' \in Marks, UNCHANGED <<gear, mesos, shop>>,
         tracked' \in BOOLEAN, tracked' => tracked /\ Clean(use'),
         ASSUME tracked, ~worn.isEmpty, IsFirst(use, worn.weapon, active)
         PROVE  IsFirst(use', worn.weapon, active')
  PROVE  Inv'
<1>1. UNCHANGED <<worn, elsewhere, equipment, mesos, shop>>
  BY DEF gear
<1>2. Outside
  BY <1>1, OutsideSame DEF Outside
<1>3. TypeOK'
  BY <1>2, TypesAfter
<1>4. tracked /\ ~worn.isEmpty => IsFirst(use, worn.weapon, active)
  BY DEF Inv, Kept
<1>5. Kept(tracked, use, active)'
  BY <1>1, <1>4 DEF Kept
<1>. QED  BY <1>3, <1>5 DEF Inv

(* Slots that hold what other slots held are as clean. *)
LEMMA MovedIsClean ==
  ASSUME NEW u, Clean(u), NEW u2,
         \A t \in Slots : u2[t] = Empty \/ \E r \in Slots : u2[t] = u[r]
  PROVE  Clean(u2)
BY EmptyContent DEF Clean

LEMMA MoveToEmptyInv ==
  ASSUME Inv, NEW s \in Slots, NEW d \in Slots, s # d, use[s] # Empty, MoveToEmpty(s, d),
         UNCHANGED <<gear, mesos, shop>>
  PROVE  Inv'
<1>. DEFINE w == worn.weapon
<1>1. /\ use[d] = Empty /\ use' = [use EXCEPT ![d] = use[s], ![s] = Empty]
      /\ active' = IF s = active
                   THEN IF d < s THEN d ELSE FirstFromOr(use', w, s + 1, active)
                   ELSE Earlier(use', w, d, active)
      /\ UNCHANGED tracked
  BY DEF MoveToEmpty
<1>2. use \in Uses /\ active \in Marks /\ tracked \in BOOLEAN /\ Kept(tracked, use, active)
  BY DEF Inv, TypeOK, Kept
<1>3. /\ use' \in Uses /\ use'[d] = use[s] /\ use'[s] = Empty
      /\ \A t \in Slots : t # s /\ t # d => use'[t] = use[t]
  BY <1>1, <1>2, EmptyContent DEF Uses
<1>4. active' \in Marks
  BY <1>1, <1>2, MarkTypes DEF Earlier, Marks
<1>5. tracked => Clean(use')
  <2>1. \A t \in Slots : use'[t] = Empty \/ \E r \in Slots : use'[t] = use[r]
    BY <1>3
  <2>. QED  BY <1>2, <2>1, MovedIsClean DEF Kept
<1>6. ASSUME tracked, ~worn.isEmpty, IsFirst(use, w, active) PROVE IsFirst(use', w, active')
  <2>1. /\ active \in Slots => Shoots(w, use[active])
        /\ \A t \in Slots : t < active => ~Shoots(w, use[t])
    BY <1>6, FirstMeans
  <2>2. ~Shoots(w, use[d]) /\ ~Shoots(w, use'[s])
    BY <1>1, <1>3, EmptyContent
  <2>3. s \in Nat /\ d \in Nat /\ s + 1 \in Nat /\ \A t \in Slots : t \in Nat
    BY SlotTypes
  <2>4. CASE s = active /\ d < s
    <3>1. active' = d /\ Shoots(w, use'[d])
      BY <1>1, <1>3, <2>1, <2>4
    <3>2. \A t \in Slots : t < d => ~Shoots(w, use'[t])
      <4>. SUFFICES ASSUME NEW t \in Slots, t < d PROVE ~Shoots(w, use'[t])
        OBVIOUS
      <4>1. t < active /\ t # d /\ t # s
        BY <2>3, <2>4
      <4>. QED  BY <1>3, <2>1, <4>1
    <3>. QED  BY <3>1, <3>2 DEF IsFirst
  <2>5. CASE s = active /\ ~(d < s)
    <3>1. active' = FirstFromOr(use', w, s + 1, active)
      BY <1>1, <2>5
    <3>2. d >= s + 1 /\ Shoots(w, use'[d])
      BY <1>3, <2>1, <2>3, <2>5
    <3>3. \A t \in Slots : t < s + 1 => ~Shoots(w, use'[t])
      <4>. SUFFICES ASSUME NEW t \in Slots, t < s + 1, t # s PROVE ~Shoots(w, use'[t])
        BY <2>2
      <4>1. t < active /\ t # d
        BY <2>3, <2>5
      <4>. QED  BY <1>3, <2>1, <4>1
    <3>4. IsFirst(use', w, FirstFromOr(use', w, s + 1, active))
      BY <2>3, <3>2, <3>3, FoundIsFirst
    <3>. QED  BY <3>1, <3>4
  <2>6. CASE s # active
    <3>. DEFINE u1 == [use EXCEPT ![s] = Empty]
    <3>1. u1[d] = use[d] /\ u1[s] = Empty /\ \A t \in Slots : t # s => u1[t] = use[t]
      BY <1>2 DEF Uses
    <3>. HIDE DEF u1
    <3>2. IsFirst(u1, w, active)
      <4>1. active \in Slots => Shoots(w, u1[active])
        BY <2>1, <2>6, <3>1
      <4>2. \A t \in Slots : t < active => ~Shoots(w, u1[t])
        BY <2>1, <2>2, <1>3, <3>1
      <4>. QED  BY <1>2, <4>1, <4>2, FirstMeans
    <3>3. \A t \in Slots : t # d => use'[t] = u1[t]
      BY <1>3, <3>1
    <3>4. ~Shoots(w, u1[d])
      BY <2>2, <3>1
    <3>5. IsFirst(use', w, Earlier(use', w, d, active))
      BY <1>2, <3>2, <3>3, <3>4, EarlierFirst
    <3>. QED  BY <1>1, <2>6, <3>5
  <2>. QED  BY <2>4, <2>5, <2>6
<1>7. UNCHANGED tracked
  BY <1>1
<1>. QED  BY <1>2, <1>3, <1>4, <1>5, <1>6, <1>7, MoveKeeps

LEMMA SwappedSlots ==
  ASSUME use \in Uses, NEW s \in Slots, NEW d \in Slots
  PROVE  /\ Swapped(s, d) \in Uses /\ Swapped(s, d)[s] = use[d] /\ Swapped(s, d)[d] = use[s]
         /\ \A t \in Slots : t # s /\ t # d => Swapped(s, d)[t] = use[t]
BY DEF Swapped, Uses

(* Stacks of one kind, whose items are not counted, are fit together. *)
LEMMA SameKindShoots ==
  ASSUME NEW s \in Slots, NEW d \in Slots, use[s] # Empty, SameStackable(s, d), NEW w
  PROVE  Shoots(w, use[s]) <=> Shoots(w, use[d])
BY DEF SameStackable, Holds, Shoots

LEMMA SwapFullInv ==
  ASSUME Inv, NEW s \in Slots, NEW d \in Slots, s # d, use[s] # Empty, SwapFull(s, d),
         UNCHANGED <<gear, mesos, shop>>
  PROVE  Inv'
<1>1. SameStackable(s, d) /\ use' = Swapped(s, d) /\ UNCHANGED <<active, tracked>>
  BY DEF SwapFull
<1>2. use \in Uses /\ active \in Marks /\ tracked \in BOOLEAN /\ Kept(tracked, use, active)
  BY DEF Inv, TypeOK, Kept
<1>3. /\ use' \in Uses /\ use'[d] = use[s] /\ use'[s] = use[d]
      /\ \A t \in Slots : t # s /\ t # d => use'[t] = use[t]
  BY <1>1, <1>2, SwappedSlots
<1>4. tracked => Clean(use')
  <2>1. \A t \in Slots : use'[t] = Empty \/ \E r \in Slots : use'[t] = use[r]
    BY <1>3
  <2>. QED  BY <1>2, <2>1, MovedIsClean DEF Kept
<1>5. ASSUME tracked, ~worn.isEmpty, IsFirst(use, worn.weapon, active)
      PROVE  IsFirst(use', worn.weapon, active')
  <2>1. \A t \in Slots : Shoots(worn.weapon, use'[t]) <=> Shoots(worn.weapon, use[t])
    BY <1>1, <1>3, SameKindShoots
  <2>. QED  BY <1>1, <1>5, <2>1, SameFirst
<1>6. active' \in Marks /\ UNCHANGED tracked
  BY <1>1, <1>2
<1>. QED  BY <1>2, <1>3, <1>4, <1>5, <1>6, MoveKeeps

(* A stack that grows or shrinks: the types. *)
LEMMA AmountTypes ==
  ASSUME NEW u \in Uses, NEW s \in Slots, u[s] # Empty, NEW n \in Nat, n <= SlotMax[u[s].item]
  PROVE  LET u2 == [u EXCEPT ![s].quantity = n]
         IN  /\ u2 \in Uses /\ u2[s] # Empty /\ u2[s].item = u[s].item /\ u2[s].quantity = n
             /\ \A t \in Slots : t # s => u2[t] = u[t]
<1>1. u[s] \in Content
  BY DEF Uses
<1>2. u[s] \in [item : Item, quantity : Nat]
  BY <1>1 DEF Content
<1>3. /\ [u[s] EXCEPT !.quantity = n] \in [item : Item, quantity : Nat]
      /\ [u[s] EXCEPT !.quantity = n].item = u[s].item
      /\ [u[s] EXCEPT !.quantity = n].quantity = n
  BY <1>2
<1>4. [u[s] EXCEPT !.quantity = n] \in Content /\ [u[s] EXCEPT !.quantity = n] # Empty
  BY <1>3, EmptyAssumption DEF Content
<1>. QED  BY <1>3, <1>4 DEF Uses

LEMMA MergeWholeInv ==
  ASSUME Inv, NEW s \in Slots, NEW d \in Slots, s # d, use[s] # Empty, MergeWhole(s, d),
         UNCHANGED <<gear, mesos, shop>>
  PROVE  Inv'
<1>. DEFINE w == worn.weapon
            n == use[d].quantity + use[s].quantity
            u1 == [use EXCEPT ![d].quantity = n]
<1>1. /\ SameStackable(s, d) /\ use[s].quantity < Room(d)
      /\ use' = [use EXCEPT ![d].quantity = @ + use[s].quantity, ![s] = Empty]
      /\ active' = IF s < d /\ s = active THEN FirstFromOr(use', w, s + 1, active) ELSE active
      /\ tracked' = (tracked /\ ~(s = d /\ s = active))
  BY DEF MergeWhole
<1>2. use \in Uses /\ active \in Marks /\ tracked \in BOOLEAN /\ Kept(tracked, use, active)
  BY DEF Inv, TypeOK, Kept
<1>3. /\ use[d] # Empty /\ use[d].item = use[s].item /\ use[s].item \notin Rechargeable
      /\ use[s] \in Content /\ use[d] \in Content
  BY <1>1, <1>2 DEF SameStackable, Holds, Uses
<1>4. /\ use[s].quantity \in Nat /\ use[d].quantity \in Nat /\ use[d].quantity <= SlotMax[use[d].item]
      /\ SlotMax[use[d].item] \in Nat
  BY <1>3, ContentTypes
<1>5. n \in Nat /\ n <= SlotMax[use[d].item] /\ (use[d].quantity # 0 => n # 0)
  BY <1>1, <1>4 DEF Room
<1>6. use' = [u1 EXCEPT ![s] = Empty]
  BY <1>1, Zenon
<1>. HIDE DEF n
<1>7. /\ u1 \in Uses /\ u1[d] # Empty /\ u1[d].item = use[d].item /\ u1[d].quantity = n
      /\ \A t \in Slots : t # d => u1[t] = use[t]
  BY <1>2, <1>3, <1>5, AmountTypes
<1>. HIDE DEF u1
<1>8. /\ use' \in Uses /\ use'[d] = u1[d] /\ use'[s] = Empty
      /\ \A t \in Slots : t # s /\ t # d => use'[t] = use[t]
  BY <1>6, <1>7, EmptyContent DEF Uses
<1>9. active' \in Marks
  BY <1>1, <1>2, MarkTypes
<1>10. tracked => Clean(use')
  <2>. SUFFICES ASSUME tracked, NEW t \in Slots PROVE ~Hollow(use'[t])
    BY DEF Clean
  <2>1. ~Hollow(use[t]) /\ ~Hollow(use[d])
    BY <1>2 DEF Kept, Clean
  <2>2. CASE t = d
    <3>1. use[d].quantity # 0
      BY <1>3, <2>1 DEF Hollow
    <3>. QED  BY <1>5, <1>7, <1>8, <2>2, <3>1 DEF Hollow
  <2>3. CASE t = s
    BY <1>8, <2>3, EmptyContent
  <2>. QED  BY <1>8, <2>1, <2>2, <2>3
<1>11. ASSUME tracked, ~worn.isEmpty, IsFirst(use, w, active) PROVE IsFirst(use', w, active')
  <2>1. /\ active \in Slots => Shoots(w, use[active])
        /\ \A t \in Slots : t < active => ~Shoots(w, use[t])
    BY <1>11, FirstMeans
  <2>2. Shoots(w, use'[d]) <=> Shoots(w, use[d])
    BY <1>3, <1>7, <1>8 DEF Shoots
  <2>3. ~Shoots(w, use'[s])
    BY <1>8, EmptyContent
  <2>4. \A t \in Slots : t < active => ~Shoots(w, use'[t])
    BY <1>8, <2>1, <2>2, <2>3
  <2>5. Shoots(w, use[s]) <=> Shoots(w, use[d])
    BY <1>1, SameKindShoots
  <2>6. s \in Nat /\ d \in Nat /\ s + 1 \in Nat /\ \A t \in Slots : t \in Nat
    BY SlotTypes
  <2>7. CASE s # active
    <3>1. active' = active
      BY <1>1, <2>7
    <3>2. active \in Slots => Shoots(w, use'[active])
      BY <1>8, <2>1, <2>2, <2>7
    <3>. QED  BY <1>2, <2>4, <3>1, <3>2, FirstMeans
  <2>8. CASE s = active
    <3>1. Shoots(w, use[d]) /\ ~(d < s)
      BY <2>1, <2>5, <2>8
    <3>2. d >= s + 1 /\ s < d
      BY <2>6, <3>1
    <3>3. active' = FirstFromOr(use', w, s + 1, active)
      BY <1>1, <2>8, <3>2
    <3>4. \A t \in Slots : t < s + 1 => ~Shoots(w, use'[t])
      <4>. SUFFICES ASSUME NEW t \in Slots, t < s + 1, t # s PROVE ~Shoots(w, use'[t])
        BY <2>3
      <4>. QED  BY <2>4, <2>6, <2>8
    <3>5. Shoots(w, use'[d])
      BY <2>2, <3>1
    <3>6. IsFirst(use', w, FirstFromOr(use', w, s + 1, active))
      BY <2>6, <3>2, <3>4, <3>5, FoundIsFirst
    <3>. QED  BY <3>3, <3>6
  <2>. QED  BY <2>7, <2>8
<1>12. UNCHANGED tracked
  BY <1>1, <1>2
<1>. QED  BY <1>2, <1>8, <1>9, <1>10, <1>11, <1>12, MoveKeeps

LEMMA MergePartInv ==
  ASSUME Inv, NEW s \in Slots, NEW d \in Slots, s # d, use[s] # Empty, MergePart(s, d),
         UNCHANGED <<gear, mesos, shop>>
  PROVE  Inv'
<1>. DEFINE n == use[d].quantity + Room(d)
            m == use[s].quantity - Room(d)
            u1 == [use EXCEPT ![d].quantity = n]
<1>1. /\ SameStackable(s, d) /\ Room(d) # 0 /\ use[s].quantity >= Room(d)
      /\ use' = [use EXCEPT ![d].quantity = @ + Room(d), ![s].quantity = @ - Room(d)]
      /\ tracked' = (tracked /\ ~Hollow(use'[s]))
      /\ UNCHANGED active
  BY DEF MergePart
<1>2. use \in Uses /\ active \in Marks /\ tracked \in BOOLEAN /\ Kept(tracked, use, active)
  BY DEF Inv, TypeOK, Kept
<1>3. /\ use[d] # Empty /\ use[d].item = use[s].item /\ use[s].item \notin Rechargeable
      /\ use[s] \in Content /\ use[d] \in Content
  BY <1>1, <1>2 DEF SameStackable, Holds, Uses
<1>4. /\ use[s].quantity \in Nat /\ use[d].quantity \in Nat /\ use[d].quantity <= SlotMax[use[d].item]
      /\ SlotMax[use[d].item] \in Nat /\ SlotMax[use[d].item] > 0
      /\ use[s].quantity <= SlotMax[use[s].item]
  BY <1>3, ContentTypes, SlotAssumption
<1>5. Room(d) = SlotMax[use[d].item] - use[d].quantity
  BY DEF Room
<1>6. /\ n \in Nat /\ n <= SlotMax[use[d].item] /\ n # 0
      /\ m \in Nat /\ m <= SlotMax[use[s].item]
  BY <1>1, <1>3, <1>4, <1>5
<1>7. use' = [u1 EXCEPT ![s].quantity = u1[s].quantity - Room(d)]
  BY <1>1, Zenon
<1>. HIDE DEF n
<1>8. /\ u1 \in Uses /\ u1[d] # Empty /\ u1[d].item = use[d].item /\ u1[d].quantity = n
      /\ \A t \in Slots : t # d => u1[t] = use[t]
  BY <1>2, <1>3, <1>6, AmountTypes
<1>. HIDE DEF u1
<1>9. u1[s] = use[s]
  BY <1>8
<1>10. use' = [u1 EXCEPT ![s].quantity = m]
  BY <1>7, <1>9, Zenon
<1>. HIDE DEF m
<1>11. /\ use' \in Uses /\ use'[s] # Empty /\ use'[s].item = use[s].item
       /\ \A t \in Slots : t # s => use'[t] = u1[t]
  <2>. DEFINE u2 == [u1 EXCEPT ![s].quantity = m]
  <2>1. u1[s] # Empty /\ m \in Nat /\ m <= SlotMax[u1[s].item]
    BY <1>6, <1>9
  <2>2. /\ u2 \in Uses /\ u2[s] # Empty /\ u2[s].item = u1[s].item
        /\ \A t \in Slots : t # s => u2[t] = u1[t]
    BY <1>8, <2>1, AmountTypes
  <2>3. use' = u2
    BY <1>10
  <2>. HIDE DEF u2
  <2>. QED  BY <1>9, <2>2, <2>3
<1>12. tracked' => Clean(use')
  <2>. SUFFICES ASSUME tracked', NEW t \in Slots PROVE ~Hollow(use'[t])
    BY DEF Clean
  <2>1. ~Hollow(use[t]) /\ ~Hollow(use'[s])
    BY <1>1, <1>2 DEF Kept, Clean
  <2>2. CASE t = d
    BY <1>6, <1>8, <1>11, <2>2 DEF Hollow
  <2>. QED  BY <1>8, <1>11, <2>1, <2>2
<1>13. ASSUME tracked, ~worn.isEmpty, IsFirst(use, worn.weapon, active)
       PROVE  IsFirst(use', worn.weapon, active')
  <2>1. Shoots(worn.weapon, use'[d]) <=> Shoots(worn.weapon, use[d])
    BY <1>3, <1>8, <1>11 DEF Shoots
  <2>2. Shoots(worn.weapon, use'[s]) <=> Shoots(worn.weapon, use[s])
    BY <1>3, <1>11 DEF Shoots
  <2>3. \A t \in Slots : Shoots(worn.weapon, use'[t]) <=> Shoots(worn.weapon, use[t])
    BY <1>8, <1>11, <2>1, <2>2
  <2>. QED  BY <1>1, <1>13, <2>3, SameFirst
<1>14. active' \in Marks /\ tracked' \in BOOLEAN /\ (tracked' => tracked)
  BY <1>1, <1>2
<1>. QED  BY <1>11, <1>12, <1>13, <1>14, MoveKeeps

(* The greater of two numbers. *)
LEMMA MaxOfTwo ==
  ASSUME NEW x \in Nat, NEW y \in Nat
  PROVE  Max({x, y}) \in {x, y} /\ Max({x, y}) >= x /\ Max({x, y}) >= y
<1>1. \E z \in {x, y} : \A v \in {x, y} : z >= v
  <2>1. CASE x >= y
    BY <2>1
  <2>2. CASE y >= x
    BY <2>2
  <2>. QED  BY <2>1, <2>2
<1>2. Max({x, y}) \in {x, y} /\ \A v \in {x, y} : Max({x, y}) >= v
  BY <1>1, Zenon DEF Max
<1>. QED  BY <1>2

LEMMA SwapOtherInv ==
  ASSUME Inv, NEW s \in Slots, NEW d \in Slots, s # d, use[s] # Empty, SwapOther(s, d),
         UNCHANGED <<gear, mesos, shop>>
  PROVE  Inv'
<1>. DEFINE w == worn.weapon
            lo == Min({s, d})
            hi == Max({s, d})
<1>1. /\ use' = Swapped(s, d)
      /\ active' = IF active = lo THEN FirstFromOr(use', w, lo, active)
                   ELSE IF active = hi THEN lo
                   ELSE IF active < hi THEN Earlier(use', w, lo, active)
                   ELSE active
      /\ UNCHANGED tracked
  BY Zenon DEF SwapOther
<1>2. use \in Uses /\ active \in Marks /\ tracked \in BOOLEAN /\ Kept(tracked, use, active)
  BY DEF Inv, TypeOK, Kept
<1>3. s \in Nat /\ d \in Nat /\ \A t \in Slots : t \in Nat
  BY SlotTypes
<1>4. lo \in Slots /\ hi \in Slots /\ lo < hi /\ ((lo = s /\ hi = d) \/ (lo = d /\ hi = s))
  BY <1>3, MinOfTwo, MaxOfTwo
<1>. HIDE DEF lo, hi
<1>5. /\ use' \in Uses /\ use'[d] = use[s] /\ use'[s] = use[d]
      /\ \A t \in Slots : t # s /\ t # d => use'[t] = use[t]
  BY <1>1, <1>2, SwappedSlots
<1>6. /\ use'[lo] = use[hi] /\ use'[hi] = use[lo]
      /\ \A t \in Slots : t # lo /\ t # hi => use'[t] = use[t]
  BY <1>4, <1>5
<1>7. tracked => Clean(use')
  <2>1. \A t \in Slots : use'[t] = Empty \/ \E r \in Slots : use'[t] = use[r]
    BY <1>5
  <2>. QED  BY <1>2, <2>1, MovedIsClean DEF Kept
<1>8. active' \in Marks
  BY <1>1, <1>2, <1>4, MarkTypes DEF Earlier, Marks
<1>9. ASSUME tracked, ~worn.isEmpty, IsFirst(use, w, active) PROVE IsFirst(use', w, active')
  <2>1. /\ active \in Slots => Shoots(w, use[active])
        /\ \A t \in Slots : t < active => ~Shoots(w, use[t])
    BY <1>9, FirstMeans
  <2>2. lo \in Nat /\ hi \in Nat /\ active \in Nat /\ hi < NoSlot
    BY <1>2, <1>4, SlotTypes DEF Marks
  <2>3. \A t \in Slots : t < lo /\ t < active => ~Shoots(w, use'[t])
    <3>. SUFFICES ASSUME NEW t \in Slots, t < lo, t < active PROVE ~Shoots(w, use'[t])
      OBVIOUS
    <3>1. t \in Nat /\ t # lo /\ t # hi
      BY <1>3, <1>4, <2>2
    <3>. QED  BY <1>6, <2>1, <3>1
  <2>4. CASE active = lo
    <3>1. active' = FirstFromOr(use', w, lo, active)
      BY <1>1, <2>4
    <3>2. hi >= lo /\ Shoots(w, use'[hi])
      BY <1>4, <1>6, <2>1, <2>2, <2>4
    <3>3. IsFirst(use', w, FirstFromOr(use', w, lo, active))
      BY <1>4, <2>2, <2>3, <2>4, <3>2, FoundIsFirst
    <3>. QED  BY <3>1, <3>3
  <2>5. CASE active = hi
    <3>1. active' = lo
      BY <1>1, <1>4, <2>2, <2>5
    <3>2. Shoots(w, use'[lo])
      BY <1>4, <1>6, <2>1, <2>5
    <3>3. \A t \in Slots : t < lo => ~Shoots(w, use'[t])
      BY <1>3, <1>4, <2>2, <2>3, <2>5
    <3>. QED  BY <1>4, <3>1, <3>2, <3>3 DEF IsFirst
  <2>6. CASE active # lo /\ active # hi /\ active < hi
    <3>1. active' = Earlier(use', w, lo, active)
      BY <1>1, <2>6
    <3>2. active \in Slots /\ Shoots(w, use'[active])
      BY <1>2, <1>6, <2>1, <2>2, <2>6 DEF Marks
    <3>3. CASE lo < active /\ Shoots(w, use'[lo])
      <4>1. active' = lo
        BY <3>1, <3>3 DEF Earlier
      <4>2. \A t \in Slots : t < lo => ~Shoots(w, use'[t])
        BY <1>3, <2>2, <2>3, <3>3
      <4>. QED  BY <1>4, <3>3, <4>1, <4>2 DEF IsFirst
    <3>4. CASE ~(lo < active /\ Shoots(w, use'[lo]))
      <4>1. active' = active
        BY <3>1, <3>4 DEF Earlier
      <4>2. \A t \in Slots : t < active => ~Shoots(w, use'[t])
        <5>. SUFFICES ASSUME NEW t \in Slots, t < active, t # lo PROVE ~Shoots(w, use'[t])
          BY <3>4
        <5>1. t # hi
          BY <1>3, <2>2, <2>6
        <5>. QED  BY <1>6, <2>1, <5>1
      <4>. QED  BY <3>2, <4>1, <4>2 DEF IsFirst
    <3>. QED  BY <3>3, <3>4
  <2>7. CASE active # lo /\ active # hi /\ ~(active < hi)
    <3>1. active' = active
      BY <1>1, <2>7
    <3>2. lo < active /\ hi < active
      BY <1>4, <2>2, <2>7
    <3>3. ~Shoots(w, use'[lo]) /\ ~Shoots(w, use'[hi])
      BY <1>4, <1>6, <2>1, <3>2
    <3>4. \A t \in Slots : t < active => ~Shoots(w, use'[t])
      BY <1>6, <2>1, <3>3
    <3>5. active \in Slots => Shoots(w, use'[active])
      BY <1>6, <2>1, <2>7
    <3>. QED  BY <1>2, <3>1, <3>4, <3>5, FirstMeans
  <2>. QED  BY <2>4, <2>5, <2>6, <2>7
<1>10. UNCHANGED tracked
  BY <1>1
<1>. QED  BY <1>2, <1>5, <1>7, <1>8, <1>9, <1>10, MoveKeeps

LEMMA MoveAcrossInv ==
  ASSUME Inv, NEW s \in Slots, NEW d \in Slots, s # d, MoveItem(s, d)
  PROVE  Inv'
<1>1. use[s] # Empty /\ UNCHANGED <<gear, mesos, shop>>
  BY DEF MoveItem
<1>2. CASE MoveToEmpty(s, d)
  BY <1>1, <1>2, MoveToEmptyInv
<1>3. CASE SwapFull(s, d)
  BY <1>1, <1>3, SwapFullInv
<1>4. CASE MergeWhole(s, d)
  BY <1>1, <1>4, MergeWholeInv
<1>5. CASE MergePart(s, d)
  BY <1>1, <1>5, MergePartInv
<1>6. CASE SwapOther(s, d)
  BY <1>1, <1>6, SwapOtherInv
<1>. QED  BY <1>2, <1>3, <1>4, <1>5, <1>6 DEF MoveItem

(* What a stack that is moved onto its own slot becomes. *)
LEMMA OwnSlot ==
  ASSUME Inv, NEW s \in Slots, MoveItem(s, s)
  PROVE  \/ /\ MergeWhole(s, s) /\ use' = [use EXCEPT ![s] = Empty] /\ UNCHANGED active
            /\ tracked' = (tracked /\ s # active)
         \/ /\ UNCHANGED use /\ tracked' \in BOOLEAN /\ (tracked' => tracked)
            /\ active' \in {active, IF active = s THEN FirstFromOr(use, worn.weapon, s, active) ELSE active}
<1>1. /\ use \in Uses /\ use[s] \in Content /\ use[s] # Empty /\ tracked \in BOOLEAN
      /\ s \in Nat /\ UNCHANGED worn
  BY SlotTypes DEF Inv, TypeOK, Kept, Uses, MoveItem, gear
<1>2. ~MoveToEmpty(s, s)
  BY <1>1 DEF MoveToEmpty
<1>3. Swapped(s, s) = use
  BY <1>1 DEF Swapped, Uses
<1>4. CASE SwapFull(s, s)
  BY <1>1, <1>3, <1>4 DEF SwapFull
<1>5. CASE MergeWhole(s, s)
  <2>1. use' = [[use EXCEPT ![s].quantity = @ + use[s].quantity] EXCEPT ![s] = Empty]
    BY <1>5, Zenon DEF MergeWhole
  <2>2. use' = [use EXCEPT ![s] = Empty]
    BY <1>1, <2>1 DEF Uses
  <2>3. UNCHANGED active /\ tracked' = (tracked /\ s # active)
    BY <1>1, <1>5 DEF MergeWhole
  <2>. QED  BY <1>5, <2>2, <2>3
<1>6. CASE MergePart(s, s)
  <2>1. PICK k : k = Room(s)
    OBVIOUS
  <2>2. use' = [use EXCEPT ![s].quantity = @ + k, ![s].quantity = @ - k]
    BY <1>6, <2>1, Zenon DEF MergePart
  <2>3. use[s] \in [item : Item, quantity : Nat] /\ k \in Int
    <3>1. use[s] \in [item : Item, quantity : Nat]
      BY <1>1 DEF Content
    <3>. QED  BY <2>1, <3>1, SlotAssumption DEF Room
  <2>4. UNCHANGED use
    BY <1>1, <2>2, <2>3 DEF Uses
  <2>5. tracked' = (tracked /\ ~Hollow(use'[s])) /\ UNCHANGED active
    BY <1>6 DEF MergePart
  <2>. QED  BY <1>1, <2>4, <2>5
<1>7. CASE SwapOther(s, s)
  <2>1. Min({s, s}) = s /\ Max({s, s}) = s
    BY <1>1, MinOfTwo, MaxOfTwo
  <2>. HIDE DEF Min, Max
  <2>2. /\ use' = use /\ UNCHANGED tracked
        /\ active' = IF active = s THEN FirstFromOr(use', worn.weapon, s, active)
                     ELSE IF active < s THEN Earlier(use', worn.weapon, s, active)
                     ELSE active
    BY <1>3, <1>7, <2>1 DEF SwapOther
  <2>3. ~(active < s) \/ Earlier(use', worn.weapon, s, active) = active
    <3>1. active \in Nat
      BY SlotTypes DEF Inv, Kept, Marks
    <3>. QED  BY <1>1, <3>1 DEF Earlier
  <2>. QED  BY <1>1, <2>2, <2>3
<1>. QED  BY <1>2, <1>4, <1>5, <1>6, <1>7 DEF MoveItem

LEMMA MoveOntoInv ==
  ASSUME Inv, NEW s \in Slots, MoveItem(s, s)
  PROVE  Inv'
<1>1. use \in Uses /\ active \in Marks /\ tracked \in BOOLEAN /\ Kept(tracked, use, active)
  BY DEF Inv, TypeOK, Kept
<1>2. UNCHANGED <<gear, mesos, shop>>
  BY DEF MoveItem
<1>3. CASE /\ use' = [use EXCEPT ![s] = Empty] /\ UNCHANGED active
           /\ tracked' = (tracked /\ s # active)
  <2>1. /\ use' \in Uses /\ use'[s] = Empty /\ \A t \in Slots : t # s => use'[t] = use[t]
    BY <1>1, <1>3, EmptyContent DEF Uses
  <2>2. tracked => Clean(use')
    <3>1. \A t \in Slots : use'[t] = Empty \/ \E a \in Slots : use'[t] = use[a]
      BY <2>1
    <3>. QED  BY <1>1, <3>1, MovedIsClean DEF Kept
  <2>3. CASE tracked'
    <3>1. ASSUME tracked, ~worn.isEmpty, IsFirst(use, worn.weapon, active)
          PROVE  IsFirst(use', worn.weapon, active')
      <4>1. /\ active \in Slots => Shoots(worn.weapon, use[active])
            /\ \A t \in Slots : t < active => ~Shoots(worn.weapon, use[t])
        BY <3>1, FirstMeans
      <4>2. ~Shoots(worn.weapon, use'[s])
        BY <2>1, EmptyContent
      <4>3. s # active
        BY <1>3, <2>3
      <4>4. active \in Slots => Shoots(worn.weapon, use'[active])
        BY <2>1, <4>1, <4>3
      <4>5. \A t \in Slots : t < active => ~Shoots(worn.weapon, use'[t])
        BY <2>1, <4>1, <4>2
      <4>. QED  BY <1>1, <1>3, <4>4, <4>5, FirstMeans
    <3>. QED  BY <1>1, <1>2, <1>3, <2>1, <2>2, <3>1, MoveKeeps
  <2>4. CASE ~tracked'
    <3>1. Outside /\ active' \in Marks /\ tracked' \in BOOLEAN
      BY <1>1, <1>2, <1>3, OutsideSame DEF Outside, gear
    <3>2. TypeOK'
      BY <2>1, <3>1, TypesAfter
    <3>3. Kept(tracked, use, active)'
      BY <2>1, <2>4, <3>1 DEF Kept
    <3>. QED  BY <3>2, <3>3 DEF Inv
  <2>. QED  BY <2>3, <2>4
<1>4. CASE /\ UNCHANGED use /\ tracked' \in BOOLEAN /\ (tracked' => tracked)
           /\ active' \in {active, IF active = s THEN FirstFromOr(use, worn.weapon, s, active) ELSE active}
  <2>1. active' \in Marks
    BY <1>1, <1>4, MarkTypes
  <2>2. tracked' => tracked /\ Clean(use')
    BY <1>1, <1>4 DEF Kept
  <2>3. ASSUME tracked, ~worn.isEmpty, IsFirst(use, worn.weapon, active)
        PROVE  IsFirst(use', worn.weapon, active')
    <3>1. CASE active' = active
      BY <1>4, <2>3, <3>1
    <3>2. CASE active = s /\ active' = FirstFromOr(use, worn.weapon, s, active)
      <4>1. /\ Shoots(worn.weapon, use[s]) /\ s \in Nat /\ s >= s
            /\ \A t \in Slots : t < s => ~Shoots(worn.weapon, use[t])
        BY <2>3, <3>2, FirstMeans, SlotTypes
      <4>2. IsFirst(use, worn.weapon, FirstFromOr(use, worn.weapon, s, active))
        BY <4>1, FoundIsFirst
      <4>. QED  BY <1>4, <3>2, <4>2
    <3>. QED  BY <1>4, <3>1, <3>2
  <2>4. use' \in Uses
    BY <1>1, <1>4
  <2>. QED  BY <1>2, <1>4, <2>1, <2>2, <2>3, <2>4, MoveKeeps
<1>. QED  BY <1>3, <1>4, OwnSlot

LEMMA MoveItemInv ==
  ASSUME Inv, NEW s \in Slots, NEW d \in Slots, MoveItem(s, d)
  PROVE  Inv'
<1>1. CASE s = d
  BY <1>1, MoveOntoInv
<1>2. CASE s # d
  BY <1>2, MoveAcrossInv
<1>. QED  BY <1>1, <1>2

-----------------------------------------------------------------------------
(* Equipment, mesos and the shop *)

(* The slots and the active slot stay as they are. *)
LEMMA BagsSame ==
  ASSUME Inv, UNCHANGED bags, Outside, UNCHANGED <<worn, tracked>>
  PROVE  Inv'
BY KeptStep DEF Inv, bags

LEMMA GainEquipmentInv ==
  ASSUME Inv, NEW x \in Piece, GainEquipment(x)
  PROVE  Inv'
<1>1. /\ UNCHANGED <<bags, worn, elsewhere, mesos, shop, tracked>>
      /\ \E p : equipment' = [equipment EXCEPT ![p] = x]
  BY Zenon DEF GainEquipment
<1>2. equipment' \in [Places -> Piece \cup {Empty}]
  BY <1>1 DEF Inv, TypeOK
<1>3. Outside
  BY <1>1, <1>2, OutsideSame DEF Outside
<1>. QED  BY <1>1, <1>3, BagsSame

LEMMA RemoveEquipInv ==
  ASSUME Inv, NEW p \in Places, RemoveEquip(p), mesos' \in 0..MaxMesos
  PROVE  Inv'
<1>1. UNCHANGED <<bags, worn, elsewhere, shop, tracked>> /\ equipment' = [equipment EXCEPT ![p] = Empty]
  BY DEF RemoveEquip
<1>2. equipment' \in [Places -> Piece \cup {Empty}]
  BY <1>1 DEF Inv, TypeOK
<1>3. Outside
  BY <1>1, <1>2, OutsideSame DEF Outside
<1>. QED  BY <1>1, <1>3, BagsSame

LEMMA EquipInv ==
  ASSUME Inv, NEW p \in Places, Equip(p)
  PROVE  Inv'
<1>1. /\ equipment[p] # Empty
      /\ worn' = [weapon |-> equipment[p], isEmpty |-> FALSE]
      /\ equipment' = [equipment EXCEPT ![p] = IF worn.isEmpty THEN Empty ELSE worn.weapon]
      /\ active' = FirstFromOr(use, worn'.weapon, 0, active)
      /\ UNCHANGED <<use, elsewhere, mesos, shop>> /\ Resync
  BY DEF Equip
<1>2. use \in Uses /\ active \in Marks /\ TypeOK
  BY DEF Inv, Kept
<1>3. equipment' \in [Places -> Piece \cup {Empty}] /\ worn' \in [weapon : Piece, isEmpty : BOOLEAN]
  BY <1>1, <1>2 DEF TypeOK
<1>4. Outside
  BY <1>1, <1>3, OutsideSame DEF Outside
<1>5. use' \in Uses /\ active' \in Marks
  BY <1>1, <1>2, MarkTypes
<1>. QED  BY <1>1, <1>4, <1>5, ResyncStep

LEMMA UnequipInv ==
  ASSUME Inv, NEW p \in Places, Unequip(p)
  PROVE  Inv'
<1>1. /\ active' = NoSlot
      /\ equipment' = [equipment EXCEPT ![p] = worn.weapon]
      /\ worn' = IF equipment[p] = Empty
                 THEN [worn EXCEPT !.isEmpty = TRUE]
                 ELSE [worn EXCEPT !.weapon = equipment[p]]
      /\ UNCHANGED <<use, elsewhere, mesos, shop>> /\ Resync
  BY DEF Unequip
<1>2. use \in Uses /\ TypeOK
  BY DEF Inv, Kept
<1>3. equipment' \in [Places -> Piece \cup {Empty}] /\ worn' \in [weapon : Piece, isEmpty : BOOLEAN]
  BY <1>1, <1>2 DEF TypeOK
<1>4. Outside
  BY <1>1, <1>3, OutsideSame DEF Outside
<1>5. use' \in Uses /\ active' \in Marks
  BY <1>1, <1>2 DEF Marks
<1>. QED  BY <1>1, <1>4, <1>5, ResyncStep

LEMMA RemoveWornInv ==
  ASSUME Inv, RemoveWorn
  PROVE  Inv'
<1>1. /\ worn' = [worn EXCEPT !.isEmpty = TRUE]
      /\ UNCHANGED <<bags, equipment, elsewhere, mesos, shop>> /\ Resync
  BY DEF RemoveWorn
<1>2. worn' \in [weapon : Piece, isEmpty : BOOLEAN]
  BY <1>1 DEF Inv, TypeOK
<1>3. Outside
  BY <1>1, <1>2, OutsideSame DEF Outside
<1>4. use' \in Uses /\ active' \in Marks
  BY <1>1 DEF Inv, Kept, bags
<1>. QED  BY <1>1, <1>3, <1>4, ResyncStep

LEMMA EquipElsewhereInv ==
  ASSUME Inv, NEW p \in Places, EquipElsewhere(p)
  PROVE  Inv'
<1>1. /\ equipment[p] # Empty /\ elsewhere' = equipment[p]
      /\ equipment' = [equipment EXCEPT ![p] = elsewhere]
      /\ active' = FirstFromOr(use, elsewhere', 0, active)
      /\ UNCHANGED <<use, worn, mesos, shop>> /\ Resync
  BY DEF EquipElsewhere
<1>2. use \in Uses /\ active \in Marks /\ TypeOK
  BY DEF Inv, Kept
<1>3. equipment' \in [Places -> Piece \cup {Empty}] /\ elsewhere' \in Piece \cup {Empty}
  BY <1>1, <1>2 DEF TypeOK
<1>4. Outside
  BY <1>1, <1>3, OutsideSame DEF Outside
<1>5. use' \in Uses /\ active' \in Marks
  BY <1>1, <1>2, MarkTypes
<1>. QED  BY <1>1, <1>4, <1>5, ResyncStep

LEMMA ElsewhereInv ==
  ASSUME Inv, (\E p \in Places : UnequipElsewhere(p)) \/ RemoveElsewhere
  PROVE  Inv'
<1>1. TypeOK /\ UNCHANGED <<bags, worn, mesos, shop, tracked>>
  BY DEF Inv, UnequipElsewhere, RemoveElsewhere
<1>2. equipment' \in [Places -> Piece \cup {Empty}] /\ elsewhere' \in Piece \cup {Empty}
  <2>1. ASSUME NEW p \in Places, UnequipElsewhere(p)
        PROVE  equipment' \in [Places -> Piece \cup {Empty}] /\ elsewhere' \in Piece \cup {Empty}
    <3>1. \E w \in Piece \cup {Empty} : equipment' = [equipment EXCEPT ![p] = w]
      BY <1>1, <2>1 DEF UnequipElsewhere, TypeOK
    <3>2. elsewhere' = IF elsewhere = Empty THEN Empty ELSE equipment[p]
      BY <2>1 DEF UnequipElsewhere
    <3>. QED  BY <1>1, <2>1, <3>1, <3>2 DEF TypeOK
  <2>2. CASE RemoveElsewhere
    BY <1>1, <2>2 DEF RemoveElsewhere, TypeOK
  <2>. QED  BY <2>1, <2>2
<1>3. Outside
  BY <1>1, <1>2, OutsideSame DEF Outside
<1>. QED  BY <1>1, <1>3, BagsSame

(* The purse stays within an int32_t, as long as a loss does not exceed it. *)
LEMMA PurseTypes ==
  ASSUME Inv, NEW n \in Int, mesos + n >= 0
  PROVE  PurseAfter(n) \in 0..MaxMesos
<1>1. mesos \in Nat /\ mesos <= MaxMesos /\ MaxMesos \in Nat
  BY SlotAssumption DEF Inv, TypeOK
<1>2. CASE n > 0
  <2>1. mesos + n \in Nat
    BY <1>1
  <2>2. Min({mesos + n, MaxMesos}) \in {mesos + n, MaxMesos} /\ Min({mesos + n, MaxMesos}) <= MaxMesos
    BY <1>1, <2>1, MinOfTwo
  <2>. HIDE DEF Min
  <2>3. PurseAfter(n) = Min({mesos + n, MaxMesos})
    BY <1>2 DEF PurseAfter
  <2>. QED  BY <1>1, <2>1, <2>2, <2>3
<1>3. CASE ~(n > 0)
  BY <1>1, <1>3 DEF PurseAfter
<1>. QED  BY <1>2, <1>3

(* Mesos are gained or dropped. *)
LEMMA MesoInv ==
  ASSUME Inv, NEW n \in 1..MaxMesos, GainMeso(n) \/ DropMeso(n)
  PROVE  Inv'
<1>1. mesos \in Nat /\ n \in Nat /\ n \in Int /\ -n \in Int
  BY SlotAssumption DEF Inv, TypeOK
<1>2. UNCHANGED <<bags, gear, shop, tracked>>
  BY DEF GainMeso, DropMeso
<1>3. mesos' \in 0..MaxMesos
  <2>1. CASE GainMeso(n)
    <3>1. mesos + n >= 0
      BY <1>1
    <3>. QED  BY <1>1, <2>1, <3>1, PurseTypes DEF GainMeso
  <2>2. CASE DropMeso(n)
    <3>1. mesos + (-n) >= 0
      BY <1>1, <2>2 DEF DropMeso
    <3>. QED  BY <1>1, <2>2, <3>1, PurseTypes DEF DropMeso
  <2>. QED  BY <2>1, <2>2
<1>4. Outside /\ UNCHANGED <<worn, tracked>>
  BY <1>2, <1>3, OutsideSame DEF Outside, gear
<1>. QED  BY <1>2, <1>4, BagsSame

(* The client is gone and the character logs in again. *)
LEMMA ReloadInv ==
  ASSUME Inv, use' \in Uses, mesos' \in 0..MaxMesos, Reload
  PROVE  Inv'
<1>1. /\ worn' \in IF Dressed \cap Weapon = {} THEN [weapon : Piece, isEmpty : {TRUE}]
                  ELSE [weapon : Dressed \cap Weapon, isEmpty : {FALSE}]
      /\ elsewhere' \in IF Dressed \subseteq Weapon THEN {Empty} ELSE Dressed \ Weapon
      /\ active' = LoadedActive(use', worn')
      /\ shop' = FALSE /\ UNCHANGED equipment /\ Resync
  BY DEF Reload
<1>2. worn' \in [weapon : Piece, isEmpty : BOOLEAN] /\ elsewhere' \in Piece \cup {Empty}
  <2>1. Dressed \subseteq Piece
    BY DEF Dressed, Inv, TypeOK
  <2>. QED  BY <1>1, <2>1
<1>3. Outside
  BY <1>1, <1>2, OutsideSame DEF Outside
<1>4. active' \in Marks
  BY <1>1, MarkTypes DEF LoadedActive, Marks
<1>. QED  BY <1>1, <1>3, <1>4, ResyncStep

LEMMA ReloginInv ==
  ASSUME Inv, UNCHANGED <<use, mesos>>, Reload
  PROVE  Inv'
<1>1. use' \in Uses /\ mesos' \in 0..MaxMesos
  BY DEF Inv, TypeOK, Kept
<1>. QED  BY <1>1, ReloadInv

(* A shop is opened or closed, or the client kicked. *)
LEMMA ShopInv ==
  ASSUME Inv, (\E known \in BOOLEAN : OpenShop(known)) \/ CloseShop
  PROVE  Inv'
<1>1. UNCHANGED <<use, mesos>> /\ (Reload \/ (shop' \in BOOLEAN /\ UNCHANGED <<active, gear, tracked>>))
  BY DEF OpenShop, CloseShop
<1>2. CASE Reload
  BY <1>1, <1>2, ReloginInv
<1>3. CASE shop' \in BOOLEAN /\ UNCHANGED <<active, gear, tracked>>
  <2>1. Outside /\ UNCHANGED <<worn, tracked>> /\ UNCHANGED bags
    BY <1>1, <1>3, OutsideSame DEF Outside, gear, bags
  <2>. QED  BY <2>1, BagsSame
<1>. QED  BY <1>1, <1>2, <1>3

LEMMA BuyInv ==
  ASSUME Inv, NEW i \in Item, NEW n \in Nat, Buy(i, n)
  PROVE  Inv'
<1>. DEFINE b == CopiedBack(Exchanged(i, 0, i, n))
<1>1. /\ mesos >= Price /\ use' = b.use /\ mesos' = PurseAfter(-Price)
      /\ IF b.left = 0 THEN active' = b.active /\ UNCHANGED <<gear, shop, tracked>> ELSE Reload
  BY Zenon DEF Buy
<1>2. mesos' \in 0..MaxMesos
  <2>1. -Price \in Int /\ mesos + (-Price) >= 0
    BY <1>1, SlotAssumption DEF Inv, TypeOK, Price
  <2>. QED  BY <1>1, <2>1, PurseTypes
<1>3. Kept(tracked, b.use, b.active)
  <2>1. tracked \in BOOLEAN
    BY DEF Inv, TypeOK
  <2>. QED  BY <2>1, ExchangeKeeps
<1>. HIDE DEF b
<1>4. CASE active' = b.active /\ UNCHANGED <<gear, shop, tracked>>
  <2>1. Outside /\ UNCHANGED <<worn, tracked>>
    BY <1>2, <1>4, OutsideSame DEF Outside, gear
  <2>. QED  BY <1>1, <1>3, <1>4, <2>1, KeptStep
<1>5. CASE Reload
  BY <1>1, <1>2, <1>3, <1>5, ReloadInv DEF Kept
<1>. QED  BY <1>1, <1>4, <1>5

LEMMA SellInv ==
  ASSUME Inv, NEW s \in Slots, NEW n \in Nat, n > 0, Sell(s, n)
  PROVE  Inv'
<1>1. Price * n \in Int /\ mesos + (Price * n) >= 0
  BY SlotAssumption DEF Inv, TypeOK, Price
<1>2. mesos' \in 0..MaxMesos
  BY <1>1, PurseTypes DEF Sell
<1>. QED  BY <1>2, RemoveItemInv DEF Sell

LEMMA SellEquipInv ==
  ASSUME Inv, NEW p \in Places, SellEquip(p)
  PROVE  Inv'
<1>1. Price \in Int /\ mesos + Price >= 0
  BY SlotAssumption DEF Inv, TypeOK, Price
<1>2. mesos' \in 0..MaxMesos
  BY <1>1, PurseTypes DEF SellEquip
<1>. QED  BY <1>2, RemoveEquipInv DEF SellEquip

LEMMA RechargeInv ==
  ASSUME Inv, NEW s \in Slots, Recharge(s)
  PROVE  Inv'
<1>. DEFINE w == worn.weapon
            n == use[s].quantity + Room(s)
            u == [use EXCEPT ![s].quantity = n]
<1>1. /\ use[s] # Empty /\ use[s].item \in Rechargeable /\ Room(s) > 0
      /\ Room(s) * Price <= mesos
      /\ use' = [use EXCEPT ![s].quantity = @ + Room(s)]
      /\ active' = Earlier(use', w, s, active)
      /\ mesos' = PurseAfter(-(Room(s) * Price))
      /\ UNCHANGED <<gear, shop, tracked>>
  BY Zenon DEF Recharge
<1>2. use \in Uses /\ active \in Marks /\ tracked \in BOOLEAN /\ Kept(tracked, use, active)
  BY DEF Inv, TypeOK, Kept
<1>3. use[s].quantity \in Nat /\ SlotMax[use[s].item] \in Nat /\ mesos \in Nat
  <2>1. use[s] \in Content
    BY <1>2 DEF Uses
  <2>. QED  BY <1>1, <2>1, ContentTypes, SlotAssumption DEF Inv, TypeOK
<1>4. Room(s) \in Int /\ n = SlotMax[use[s].item]
  BY <1>3 DEF Room
<1>5. n \in Nat /\ n > 0
  BY <1>1, <1>3, <1>4
<1>6. mesos' \in 0..MaxMesos
  <2>1. -(Room(s) * Price) \in Int /\ mesos + (-(Room(s) * Price)) >= 0
    BY <1>1, <1>3, <1>4 DEF Price
  <2>. QED  BY <1>1, <2>1, PurseTypes
<1>7. use' = u
  BY <1>1, Zenon
<1>8. n \in Nat /\ n <= SlotMax[use[s].item] /\ use[s] # Empty
  BY <1>1, <1>3, <1>4
<1>. HIDE DEF n
<1>9. /\ u \in Uses /\ u[s] # Empty /\ u[s].item = use[s].item /\ u[s].quantity = n
      /\ \A t \in Slots : t # s => u[t] = use[t]
  BY <1>2, <1>8, AmountTypes
<1>. HIDE DEF u
<1>10. tracked => Clean(u)
  <2>1. ~Hollow(u[s])
    BY <1>1, <1>9 DEF Hollow
  <2>. QED  BY <1>2, <1>9, <2>1 DEF Kept, Clean
<1>11. ASSUME tracked, ~worn.isEmpty PROVE IsFirst(u, w, Earlier(u, w, s, active))
  <2>1. IsFirst(use, w, active)
    BY <1>2, <1>11 DEF Kept
  <2>2. Shoots(w, use[s]) => Shoots(w, u[s])
    BY <1>5, <1>9 DEF Shoots
  <2>. QED  BY <1>2, <1>9, <2>1, <2>2, EarlierFirst
<1>12. Earlier(u, w, s, active) \in Marks
  BY <1>2 DEF Earlier, Marks
<1>13. Kept(tracked, use', active')
  BY <1>1, <1>7, <1>9, <1>10, <1>11, <1>12 DEF Kept
<1>14. Outside /\ UNCHANGED <<worn, tracked>>
  BY <1>1, <1>6, OutsideSame DEF Outside, gear
<1>. QED  BY <1>13, <1>14, KeptStep

-----------------------------------------------------------------------------
LEMMA InitInv == Init => Inv
<1>. SUFFICES ASSUME Init PROVE Inv
  OBVIOUS
<1>1. /\ use = [s \in Slots |-> Empty] /\ equipment = [p \in Places |-> Empty]
      /\ worn \in [weapon : Weapon, isEmpty : {FALSE}] /\ elsewhere = Empty
      /\ active = LoadedActive(use, worn)
      /\ mesos = 0 /\ shop = FALSE /\ tracked = TRUE
  BY DEF Init
<1>2. use \in Uses /\ \A s \in Slots : use[s] = Empty
  BY <1>1, EmptyContent DEF Uses
<1>3. active = FirstFrom(use, worn.weapon, 0)
  BY <1>1 DEF LoadedActive
<1>4. active \in Marks /\ IsFirst(use, worn.weapon, active)
  BY <1>3, MarkTypes, FirstIs
<1>5. Clean(use)
  BY <1>2, EmptyContent DEF Clean
<1>6. TypeOK
  <2>1. equipment \in [Places -> Piece \cup {Empty}]
    BY <1>1
  <2>2. worn \in [weapon : Piece, isEmpty : BOOLEAN] /\ elsewhere \in Piece \cup {Empty}
    BY <1>1, PieceAssumption
  <2>3. mesos \in 0..MaxMesos /\ {shop, tracked} \subseteq BOOLEAN
    <3>1. 0 \in 0..MaxMesos
      BY SlotAssumption
    <3>2. shop \in BOOLEAN /\ tracked \in BOOLEAN
      BY <1>1
    <3>. QED  BY <1>1, <3>1, <3>2
  <2>. QED  BY <1>2, <1>4, <2>1, <2>2, <2>3 DEF TypeOK, Marks
<1>. QED  BY <1>2, <1>4, <1>5, <1>6 DEF Inv, Kept

LEMMA QuantityTypes == \A n \in Quantity : n \in Nat /\ n > 0
<1>. DEFINE m == Max({SlotMax[i] : i \in Item})
<1>1. Quantity = 1..m
  BY DEF Quantity
<1>. HIDE DEF m
<1>. QED  BY <1>1

LEMMA ShopActionInv ==
  ASSUME Inv, ShopAction
  PROVE  Inv'
<1>1. CASE \E i \in Item, n \in Quantity : Buy(i, n)
  BY <1>1, QuantityTypes, BuyInv
<1>2. CASE \E s \in Slots, n \in Quantity : Sell(s, n)
  BY <1>2, QuantityTypes, SellInv
<1>3. CASE \E p \in Places : SellEquip(p)
  BY <1>3, SellEquipInv
<1>4. CASE \E s \in Slots : Recharge(s)
  BY <1>4, RechargeInv
<1>5. CASE CloseShop
  BY <1>5, ShopInv
<1>. QED  BY <1>1, <1>2, <1>3, <1>4, <1>5 DEF ShopAction

LEMMA NextInv == Inv /\ [Next]_vars => Inv'
<1>. SUFFICES ASSUME Inv, [Next]_vars PROVE Inv'
  OBVIOUS
<1>1. CASE \E j \in Item, n \in Quantity : GainItems(j, 0, j, n) \/ GainItems(j, n, j, 0)
  <2>1. 0 \in Nat
    OBVIOUS
  <2>. QED  BY <1>1, <2>1, QuantityTypes, GainItemsInv
<1>2. CASE \E i, j \in Item : i # j /\ GainItems(i, SlotMax[i], j, 1)
  <2>1. 1 \in Nat /\ \A i \in Item : SlotMax[i] \in Nat
    BY SlotAssumption
  <2>. QED  BY <1>2, <2>1, GainItemsInv
<1>3. CASE \E i \in Item, n \in Quantity : n <= SlotMax[i] /\ PickUp(i, n)
  BY <1>3, QuantityTypes, PickUpInv
<1>4. CASE \E s \in Slots, n \in Quantity : DropItem(s, n)
  <2>1. PICK s \in Slots, n \in Quantity : DropItem(s, n)
    BY <1>4
  <2>2. RemoveItem(s, n) /\ mesos' \in 0..MaxMesos
    BY <2>1 DEF DropItem, Inv, TypeOK
  <2>. QED  BY <2>2, QuantityTypes, RemoveItemInv
<1>5. CASE \E s \in Slots : UseItem(s)
  BY <1>5, UseItemInv
<1>6. CASE \E s, d \in Slots : MoveItem(s, d)
  BY <1>6, MoveItemInv
<1>7. CASE \E w \in Piece : GainEquipment(w)
  BY <1>7, GainEquipmentInv
<1>8. CASE \E p \in Places : Equip(p) \/ Unequip(p) \/ DropEquip(p)
  <2>1. ASSUME NEW p \in Places, DropEquip(p) PROVE Inv'
    <3>1. RemoveEquip(p) /\ mesos' \in 0..MaxMesos
      BY <2>1 DEF DropEquip, Inv, TypeOK
    <3>. QED  BY <3>1, RemoveEquipInv
  <2>. QED  BY <1>8, <2>1, EquipInv, UnequipInv
<1>9. CASE RemoveWorn
  BY <1>9, RemoveWornInv
<1>10. CASE \E n \in 1..MaxMesos : GainMeso(n) \/ DropMeso(n)
  BY <1>10, MesoInv
<1>11. CASE \E known \in BOOLEAN : OpenShop(known)
  BY <1>11, ShopInv
<1>12. CASE RangedAttack
  BY <1>12, QuantityTypes, UseProjectileInv DEF RangedAttack
<1>13. CASE ShopAction
  BY <1>13, ShopActionInv
<1>14. CASE Relogin
  BY <1>14, ReloginInv DEF Relogin
<1>15. CASE (\E p \in Places : EquipElsewhere(p) \/ UnequipElsewhere(p)) \/ RemoveElsewhere
  BY <1>15, EquipElsewhereInv, ElsewhereInv
<1>16. CASE UNCHANGED vars
  BY <1>16 DEF vars, bags, gear, Inv, TypeOK, Kept, Clean, Hollow, IsFirst, Shoots
<1>. QED  BY <1>1, <1>2, <1>3, <1>4, <1>5, <1>6, <1>7, <1>8, <1>9, <1>10, <1>11, <1>12, <1>13,
             <1>14, <1>15, <1>16 DEF Next

-----------------------------------------------------------------------------
(* Totals: how much of an item there is in all slots together.             *)

(* The sums that Total(u, i) goes through. *)
Sums(f, u, i) ==
  f = [n \in 0..UseSlots |-> IF n = 0 THEN 0 ELSE f[n - 1] + Amount(u[n - 1], i)]

LEMMA TotalIsSum ==
  ASSUME NEW u, NEW i
  PROVE  \E f : Sums(f, u, i) /\ Total(u, i) = f[UseSlots]
<1>. DEFINE c == CHOOSE f : f = [n \in 0..UseSlots |-> IF n = 0 THEN 0 ELSE f[n - 1] + Amount(u[n - 1], i)]
<1>1. Total(u, i) = c[UseSlots]
  BY Zenon DEF Total
<1>2. ASSUME NEW f
      PROVE  Turns(f, UseSlots, "add", <<u, i>>, 0) <=> Sums(f, u, i)
  <2>. DEFINE h == [n \in 0..UseSlots |-> IF n = 0 THEN 0 ELSE Turn("add", <<u, i>>, f[n - 1], n - 1)]
              k == [n \in 0..UseSlots |-> IF n = 0 THEN 0 ELSE f[n - 1] + Amount(u[n - 1], i)]
  <2>1. \A n \in 0..UseSlots : Turn("add", <<u, i>>, f[n - 1], n - 1) = f[n - 1] + Amount(u[n - 1], i)
    BY DEF Turn
  <2>2. h = k
    BY <2>1
  <2>3. (Turns(f, UseSlots, "add", <<u, i>>, 0) <=> f = h) /\ (Sums(f, u, i) <=> f = k)
    BY Zenon DEF Turns, Sums
  <2>. QED  BY <2>2, <2>3, Zenon
<1>3. \E f : Turns(f, UseSlots, "add", <<u, i>>, 0)
  BY TurnsExist, SlotTypes
<1>4. \E f : f = [n \in 0..UseSlots |-> IF n = 0 THEN 0 ELSE f[n - 1] + Amount(u[n - 1], i)]
  BY <1>2, <1>3, Zenon DEF Sums
<1>5. Sums(c, u, i)
  BY <1>4, Zenon DEF Sums
<1>. HIDE DEF c
<1>. QED  BY <1>1, <1>5, Zenon

LEMMA AmountNat ==
  ASSUME NEW x \in Content, NEW i
  PROVE  Amount(x, i) \in Nat
BY ContentTypes DEF Amount, Holds

(* Another content of one slot changes the total by the difference. *)
LEMMA OneSlotTotal ==
  ASSUME NEW u \in Uses, NEW u2 \in Uses, NEW s \in Slots, NEW i,
         \A t \in Slots : t # s => u2[t] = u[t]
  PROVE  /\ Total(u, i) \in Int
         /\ Total(u2, i) = Total(u, i) + Amount(u2[s], i) - Amount(u[s], i)
<1>1. PICK f : Sums(f, u, i) /\ Total(u, i) = f[UseSlots]
  BY TotalIsSum, Zenon
<1>2. PICK g : Sums(g, u2, i) /\ Total(u2, i) = g[UseSlots]
  BY TotalIsSum, Zenon
<1>3. PICK a, b : /\ a = Amount(u[s], i) /\ b = Amount(u2[s], i)
                  /\ a \in Nat /\ b \in Nat
  BY AmountNat DEF Uses
<1>4. \A t \in Slots : Amount(u[t], i) \in Nat
  BY AmountNat DEF Uses
<1>. DEFINE Bad == {m \in 0..UseSlots : ~(f[m] \in Int /\ g[m] = f[m] + IF s < m THEN b - a ELSE 0)}
<1>5. ASSUME Bad # {} PROVE FALSE
  <2>1. PICK m \in Bad : \A y \in Bad : m <= y
    <3>1. Bad \in SUBSET Nat
      BY SlotTypes
    <3>. HIDE DEF Bad
    <3>. QED  BY <1>5, <3>1, LeastNatural
  <2>2. m \in 0..UseSlots /\ s \in Nat
    BY SlotTypes
  <2>3. m # 0
    BY <1>1, <1>2, <2>2, SlotTypes DEF Sums
  <2>4. m - 1 \in 0..UseSlots /\ m - 1 \in Slots /\ m - 1 \notin Bad
    <3>1. m - 1 \in Nat /\ m - 1 \in 0..UseSlots /\ m - 1 < UseSlots
      BY <2>2, <2>3, SlotTypes
    <3>. QED  BY <2>1, <3>1, SlotTypes
  <2>5. /\ f[m] = f[m - 1] + Amount(u[m - 1], i)
        /\ g[m] = g[m - 1] + Amount(u2[m - 1], i)
    BY <1>1, <1>2, <2>2, <2>3 DEF Sums
  <2>6. f[m - 1] \in Int /\ g[m - 1] = f[m - 1] + IF s < m - 1 THEN b - a ELSE 0
    BY <2>4
  <2>7. PICK x : x = Amount(u[m - 1], i) /\ x \in Nat
    BY <1>4, <2>4
  <2>8. Amount(u2[m - 1], i) = IF m - 1 = s THEN b ELSE x
    BY <1>3, <2>4, <2>7
  <2>9. m - 1 = s => x = a
    BY <1>3, <2>7
  <2>10. f[m] \in Int /\ g[m] = f[m] + IF s < m THEN b - a ELSE 0
    <3>. HIDE DEF Bad
    <3>. QED  BY <1>3, <2>2, <2>5, <2>6, <2>7, <2>8, <2>9
  <2>. QED  BY <2>1, <2>10
<1>6. UseSlots \in 0..UseSlots /\ s < UseSlots
  BY SlotAssumption DEF Slots
<1>7. f[UseSlots] \in Int /\ g[UseSlots] = f[UseSlots] + (b - a)
  BY <1>5, <1>6
<1>. QED  BY <1>1, <1>2, <1>3, <1>7

(* What the bag b has of item k and, of the item that is put, is to put.   *)
Count(b, i, k) == Total(b.use, k) + (IF k = i THEN b.left ELSE 0)

LEMMA TotalInt ==
  ASSUME NEW u \in Uses, NEW i
  PROVE  Total(u, i) \in Int
<1>1. 0 \in Slots
  BY SlotAssumption DEF Slots
<1>2. \A t \in Slots : t # 0 => u[t] = u[t]
  OBVIOUS
<1>. QED  BY <1>1, <1>2, OneSlotTotal

(* A turn that changes one slot, and what is left by as much. *)
LEMMA TurnCounts ==
  ASSUME NEW i, NEW b \in Bags, NEW b2 \in Bags, NEW s \in Slots, NEW d \in Int,
         \A t \in Slots : t # s => b2.use[t] = b.use[t],
         b.left = b2.left + d,
         \A k \in Item : Amount(b2.use[s], k) = Amount(b.use[s], k) + (IF k = i THEN d ELSE 0)
  PROVE  \A k \in Item : Count(b2, i, k) = Count(b, i, k)
<1>. TAKE k \in Item
<1>1. b.use \in Uses /\ b2.use \in Uses /\ b.left \in Int /\ b2.left \in Int
  BY DEF Bags
<1>2. PICK x, y : x = Total(b.use, k) /\ y = Total(b2.use, k)
  OBVIOUS
<1>3. PICK m : m = Amount(b.use[s], k) /\ m \in Nat
  BY <1>1, AmountNat DEF Uses
<1>4. x \in Int /\ y = x + Amount(b2.use[s], k) - m
  BY <1>1, <1>2, <1>3, OneSlotTotal
<1>5. y = x + (m + (IF k = i THEN d ELSE 0)) - m
  BY <1>3, <1>4
<1>. QED  BY <1>1, <1>2, <1>3, <1>4, <1>5 DEF Count

LEMMA UpCounts ==
  ASSUME NEW i \in Item \ Rechargeable, NEW b \in Bags, NEW s \in Slots
  PROVE  FillUp(i, b, s) \in Bags /\ \A k \in Item : Count(FillUp(i, b, s), i, k) = Count(b, i, k)
<1>1. b.use \in Uses /\ b.use[s] \in Content /\ b.left \in Nat /\ b.active \in Marks
  BY DEF Bags, Uses
<1>2. CASE b.left = 0 \/ ~Holds(b.use[s], i)
  BY <1>2 DEF FillUp
<1>3. CASE b.left # 0 /\ Holds(b.use[s], i)
  <2>1. PICK q, full : q = b.use[s].quantity /\ full = SlotMax[i]
    OBVIOUS
  <2>2. /\ b.use[s].item = i /\ q \in Nat /\ q <= full /\ full \in Nat /\ b.use[s] # Empty
        /\ b.use[s] = Stack(i, q)
    BY <1>1, <1>3, <2>1, ContentTypes DEF Holds
  <2>3. PICK n, d : /\ FillUp(i, b, s) = [b EXCEPT !.use = [b.use EXCEPT ![s].quantity = n], !.left = d]
                    /\ n \in Nat /\ d \in Nat /\ n <= full /\ b.left + q = n + d
    <3>1. CASE q > full - b.left
      <4>1. FillUp(i, b, s) = [b EXCEPT !.use = [b.use EXCEPT ![s].quantity = full],
                                        !.left = b.left - (full - q)]
        BY <1>3, <2>1, <3>1, Zenon DEF FillUp
      <4>2. /\ b.left - (full - q) \in Nat /\ b.left + q = full + (b.left - (full - q))
            /\ full \in Nat /\ full <= full
        BY <1>1, <2>2, <3>1
      <4>. QED  BY <4>1, <4>2, Zenon
    <3>2. CASE ~(q > full - b.left)
      <4>1. FillUp(i, b, s) = [b EXCEPT !.use = [b.use EXCEPT ![s].quantity = q + b.left], !.left = 0]
        BY <1>3, <2>1, <3>2, Zenon DEF FillUp
      <4>2. q + b.left \in Nat /\ q + b.left <= full /\ b.left + q = q + b.left + 0
        BY <1>1, <2>2, <3>2
      <4>. QED  BY <4>1, <4>2
    <3>. QED  BY <3>1, <3>2
  <2>. DEFINE u == [b.use EXCEPT ![s].quantity = n]
  <2>11. n \in Nat /\ d \in Nat /\ n <= full /\ b.left + q = n + d
    BY <2>3, Zenon
  <2>12. n <= SlotMax[b.use[s].item]
    BY <2>1, <2>2, <2>11
  <2>4. u \in Uses /\ u[s] = Stack(i, n) /\ \A t \in Slots : t # s => u[t] = b.use[t]
    <3>0. b.use \in Uses /\ b.use[s] # Empty /\ n \in Nat
      BY <1>1, <2>2, <2>11
    <3>1. u \in Uses /\ u[s] = Stack(b.use[s].item, n)
      <4>1. u \in Uses
        BY <2>12, <3>0, NewAmount, Zenon
      <4>2. u[s] = Stack(b.use[s].item, n)
        <5>1. u = [b.use EXCEPT ![s] = Stack(b.use[s].item, n)]
          <6>1. b.use[s] = Stack(b.use[s].item, b.use[s].quantity)
            BY <2>1, <2>2
          <6>2. [b.use[s] EXCEPT !.quantity = n] = Stack(b.use[s].item, n)
            BY <6>1 DEF Stack
          <6>. QED  BY <6>2, Zenon
        <5>. QED  BY <3>0, <5>1 DEF Uses
      <4>. QED  BY <4>1, <4>2
    <3>2. \A t \in Slots : t # s => u[t] = b.use[t]
      BY <1>1 DEF Uses
    <3>. HIDE DEF u
    <3>. QED  BY <2>2, <3>1, <3>2
  <2>. HIDE DEF u
  <2>5. PICK b2 : b2 = FillUp(i, b, s)
    OBVIOUS
  <2>6. b2 \in Bags /\ b2.use = u /\ b2.left = d
    BY <2>3, <2>4, <2>5 DEF Bags, u
  <2>7. Stack(i, n) # Empty /\ Stack(i, n).item = i /\ Stack(i, n).quantity = n
    BY <2>3, StackTypes
  <2>8. \A k \in Item : Amount(b2.use[s], k) = Amount(b.use[s], k) + (IF k = i THEN n - q ELSE 0)
    BY <2>1, <2>2, <2>3, <2>4, <2>6, <2>7 DEF Amount, Holds
  <2>9. n - q \in Int /\ b.left = b2.left + (n - q)
    BY <1>1, <2>2, <2>11, <2>6
  <2>10. \A k \in Item : Count(b2, i, k) = Count(b, i, k)
    BY <2>4, <2>6, <2>8, <2>9, TurnCounts
  <2>. QED  BY <2>5, <2>6, <2>10
<1>. QED  BY <1>2, <1>3

LEMMA EmptyCounts ==
  ASSUME NEW i \in Item, NEW b \in Bags, NEW s \in Slots
  PROVE  FillEmpty(i, b, s) \in Bags /\ \A k \in Item : Count(FillEmpty(i, b, s), i, k) = Count(b, i, k)
<1>1. b.use \in Uses /\ b.left \in Nat /\ b.active \in Marks
  BY DEF Bags
<1>2. CASE b.left = 0 \/ b.use[s] # Empty
  BY <1>2 DEF FillEmpty
<1>3. CASE b.left # 0 /\ b.use[s] = Empty
  <2>1. PICK n : n = Min({b.left, SlotMax[i]})
    OBVIOUS
  <2>2. n \in Nat /\ n <= b.left /\ n <= SlotMax[i]
    <3>1. SlotMax[i] \in Nat
      BY SlotAssumption
    <3>. QED  BY <1>1, <2>1, <3>1, MinOfTwo
  <2>. DEFINE u == [b.use EXCEPT ![s] = Stack(i, n)]
              a == Earlier(u, worn.weapon, s, b.active)
  <2>3. FillEmpty(i, b, s) = [use |-> u, active |-> a, left |-> b.left - n]
    BY <1>3, <2>1, Zenon DEF FillEmpty
  <2>4. Stack(i, n) \in Content /\ Stack(i, n) # Empty /\ Stack(i, n).item = i /\ Stack(i, n).quantity = n
    BY <2>2, StackTypes
  <2>5. u \in Uses /\ u[s] = Stack(i, n) /\ \A t \in Slots : t # s => u[t] = b.use[t]
    BY <1>1, <2>4 DEF Uses
  <2>6. a \in Marks
    BY <1>1 DEF Earlier, Marks
  <2>. HIDE DEF u, a
  <2>7. PICK b2 : b2 = FillEmpty(i, b, s)
    OBVIOUS
  <2>8. b2 \in Bags /\ b2.use = u /\ b2.left = b.left - n
    BY <1>1, <2>2, <2>3, <2>5, <2>6, <2>7 DEF Bags
  <2>9. \A k \in Item : Amount(b2.use[s], k) = Amount(b.use[s], k) + (IF k = i THEN n ELSE 0)
    BY <1>3, <2>2, <2>4, <2>5, <2>8 DEF Amount, Holds
  <2>10. n \in Int /\ b.left = b2.left + n
    BY <1>1, <2>2, <2>8
  <2>11. \A k \in Item : Count(b2, i, k) = Count(b, i, k)
    BY <2>5, <2>8, <2>9, <2>10, TurnCounts
  <2>. QED  BY <2>7, <2>8, <2>11
<1>. QED  BY <1>2, <1>3

(* A gain puts what it does not leave over, and nothing of other items. *)
LEMMA GainCounts ==
  ASSUME Inv, NEW i \in Item, NEW n \in Nat
  PROVE  LET b == Exchanged(i, 0, i, n)
         IN  b \in Bags /\ \A k \in Item : Count(b, i, k) = Count(Bag(n), i, k)
<1>. DEFINE S == {x \in Bags : \A k \in Item : Count(x, i, k) = Count(Bag(n), i, k)}
<1>0. FALSE \in BOOLEAN
  OBVIOUS
<1>1. Bag(n) \in S
  <2>1. Going(FALSE, Bag(n))
    BY <1>0, BagGoing
  <2>. QED  BY <2>1 DEF Going
<1>2. ASSUME NEW x \in S, NEW s \in Slots, i \notin Rechargeable PROVE FillUp(i, x, s) \in S
  BY <1>2, UpCounts
<1>3. ASSUME NEW x \in S, NEW s \in Slots PROVE FillEmpty(i, x, s) \in S
  BY EmptyCounts
<1>4. [Bag(0) EXCEPT !.left = n] = Bag(n)
  BY DEF Bag
<1>5. Exchanged(i, 0, i, n) = IF n = 0 THEN [Bag(0) EXCEPT !.left = 0]
                              ELSE FillSlots(i, FillStacks(i, [Bag(0) EXCEPT !.left = n]))
  BY Zenon DEF Exchanged
<1>. HIDE DEF S
<1>6. FillStacks(i, Bag(n)) \in S
  BY <1>1, <1>2, FillStacksStays
<1>7. FillSlots(i, FillStacks(i, Bag(n))) \in S
  BY <1>3, <1>6, FillSlotsStays
<1>8. Exchanged(i, 0, i, n) \in S
  <2>1. CASE n = 0
    BY <1>1, <1>4, <1>5, <2>1
  <2>2. CASE n # 0
    BY <1>4, <1>5, <1>7, <2>2
  <2>. QED  BY <2>1, <2>2
<1>. QED  BY <1>8 DEF S

LEMMA GainsFollow ==
  ASSUME Inv
  PROVE  GainsAllOrNothing
<1>. SUFFICES ASSUME NEW j \in Item, NEW n \in Quantity
              PROVE  LET u == CopiedBack(Exchanged(j, 0, j, n)).use
                     IN  u = use \/ \A i \in Item : Total(u, i) = Total(use, i) + (IF i = j THEN n ELSE 0)
  BY DEF GainsAllOrNothing
<1>1. n \in Nat
  BY QuantityTypes
<1>2. PICK b : b = Exchanged(j, 0, j, n)
  OBVIOUS
<1>3. b \in Bags /\ \A k \in Item : Count(b, j, k) = Count(Bag(n), j, k)
  BY <1>1, <1>2, GainCounts
<1>4. Bag(n).use = use /\ Bag(n).left = n /\ use \in Uses
  BY DEF Bag, Inv, Kept
<1>5. CASE b.left = 0
  <2>1. CopiedBack(b) = b
    BY <1>5 DEF CopiedBack
  <2>2. ASSUME NEW i \in Item PROVE Total(b.use, i) = Total(use, i) + (IF i = j THEN n ELSE 0)
    <3>1. Total(b.use, i) \in Int
      BY <1>3, TotalInt DEF Bags
    <3>. QED  BY <1>3, <1>4, <1>5, <3>1 DEF Count
  <2>. QED  BY <1>2, <2>1, <2>2
<1>6. CASE b.left # 0
  <2>1. CopiedBack(b).use = use
    BY <1>6 DEF CopiedBack, Bag
  <2>. QED  BY <1>2, <2>1
<1>. QED  BY <1>5, <1>6

(* Two slots that hold together what they held leave every total alone. *)
LEMMA TwoSlotsTotal ==
  ASSUME use \in Uses, use' \in Uses, NEW s \in Slots, NEW d \in Slots, s # d,
         \A t \in Slots : t # s /\ t # d => use'[t] = use[t], NEW i,
         Amount(use'[s], i) + Amount(use'[d], i) = Amount(use[s], i) + Amount(use[d], i)
  PROVE  Total(use', i) = Total(use, i)
<1>. DEFINE u == [use EXCEPT ![s] = use'[s]]
<1>1. u \in Uses /\ u[s] = use'[s] /\ \A t \in Slots : t # s => u[t] = use[t]
  BY DEF Uses
<1>. HIDE DEF u
<1>2. \A t \in Slots : t # d => use'[t] = u[t]
  BY <1>1
<1>3. PICK a, b, a2, b2 : /\ a = Amount(use[s], i) /\ b = Amount(use[d], i)
                          /\ a2 = Amount(use'[s], i) /\ b2 = Amount(use'[d], i)
                          /\ a \in Nat /\ b \in Nat /\ a2 \in Nat /\ b2 \in Nat
  BY AmountNat DEF Uses
<1>4. Total(use, i) \in Int /\ Total(u, i) = Total(use, i) + a2 - a
  <2>1. Total(use, i) \in Int /\ Total(u, i) = Total(use, i) + Amount(u[s], i) - Amount(use[s], i)
    BY <1>1, OneSlotTotal
  <2>. QED  BY <1>1, <1>3, <2>1
<1>5. Total(use', i) = Total(u, i) + b2 - b
  <2>1. Total(use', i) = Total(u, i) + Amount(use'[d], i) - Amount(u[d], i)
    BY <1>1, <1>2, OneSlotTotal
  <2>. QED  BY <1>1, <1>3, <2>1
<1>6. a2 + b2 = a + b
  BY <1>3
<1>. QED  BY <1>3, <1>4, <1>5, <1>6

LEMMA SwappedTotal ==
  ASSUME use \in Uses, NEW s \in Slots, NEW d \in Slots, s # d, use' = Swapped(s, d), NEW i
  PROVE  Total(use', i) = Total(use, i)
<1>1. /\ use' \in Uses /\ use'[s] = use[d] /\ use'[d] = use[s]
      /\ \A t \in Slots : t # s /\ t # d => use'[t] = use[t]
  BY SwappedSlots
<1>2. Amount(use[s], i) \in Nat /\ Amount(use[d], i) \in Nat
  BY AmountNat DEF Uses
<1>3. Amount(use'[s], i) + Amount(use'[d], i) = Amount(use[s], i) + Amount(use[d], i)
  BY <1>1, <1>2
<1>. QED  BY <1>1, <1>3, TwoSlotsTotal

(* A merge takes k from one stack and adds it to another of the same item. *)
LEMMA MergeTotal ==
  ASSUME Inv, NEW s \in Slots, NEW d \in Slots, s # d, use[s] # Empty,
         MergeWhole(s, d) \/ MergePart(s, d), NEW i
  PROVE  Total(use', i) = Total(use, i)
<1>1. use \in Uses /\ use[s] \in Content /\ use[d] \in Content
  BY DEF Inv, Kept, Uses
<1>2. SameStackable(s, d) /\ use[d] # Empty /\ use[d].item = use[s].item
  BY DEF MergeWhole, MergePart, SameStackable, Holds
<1>3. PICK x, a, b, m : /\ x = use[s].item /\ a = use[s].quantity /\ b = use[d].quantity
                        /\ m = SlotMax[x]
  OBVIOUS
<1>4. /\ a \in Nat /\ b \in Nat /\ m \in Nat /\ a <= m /\ b <= m
      /\ use[s].item = x /\ use[d].item = x /\ Room(d) = m - b
  <2>1. a \in Nat /\ a <= m /\ m \in Nat
    BY <1>1, <1>3, ContentTypes
  <2>2. b \in Nat /\ b <= m
    BY <1>1, <1>2, <1>3, ContentTypes
  <2>. QED  BY <1>2, <1>3, <2>1, <2>2 DEF Room
<1>5. CASE MergeWhole(s, d)
  <2>. DEFINE u == [use EXCEPT ![d].quantity = b + a]
  <2>1. b + a \in Nat /\ b + a <= m
    <3>1. a < m - b
      BY <1>3, <1>4, <1>5 DEF MergeWhole
    <3>. QED  BY <1>4, <3>1
  <2>2. u \in Uses /\ u[d] # Empty /\ u[d].item = x /\ u[d].quantity = b + a
        /\ \A t \in Slots : t # d => u[t] = use[t]
    <3>1. PICK n : n = b + a
      OBVIOUS
    <3>2. n \in Nat /\ n <= SlotMax[use[d].item]
      BY <1>3, <1>4, <2>1, <3>1
    <3>. DEFINE u2 == [use EXCEPT ![d].quantity = n]
    <3>3. use \in Uses /\ use[d] # Empty
      BY <1>1, <1>2
    <3>4. /\ u2 \in Uses /\ u2[d] # Empty /\ u2[d].item = use[d].item /\ u2[d].quantity = n
          /\ \A t \in Slots : t # d => u2[t] = use[t]
      BY <3>2, <3>3, AmountTypes
    <3>. QED  BY <1>4, <3>1, <3>4
  <2>3. use' = [use EXCEPT ![d].quantity = @ + use[s].quantity, ![s] = Empty]
    BY <1>5 DEF MergeWhole
  <2>4. use' = [u EXCEPT ![s] = Empty]
    BY <1>3, <2>3
  <2>. HIDE DEF u
  <2>5. /\ use' \in Uses /\ use'[s] = Empty /\ use'[d] = u[d]
        /\ \A t \in Slots : t # s /\ t # d => use'[t] = use[t]
    BY <2>2, <2>4, EmptyContent DEF Uses
  <2>6. Amount(use'[s], i) + Amount(use'[d], i) = Amount(use[s], i) + Amount(use[d], i)
    BY <1>2, <1>3, <1>4, <2>2, <2>5 DEF Amount, Holds
  <2>. QED  BY <1>1, <2>5, <2>6, TwoSlotsTotal
<1>6. CASE MergePart(s, d)
  <2>. DEFINE r == m - b
              u == [use EXCEPT ![d].quantity = b + r]
              v == [u EXCEPT ![s].quantity = a - r]
  <2>1. r \in Nat /\ b + r = m /\ b + r \in Nat /\ a - r \in Nat /\ a - r <= m
    <3>1. a >= m - b
      BY <1>3, <1>4, <1>6 DEF MergePart
    <3>. QED  BY <1>4, <3>1
  <2>2. u \in Uses /\ u[d] # Empty /\ u[d].item = x /\ u[d].quantity = b + r
        /\ \A t \in Slots : t # d => u[t] = use[t]
    <3>1. PICK n : n = b + r
      OBVIOUS
    <3>2. n \in Nat /\ n <= SlotMax[use[d].item]
      BY <1>3, <1>4, <2>1, <3>1
    <3>. DEFINE u2 == [use EXCEPT ![d].quantity = n]
    <3>3. use \in Uses /\ use[d] # Empty
      BY <1>1, <1>2
    <3>4. /\ u2 \in Uses /\ u2[d] # Empty /\ u2[d].item = use[d].item /\ u2[d].quantity = n
          /\ \A t \in Slots : t # d => u2[t] = use[t]
      BY <3>2, <3>3, AmountTypes
    <3>. QED  BY <1>4, <3>1, <3>4
  <2>3. use' = [use EXCEPT ![d].quantity = @ + Room(d), ![s].quantity = @ - Room(d)]
    BY <1>6 DEF MergePart
  <2>4. use' = v
    BY <1>1, <1>3, <1>4, <2>3 DEF Uses
  <2>. HIDE DEF u
  <2>5. u[s] = use[s]
    BY <2>2
  <2>6. v \in Uses /\ v[s] # Empty /\ v[s].item = x /\ v[s].quantity = a - r
        /\ \A t \in Slots : t # s => v[t] = u[t]
    BY <1>3, <1>4, <2>1, <2>2, <2>5, AmountTypes
  <2>. HIDE DEF v
  <2>7. /\ use' \in Uses /\ use'[d] = u[d]
        /\ \A t \in Slots : t # s /\ t # d => use'[t] = use[t]
    BY <2>2, <2>4, <2>6
  <2>8. Amount(use'[s], i) + Amount(use'[d], i) = Amount(use[s], i) + Amount(use[d], i)
    <3>1. Amount(use'[s], i) = IF x = i THEN a - r ELSE 0
      BY <2>4, <2>6 DEF Amount, Holds
    <3>2. Amount(use'[d], i) = IF x = i THEN b + r ELSE 0
      BY <2>2, <2>7 DEF Amount, Holds
    <3>3. /\ Amount(use[s], i) = IF x = i THEN a ELSE 0
          /\ Amount(use[d], i) = IF x = i THEN b ELSE 0
      BY <1>2, <1>3, <1>4 DEF Amount, Holds
    <3>. QED  BY <1>4, <2>1, <3>1, <3>2, <3>3
  <2>. QED  BY <1>1, <2>7, <2>8, TwoSlotsTotal
<1>. QED  BY <1>5, <1>6

LEMMA MoveAcrossTotal ==
  ASSUME Inv, NEW s \in Slots, NEW d \in Slots, s # d, MoveItem(s, d), NEW i
  PROVE  Total(use', i) = Total(use, i)
<1>1. use \in Uses /\ use[s] # Empty
  BY DEF Inv, Kept, MoveItem
<1>2. CASE MoveToEmpty(s, d)
  <2>1. use' = Swapped(s, d)
    <3>1. use[d] = Empty /\ use' = [use EXCEPT ![d] = use[s], ![s] = Empty]
      BY <1>2 DEF MoveToEmpty
    <3>. QED  BY <1>1, <3>1 DEF Swapped, Uses
  <2>. QED  BY <1>1, <2>1, SwappedTotal
<1>3. CASE SwapFull(s, d) \/ SwapOther(s, d)
  <2>1. use' = Swapped(s, d)
    BY <1>3 DEF SwapFull, SwapOther
  <2>. QED  BY <1>1, <2>1, SwappedTotal
<1>4. CASE MergeWhole(s, d) \/ MergePart(s, d)
  BY <1>1, <1>4, MergeTotal
<1>. QED  BY <1>2, <1>3, <1>4 DEF MoveItem

LEMMA MoveTotal ==
  ASSUME Inv, NEW s \in Slots, NEW d \in Slots, use'[s] # use[s], MoveItem(s, d), NEW i
  PROVE  Total(use', i) = Total(use, i) - (IF s = d THEN Amount(use[s], i) ELSE 0)
<1>1. use \in Uses /\ Total(use, i) \in Int
  BY TotalInt DEF Inv, Kept
<1>2. CASE s # d
  BY <1>1, <1>2, MoveAcrossTotal
<1>3. CASE s = d
  <2>1. use' = [use EXCEPT ![s] = Empty]
    BY <1>3, OwnSlot
  <2>2. use' \in Uses /\ use'[s] = Empty /\ \A t \in Slots : t # s => use'[t] = use[t]
    BY <1>1, <2>1, EmptyContent DEF Uses
  <2>3. Total(use', i) = Total(use, i) + Amount(use'[s], i) - Amount(use[s], i)
    BY <1>1, <2>2, OneSlotTotal
  <2>4. Amount(use'[s], i) = 0 /\ Amount(use[s], i) \in Nat
    BY <1>1, <2>2, AmountNat DEF Amount, Holds, Uses
  <2>. QED  BY <1>1, <1>3, <2>3, <2>4
<1>. QED  BY <1>2, <1>3

-----------------------------------------------------------------------------
LEMMA Invariance == Spec => []Inv
BY InitInv, NextInv, PTL DEF Spec

(* Whatever is gained, moved, merged, shot, bought or recharged, no stack  *)
(* grows beyond slotMax, the purse stays within an int32_t and             *)
(* activeProjectile is a slot or -1.                                       *)
THEOREM TypeCorrect == Spec => []TypeOK
<1>1. Inv => TypeOK
  BY DEF Inv
<1>. QED  BY Invariance, <1>1, PTL

(* Everything that adds, removes or moves a stack leaves activeProjectile  *)
(* at the first slot with ammunition for the weapon worn, but for the      *)
(* steps that the module names.                                            *)
THEOREM FirstIsActive == Spec => []ActiveIsFirst
<1>1. Inv => ActiveIsFirst
  <2>. SUFFICES ASSUME Inv, tracked, ~worn.isEmpty PROVE active = Expected
    BY DEF ActiveIsFirst
  <2>1. IsFirst(use, worn.weapon, active)
    BY DEF Inv, Kept
  <2>. QED  BY <2>1, FirstIs DEF Expected
<1>. QED  BY Invariance, <1>1, PTL

(* A gain from a quest, a script or the shop is all or nothing: the two    *)
(* loops of client_gain_items put a part into every stack and slot, and    *)
(* together exactly what was asked for, or the inventory is not copied     *)
(* back.                                                                   *)
THEOREM GainsAreWhole == Spec => []GainsAllOrNothing
<1>1. Inv => GainsAllOrNothing
  BY GainsFollow
<1>. QED  BY Invariance, <1>1, PTL

(* No branch of client_move_item makes or loses an item of any kind between *)
(* two slots; a stack moved onto its own slot stays or is lost as a whole. *)
THEOREM MovesConserve == Spec => MovesKeepItems
<1>1. Inv => [\A s, d \in Slots :
                use'[s] # use[s] /\ MoveItem(s, d)
                  => \A i \in Item :
                       Total(use', i) = Total(use, i) - (IF s = d THEN Amount(use[s], i) ELSE 0)]_vars
  BY MoveTotal
<1>. QED  BY <1>1, Invariance, PTL DEF MovesKeepItems
=============================================================================
