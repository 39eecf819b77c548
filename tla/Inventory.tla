----------------------------- MODULE Inventory ------------------------------
(***************************************************************************)
(* What a character carries (channel/client.c): the stacks of the use      *)
(* inventory, the equipment inventory, the weapon worn, the purse, and the *)
(* shop.  Every operation that touches the use inventory also looks after  *)
(* activeProjectile, the slot the next arrow or throwing star is taken     *)
(* from: the first slot that fits the weapon.                              *)
(*                                                                         *)
(* An emptied slot keeps its old contents behind the flag isEmpty, and     *)
(* some code reads them: where it does, the model chooses anything.  Slots *)
(* are counted from 0 as in the code; -1 in activeProjectile, a uint8_t,   *)
(* is 255 and so greater than every slot.                                  *)
(*                                                                         *)
(* One of the four inventories of stacks is modelled: the others run the   *)
(* same code without projectiles.  Of the equipment slots the weapon's and *)
(* one other are: nothing keeps a piece of equipment out of a slot it does *)
(* not belong in.  The order of the equipment that is carried is not       *)
(* changed, and what it adds to the stats is in Progress.  Quest items are *)
(* in Quests, the effects of potions and the packets are left out.         *)
(***************************************************************************)
EXTENDS Integers, FiniteSets, FiniteSetsExt, SequencesExt

CONSTANTS
  Item,            \* kinds of stackable items
  Rechargeable,    \* ITEM_IS_RECHARGEABLE: throwing stars and bullets
  Piece,           \* kinds of equipment
  Weapon,          \* those that belong in the weapon slot; the rest belong in the other slot
  Fits,            \* Fits[w]: the items w shoots; none for most
  UseSlots,        \* inventory[0].slotCount
  EquipSlots,      \* equipmentInventory.slotCount
  SlotMax,         \* SlotMax[i]: ItemInfo.slotMax
  MaxMesos         \* INT32_MAX

ASSUME ItemAssumption == Rechargeable \subseteq Item
ASSUME PieceAssumption == Weapon \subseteq Piece
ASSUME FitsAssumption == Fits \in [Piece -> SUBSET Item]
ASSUME SlotAssumption ==
  /\ UseSlots \in 1..252 /\ EquipSlots \in Nat /\ MaxMesos \in Nat \ {0}
  /\ SlotMax \in [Item -> Nat \ {0}]

NoSlot == 255           \* (uint8_t)-1
Slots == 0..(UseSlots - 1)
Places == 0..(EquipSlots - 1)
Price == 1              \* what the shop takes for an item, gives for one and takes to recharge one
CONSTANT Empty          \* isEmpty
ASSUME EmptyAssumption == Empty \notin Piece /\ Empty \notin [item : Item, quantity : Nat]
LowestQuantity == 0     \* bound: down to where use_item() is followed; it counts on below zero

VARIABLES
  use,        \* inventory[0].items: [item, quantity], or Empty
  equipment,  \* equipmentInventory.items: a piece of equipment, or Empty
  worn,       \* equippedEquipment[weapon slot]: [weapon, isEmpty]
  elsewhere,  \* equippedEquipment of the other slot: a piece of equipment, or Empty
  active,     \* activeProjectile
  mesos,
  shop,       \* client->shop # -1
  tracked     \* history: no step has let activeProjectile go astray since it was last set afresh

bags == <<use, active>>
gear == <<equipment, worn, elsewhere>>
vars == <<bags, gear, mesos, shop, tracked>>

-----------------------------------------------------------------------------
(***************************************************************************)
(* Projectiles.                                                            *)
(***************************************************************************)

\* The slot holds something weapon w shoots.  Only rechargeable ammunition is counted.
Shoots(w, slot) ==
  /\ slot # Empty
  /\ slot.item \in Fits[w]
  /\ slot.item \in Rechargeable => slot.quantity > 0

\* The loops "for (i = first; i < slotCount; i++)": first slot from i on that fits.
FirstFrom(u, w, i) ==
  LET good == {s \in Slots : s >= i /\ Shoots(w, u[s])} IN IF good = {} THEN NoSlot ELSE Min(good)

\* The loops that leave activeProjectile alone when they find nothing.
FirstFromOr(u, w, i, old) ==
  LET f == FirstFrom(u, w, i) IN IF f = NoSlot THEN old ELSE f

\* A slot before the active one that fits becomes the active one.
Earlier(u, w, s, old) == IF s < old /\ Shoots(w, u[s]) THEN s ELSE old

Expected == IF worn.isEmpty THEN NoSlot ELSE FirstFrom(use, worn.weapon, 0)

\* A stack of 0 that is not marked as empty, as only rechargeable ones should be.
Hollow(slot) == slot # Empty /\ slot.quantity = 0 /\ slot.item \notin Rechargeable

\* The steps after which activeProjectile may be right or wrong.
Fresh == active = Expected /\ \A s \in Slots : ~Hollow(use[s])
Resync == tracked' = Fresh'

-----------------------------------------------------------------------------
(***************************************************************************)
(* Gaining and losing stacks.  A bag b is a record [use, active, left],    *)
(* left being the amount that is still to be taken or put.                 *)
(***************************************************************************)

Stack(i, n) == [item |-> i, quantity |-> n]
Holds(slot, i) == slot # Empty /\ slot.item = i
Bag(n) == [use |-> use, active |-> active, left |-> n]

\* One turn of the loop that takes left items of kind i, a stack at a time.
TakeFrom(i, b, s) ==
  IF b.left = 0 \/ ~Holds(b.use[s], i) THEN b
  ELSE IF b.use[s].quantity > b.left
       THEN [b EXCEPT !.use[s].quantity = @ - b.left, !.left = 0]
       ELSE [b EXCEPT !.use[s] = Empty, !.left = @ - b.use[s].quantity]

\* MUTANT of FillUp: the stack takes everything.
FillUpOver(i, b, s) ==
  IF b.left = 0 \/ ~Holds(b.use[s], i) THEN b
  ELSE [b EXCEPT !.use[s].quantity = @ + b.left, !.left = 0]

\* One turn of the loop that fills up a stack of kind i.
FillUp(i, b, s) ==
  IF b.left = 0 \/ ~Holds(b.use[s], i) THEN b
  ELSE IF b.use[s].quantity > SlotMax[i] - b.left
       THEN [b EXCEPT !.use[s].quantity = SlotMax[i], !.left = @ - (SlotMax[i] - b.use[s].quantity)]
       ELSE [b EXCEPT !.use[s].quantity = @ + b.left, !.left = 0]

\* MUTANT of FillEmpty: a stack takes everything that is left.
FillEmptyWhole(i, b, s) ==
  IF b.left = 0 \/ b.use[s] # Empty THEN b
  ELSE LET u == [b.use EXCEPT ![s] = Stack(i, Min({b.left, SlotMax[i]}))]
       IN  [use |-> u, active |-> Earlier(u, worn.weapon, s, b.active), left |-> 0]

\* One turn of the loop that puts a new stack into an empty slot.
FillEmpty(i, b, s) ==
  IF b.left = 0 \/ b.use[s] # Empty THEN b
  ELSE LET n == Min({b.left, SlotMax[i]})
           u == [b.use EXCEPT ![s] = Stack(i, n)]
       IN  [use |-> u, active |-> Earlier(u, worn.weapon, s, b.active), left |-> b.left - n]

\* The loops, from the first slot to the last.
Take(i, b) ==
  LET loop[n \in 0..UseSlots] == IF n = 0 THEN b ELSE TakeFrom(i, loop[n - 1], n - 1)
  IN  loop[UseSlots]
FillStacks(i, b) ==
  LET loop[n \in 0..UseSlots] == IF n = 0 THEN b ELSE FillUp(i, loop[n - 1], n - 1)
  IN  IF i \in Rechargeable THEN b ELSE loop[UseSlots]
FillSlots(i, b) ==
  LET loop[n \in 0..UseSlots] == IF n = 0 THEN b ELSE FillEmpty(i, loop[n - 1], n - 1)
  IN  loop[UseSlots]

\* client_gain_items() for a request to give `lost` of one kind and get `got` of another
\* (0: that part is not asked for).  That too few are there to give goes unnoticed.
Exchanged(i, lost, j, got) ==
  LET taken == IF lost = 0 THEN Bag(0) ELSE Take(i, Bag(lost))
  IN  IF got = 0 THEN [taken EXCEPT !.left = 0]
      ELSE FillSlots(j, FillStacks(j, [taken EXCEPT !.left = got]))

\* The inventory is copied back only when everything has found a place.
CopiedBack(b) == IF b.left = 0 THEN b ELSE Bag(b.left)

\* client_gain_items(), as quests and scripts call it.
GainItems(i, lost, j, got) ==
  LET b == CopiedBack(Exchanged(i, lost, j, got))
  IN  /\ b.left = 0 => b.use # use    \* assert(mod_count != 0)
      /\ use' = b.use /\ active' = b.active
      /\ UNCHANGED <<gear, mesos, shop>>
      /\ IF lost > 0 THEN Resync ELSE UNCHANGED tracked

\* client_gain_inventory_item(): a stack of n is picked up.  A rechargeable one takes the
\* first empty slot, or is lost without notice; another fills up stacks and then one slot.
PickUp(i, n) ==
  LET filled == FillStacks(i, Bag(n))
      free == {s \in Slots : use[s] = Empty}
      s == Min(free)
      placed == [filled.use EXCEPT ![s] = Stack(i, filled.left)]
  IN  /\ IF i \notin Rechargeable /\ filled.left = 0
         THEN use' = filled.use /\ UNCHANGED active
         ELSE IF free = {} THEN UNCHANGED bags
         ELSE /\ use' = placed
              /\ active' = IF worn.isEmpty THEN active ELSE Earlier(placed, worn.weapon, s, active)
      /\ UNCHANGED <<gear, mesos, shop, tracked>>

\* The active slot has been emptied: the next one that fits is active.
AfterRemoval(u, s) ==
  IF active = s /\ (u[s] = Empty \/ u[s].quantity = 0) /\ Fits[worn.weapon] # {}
  THEN FirstFrom(u, worn.weapon, s + 1)
  ELSE active

\* client_remove_item(): what is left when it succeeds; a rechargeable stack goes as a whole.
Removed(s, n) ==
  IF use[s].item \in Rechargeable \/ use[s].quantity = n
  THEN [use EXCEPT ![s] = Empty]
  ELSE [use EXCEPT ![s].quantity = @ - n]

CanRemove(s, n) ==
  use[s] # Empty /\ (use[s].item \in Rechargeable \/ use[s].quantity >= n)

RemoveItem(s, n) ==
  /\ CanRemove(s, n)
  /\ use' = Removed(s, n)
  /\ active' = AfterRemoval(use', s)
  /\ UNCHANGED <<gear, shop, tracked>>

\* What a shot of n leaves of a stack that has as many.
Shot(slot, n) ==
  IF slot.item \in Rechargeable \/ slot.quantity # n THEN [slot EXCEPT !.quantity = @ - n] ELSE Empty

\* client_use_projectile(): from the active slot on, the first with at least n of anything is
\* used, whether or not it fits.  An empty slot may still show a quantity; then nothing is lost.
UseProjectile(n) ==
  /\ active # NoSlot
  /\ \E s \in Slots :
       /\ s >= active
       /\ \A t \in active..(s - 1) : use[t] # Empty => use[t].quantity < n
       /\ IF use[s] = Empty THEN UNCHANGED use
          ELSE use[s].quantity >= n /\ use' = [use EXCEPT ![s] = Shot(@, n)]
  /\ active' = AfterRemoval(use', active)
  /\ UNCHANGED <<gear, mesos, shop, tracked>>

\* client_use_item(): what is left of a stack of which one is used.
Drunk(slot) == IF slot.quantity = 1 THEN Empty ELSE [slot EXCEPT !.quantity = @ - 1]

\* Everything that goes into this inventory has a ConsumableInfo (wz_get_consumable_info() knows
\* the whole of Item.wz/Consume), so that ammunition too is drunk, the active slot's included.
UseItem(s) ==
  /\ use[s] # Empty
  /\ use[s].quantity > LowestQuantity
  /\ use' = [use EXCEPT ![s] = Drunk(@)]
  /\ tracked' = (tracked /\ ~(s = active /\ use'[s] = Empty))
  /\ UNCHANGED <<active, gear, mesos, shop>>

-----------------------------------------------------------------------------
(***************************************************************************)
(* client_move_item(), one action per branch.                              *)
(***************************************************************************)

\* MUTANT of MoveToEmpty: the active slot does not follow when the stack moves forward.
MoveToEmptyForgets(s, d) ==
  /\ use[d] = Empty
  /\ use' = [use EXCEPT ![d] = use[s], ![s] = Empty]
  /\ active' = IF s = active /\ d > s THEN active ELSE Earlier(use', worn.weapon, d, active)
  /\ UNCHANGED tracked

\* The destination is empty.
MoveToEmpty(s, d) ==
  /\ use[d] = Empty
  /\ use' = [use EXCEPT ![d] = use[s], ![s] = Empty]
  /\ active' = IF s = active
               THEN IF d < s THEN d ELSE FirstFromOr(use', worn.weapon, s + 1, active)
               ELSE Earlier(use', worn.weapon, d, active)
  /\ UNCHANGED tracked

SameStackable(s, d) == Holds(use[d], use[s].item) /\ use[s].item \notin Rechargeable
Room(d) == SlotMax[use[d].item] - use[d].quantity
Swapped(s, d) == [use EXCEPT ![s] = use[d], ![d] = use[s]]

\* A full stack of the same item: the stacks change places.
SwapFull(s, d) ==
  /\ SameStackable(s, d) /\ Room(d) = 0
  /\ use' = Swapped(s, d)
  /\ UNCHANGED <<active, tracked>>

\* MUTANT of MergeWhole: the amounts are not added up.
MergeWholeLoses(s, d) ==
  /\ SameStackable(s, d) /\ Room(d) # 0 /\ use[s].quantity < Room(d)
  /\ use' = [use EXCEPT ![s] = Empty]
  /\ active' = IF s < d /\ s = active THEN FirstFromOr(use', worn.weapon, s + 1, active) ELSE active
  /\ tracked' = (tracked /\ ~(s = d /\ s = active))

\* The destination takes the whole source with room to spare, and the source is emptied: a
\* stack that is moved onto its own slot is gone, and was not seen to be the active one.
MergeWhole(s, d) ==
  /\ SameStackable(s, d) /\ Room(d) # 0 /\ use[s].quantity < Room(d)
  /\ use' = [use EXCEPT ![d].quantity = @ + use[s].quantity, ![s] = Empty]
  /\ active' = IF s < d /\ s = active THEN FirstFromOr(use', worn.weapon, s + 1, active) ELSE active
  /\ tracked' = (tracked /\ ~(s = d /\ s = active))

\* The destination is filled up.  A source that fits exactly stays with 0 items, not empty.
MergePart(s, d) ==
  /\ SameStackable(s, d) /\ Room(d) # 0 /\ use[s].quantity >= Room(d)
  /\ use' = [use EXCEPT ![d].quantity = @ + Room(d), ![s].quantity = @ - Room(d)]
  /\ tracked' = (tracked /\ ~Hollow(use'[s]))
  /\ UNCHANGED active

\* Another item, or a rechargeable one: the stacks change places.
SwapOther(s, d) ==
  LET lo == Min({s, d})
      hi == Max({s, d})
  IN  /\ use[d] # Empty /\ ~SameStackable(s, d)
      /\ use' = Swapped(s, d)
      /\ active' = IF active = lo THEN FirstFromOr(use', worn.weapon, lo, active)
                   ELSE IF active = hi THEN lo
                   ELSE IF active < hi THEN Earlier(use', worn.weapon, lo, active)
                   ELSE active
      /\ UNCHANGED tracked

\* client_move_item(); main.c asks for it only while no shop is open.  That the destination is
\* another slot than the source is not checked.
MoveItem(s, d) ==
  /\ ~shop /\ use[s] # Empty
  /\ \/ MoveToEmpty(s, d) \/ SwapFull(s, d) \/ MergeWhole(s, d) \/ MergePart(s, d) \/ SwapOther(s, d)
  /\ UNCHANGED <<gear, mesos, shop>>

-----------------------------------------------------------------------------
(***************************************************************************)
(* Equipment.                                                              *)
(***************************************************************************)

\* client_gain_equipment() and client_gain_items() with equipment: the first free place.
GainEquipment(w) ==
  LET free == {p \in Places : equipment[p] = Empty}
  IN  /\ free # {}
      /\ equipment' = [equipment EXCEPT ![Min(free)] = w]
      /\ UNCHANGED <<bags, worn, elsewhere, mesos, shop, tracked>>

\* client_equip() into the weapon slot, whatever it is: what is worn there, if anything, comes
\* back into the place of the other.
Equip(p) ==
  /\ ~shop /\ equipment[p] # Empty
  /\ worn' = [weapon |-> equipment[p], isEmpty |-> FALSE]
  /\ equipment' = [equipment EXCEPT ![p] = IF worn.isEmpty THEN Empty ELSE worn.weapon]
  /\ active' = FirstFromOr(use, worn'.weapon, 0, active)
  /\ UNCHANGED <<use, elsewhere, mesos, shop>>
  /\ Resync

\* client_equip() into another slot: a weapon there chooses the slot of the next shot as if it
\* were the one worn.
EquipElsewhere(p) ==
  /\ ~shop /\ equipment[p] # Empty
  /\ elsewhere' = equipment[p]
  /\ equipment' = [equipment EXCEPT ![p] = elsewhere]
  /\ active' = FirstFromOr(use, elsewhere', 0, active)
  /\ UNCHANGED <<use, worn, mesos, shop>>
  /\ Resync

\* client_unequip() into place p, which may be taken.  That something is worn is not checked:
\* an empty slot leaves a second weapon like the one last worn.
Unequip(p) ==
  /\ ~shop
  /\ active' = NoSlot
  /\ equipment' = [equipment EXCEPT ![p] = worn.weapon]
  /\ worn' = IF equipment[p] = Empty
             THEN [worn EXCEPT !.isEmpty = TRUE]
             ELSE [worn EXCEPT !.weapon = equipment[p]]
  /\ UNCHANGED <<use, elsewhere, mesos, shop>>
  /\ Resync

\* client_unequip() from the other slot; what an empty one gives was there at some time.
UnequipElsewhere(p) ==
  /\ ~shop
  /\ \E w \in IF elsewhere = Empty THEN Piece ELSE {elsewhere} :
       equipment' = [equipment EXCEPT ![p] = w]
  /\ elsewhere' = IF elsewhere = Empty THEN Empty ELSE equipment[p]
  /\ UNCHANGED <<bags, worn, mesos, shop, tracked>>

\* client_remove_equip() of what is worn: activeProjectile is left alone.
RemoveWorn ==
  /\ ~shop /\ ~worn.isEmpty
  /\ worn' = [worn EXCEPT !.isEmpty = TRUE]
  /\ UNCHANGED <<bags, equipment, elsewhere, mesos, shop>>
  /\ Resync

RemoveElsewhere ==
  /\ ~shop /\ elsewhere # Empty
  /\ elsewhere' = Empty
  /\ UNCHANGED <<bags, equipment, worn, mesos, shop, tracked>>

\* client_remove_equip() of equipment that is carried.
RemoveEquip(p) ==
  /\ equipment[p] # Empty
  /\ equipment' = [equipment EXCEPT ![p] = Empty]
  /\ UNCHANGED <<bags, worn, elsewhere, shop, tracked>>

-----------------------------------------------------------------------------
(***************************************************************************)
(* Mesos and the shop.                                                     *)
(***************************************************************************)

\* client_gain_meso(): a gain stops at INT32_MAX; a loss greater than the purse becomes a
\* gain of as much as is there.
PurseAfter(n) ==
  IF n > 0 THEN Min({mesos + n, MaxMesos})
  ELSE IF mesos + n < 0 THEN mesos + mesos ELSE mesos + n

\* Mesos from the ground, a quest or a script.
GainMeso(n) ==
  /\ mesos' = PurseAfter(n)
  /\ UNCHANGED <<bags, gear, shop, tracked>>

\* RECEIVE_OPCODE_MESO_DROP.
DropMeso(n) ==
  /\ mesos >= n
  /\ mesos' = PurseAfter(-n)
  /\ UNCHANGED <<bags, gear, shop, tracked>>

\* RECEIVE_OPCODE_ITEM_MOVE to slot 0: the item is dropped.
DropItem(s, n) == ~shop /\ RemoveItem(s, n) /\ UNCHANGED mesos
DropEquip(p) == ~shop /\ RemoveEquip(p) /\ UNCHANGED mesos

\* The end of client_resume() for a login: which slot is active.
LoadedActive(u, slot) == IF slot.isEmpty THEN NoSlot ELSE FirstFrom(u, slot.weapon, 0)

\* What is worn, in whichever slot.
Dressed == (IF worn.isEmpty THEN {} ELSE {worn.weapon}) \cup ({elsewhere} \ {Empty})

\* The client is gone, by itself or kicked; the character is saved and logs in again.  What was
\* worn goes where it belongs, one of two that belong in the same slot.  What an empty weapon
\* slot shows is whatever the memory held.
Reload ==
  /\ worn' \in IF Dressed \cap Weapon = {} THEN [weapon : Piece, isEmpty : {TRUE}]
               ELSE [weapon : Dressed \cap Weapon, isEmpty : {FALSE}]
  /\ elsewhere' \in IF Dressed \subseteq Weapon THEN {Empty} ELSE Dressed \ Weapon
  /\ active' = LoadedActive(use', worn')
  /\ shop' = FALSE
  /\ UNCHANGED equipment
  /\ Resync

Relogin == UNCHANGED <<use, mesos>> /\ Reload

\* client_open_shop(): an unknown shop is a reason to ban, after it has been noted as open.
OpenShop(known) ==
  /\ ~shop
  /\ UNCHANGED <<use, mesos>>
  /\ IF known THEN shop' = TRUE /\ UNCHANGED <<active, gear, tracked>> ELSE Reload

\* client_buy(): the price is of one item, however many are bought; it is paid even when
\* there is no slot for them, which is a reason to ban.
Buy(i, n) ==
  LET b == CopiedBack(Exchanged(i, 0, i, n))
  IN  /\ shop
      /\ mesos >= Price
      /\ use' = b.use
      /\ mesos' = PurseAfter(-Price)
      /\ IF b.left = 0
         THEN active' = b.active /\ UNCHANGED <<gear, shop, tracked>>
         ELSE Reload

\* client_sell(), which does not ask whether a shop is open.
Sell(s, n) == RemoveItem(s, n) /\ mesos' = PurseAfter(Price * n)
SellEquip(p) == RemoveEquip(p) /\ mesos' = PurseAfter(Price)

\* client_recharge(), which does not either.
Recharge(s) ==
  LET price == Room(s) * Price
  IN  /\ use[s] # Empty /\ use[s].item \in Rechargeable /\ Room(s) > 0
      /\ price <= mesos
      /\ use' = [use EXCEPT ![s].quantity = @ + Room(s)]
      /\ active' = Earlier(use', worn.weapon, s, active)
      /\ mesos' = PurseAfter(-price)
      /\ UNCHANGED <<gear, shop, tracked>>

\* client_close_shop(); without an open shop the client is kicked, as for every other request
\* that makes no sense.
CloseShop ==
  /\ UNCHANGED <<use, mesos>>
  /\ IF shop THEN shop' = FALSE /\ UNCHANGED <<active, gear, tracked>> ELSE Reload

-----------------------------------------------------------------------------
\* A new character carries a weapon and nothing else.
Init ==
  /\ use = [s \in Slots |-> Empty]
  /\ equipment = [p \in Places |-> Empty]
  /\ worn \in [weapon : Weapon, isEmpty : {FALSE}]
  /\ elsewhere = Empty
  /\ active = LoadedActive(use, worn)
  /\ mesos = 0 /\ shop = FALSE /\ tracked = TRUE

Quantity == 1..Max({SlotMax[i] : i \in Item})

(* RANGED_ATTACK: one projectile, or as many as the skill needs.  What the *)
(* attack does to the monsters is in MapMonsters.                          *)
RangedAttack == \E n \in Quantity : UseProjectile(n)

(* SHOP_ACTION                                                             *)
ShopAction ==
  \/ \E i \in Item, n \in Quantity : Buy(i, n)
  \/ \E s \in Slots, n \in Quantity : Sell(s, n)
  \/ \E p \in Places : SellEquip(p)
  \/ \E s \in Slots : Recharge(s)
  \/ CloseShop

Next ==
  \/ \E j \in Item, n \in Quantity : GainItems(j, 0, j, n) \/ GainItems(j, n, j, 0)
  \/ \E i, j \in Item : i # j /\ GainItems(i, SlotMax[i], j, 1)
  \/ \E i \in Item, n \in Quantity : n <= SlotMax[i] /\ PickUp(i, n)
  \/ \E s \in Slots, n \in Quantity : DropItem(s, n)
  \/ \E s \in Slots : UseItem(s)
  \/ \E s, d \in Slots : MoveItem(s, d)
  \/ \E w \in Piece : GainEquipment(w)
  \/ \E p \in Places : Equip(p) \/ Unequip(p) \/ DropEquip(p)
  \/ \E p \in Places : EquipElsewhere(p) \/ UnequipElsewhere(p)
  \/ RemoveWorn \/ RemoveElsewhere
  \/ \E n \in 1..MaxMesos : GainMeso(n) \/ DropMeso(n)
  \/ \E known \in BOOLEAN : OpenShop(known)
  \/ RangedAttack \/ ShopAction
  \/ Relogin

Spec == Init /\ [][Next]_vars

-----------------------------------------------------------------------------

\* No stack grows beyond slotMax, the purse stays within an int32_t and the active slot
\* exists.
TypeOK ==
  /\ \A s \in Slots :
       use[s] # Empty => use[s].item \in Item /\ use[s].quantity \in LowestQuantity..SlotMax[use[s].item]
  /\ equipment \in [Places -> Piece \cup {Empty}]
  /\ worn \in [weapon : Piece, isEmpty : BOOLEAN]
  /\ elsewhere \in Piece \cup {Empty}
  /\ active \in Slots \cup {NoSlot}
  /\ mesos \in 0..MaxMesos
  /\ {shop, tracked} \subseteq BOOLEAN

\* Whatever is moved, merged, swapped, bought, dropped, shot or recharged, activeProjectile is
\* the first slot with ammunition for the weapon worn, from the login or the weapon change
\* that set it right until a step that is known to lose it (an exchange that takes items away,
\* a merge that leaves a stack of 0, the active stack moved onto its own slot, the last of the
\* active slot drunk, a weapon change without ammunition, a weapon put into another slot).
ActiveIsFirst == tracked /\ ~worn.isEmpty => active = Expected

Amount(slot, i) == IF Holds(slot, i) THEN slot.quantity ELSE 0
Total(u, i) ==
  LET sum[n \in 0..UseSlots] == IF n = 0 THEN 0 ELSE sum[n - 1] + Amount(u[n - 1], i)
  IN  sum[UseSlots]

\* A gain from a quest, a script or the shop is all or nothing, over however many stacks and
\* slots the items have to be spread, whatever the inventory looks like.
GainsAllOrNothing ==
  \A j \in Item, n \in Quantity :
    LET u == CopiedBack(Exchanged(j, 0, j, n)).use
    IN  u = use \/ \A i \in Item : Total(u, i) = Total(use, i) + (IF i = j THEN n ELSE 0)

\* Moving, merging and swapping stacks neither makes nor loses an item of any kind.  Only a
\* move onto its own slot does, if it changes the slot: it loses the stack, no more and no less.
MovesKeepItems ==
  [][\A s, d \in Slots :
       use'[s] # use[s] /\ MoveItem(s, d)
         => \A i \in Item :
              Total(use', i) = Total(use, i) - (IF s = d THEN Amount(use[s], i) ELSE 0)]_vars
=============================================================================
