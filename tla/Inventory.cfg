CONSTANTS
  Empty = Empty
  Arrow = Arrow
  Star = Star
  Bow = Bow
  Claw = Claw
  Item = {Arrow, Star}
  Rechargeable = {Star}
  Piece = {Bow, Claw}
  Weapon = {Bow, Claw}
  Fits <- Ammunition
  UseSlots = 3
  EquipSlots = 1
  SlotMax <- StackSizes
  MaxMesos = 1
SPECIFICATION Spec
INVARIANTS TypeOK ActiveIsFirst GainsAllOrNothing
PROPERTY MovesKeepItems
