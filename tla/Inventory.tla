------------------------------ MODULE Inventory ------------------------------
(***************************************************************************)
(* One player's inventory and equipment: InventoryService and PlayerService*)
(* (src/application/services/) over prisma-inventory-repository.ts and     *)
(* prisma-player-repository.ts.  The inventories of two players share      *)
(* nothing, and a player's is created with the player.                     *)
(*                                                                         *)
(* Items are granted by the admin API and removed, equipped and unequipped *)
(* by the player.  addItem and removeItem are transactions at READ         *)
(* COMMITTED that read the inventory without a lock and then write a       *)
(* quantity computed from what they read.  equipItem and unequipItem read  *)
(* the whole equipment and write it back.                                  *)
(***************************************************************************)
EXTENDS Integers, FiniteSets

CONSTANTS
  Keys,         \* the item keys
  Slots,        \* EQUIPMENT_SLOTS
  Requests,     \* the requests that may be in flight at a time
  Amounts,      \* the quantities asked for
  Capacity,     \* Inventory.capacity
  MaxQuantity   \* bound: an item's quantity

ASSUME RequestsAssumption == IsFiniteSet(Requests)
ASSUME NumbersAssumption ==
  /\ Amounts \subseteq Nat \ {0}
  /\ Capacity \in Nat \ {0}
  /\ MaxQuantity \in Nat

VARIABLES
  items,      \* the InventoryItem rows: Map itemKey -> quantity
  equipment,  \* Player.equipment: Map slot -> itemKey
  granted,    \* how many of an item grants were answered with success
  request     \* what each request in flight has done and read so far

vars == <<items, equipment, granted, request>>

Idle == [at |-> "idle"]
Goto(q, next) == request' = [request EXCEPT ![q] = next]
Finish(q) == Goto(q, Idle)

Put(f, k, v) == [x \in DOMAIN f \cup {k} |-> IF x = k THEN v ELSE f[x]]
Without(f, k) == [x \in DOMAIN f \ {k} |-> f[x]]

Init ==
  /\ items = << >>
  /\ equipment = << >>
  /\ granted = [k \in Keys |-> 0]
  /\ request = [q \in Requests |-> Idle]

-----------------------------------------------------------------------------
(* addItem *)

\* Slip: off by one at the last free place.
HasPlaceAtLast == Cardinality(DOMAIN items) <= Capacity

HasPlace == Cardinality(DOMAIN items) < Capacity

\* The inventory is read: an item it has is to be updated, another one inserted,
\* unless the inventory is full.
GrantRead(q, k, amount) ==
  /\ request[q] = Idle
  /\ granted[k] + amount <= MaxQuantity
  /\ IF k \in DOMAIN items
     THEN Goto(q, [at |-> "grant.update", key |-> k, amount |-> amount,
                   quantity |-> items[k] + amount, found |-> TRUE])
     ELSE /\ HasPlace
          /\ Goto(q, [at |-> "grant.insert", key |-> k, amount |-> amount])
  /\ UNCHANGED <<items, equipment, granted>>

\* Slip: the new quantity is added to the old one.
RaisedTwice(q) == [items EXCEPT ![request[q].key] = @ + request[q].quantity]

Raised(q) == [items EXCEPT ![request[q].key] = request[q].quantity]

\* The row that was read is updated by its id; if it has been deleted since, the
\* update fails.
GrantUpdate(q) ==
  /\ request[q].at = "grant.update"
  /\ IF request[q].found
     THEN /\ items' = Raised(q)
          /\ granted' = [granted EXCEPT ![request[q].key] = @ + request[q].amount]
     ELSE UNCHANGED <<items, granted>>
  /\ Finish(q)
  /\ UNCHANGED <<equipment>>

\* The insert, unless the unique index on (inventoryId, itemKey) refuses it.
GrantInsert(q) ==
  /\ request[q].at = "grant.insert"
  /\ LET k == request[q].key IN
     IF k \notin DOMAIN items
     THEN /\ items' = Put(items, k, request[q].amount)
          /\ granted' = [granted EXCEPT ![k] = @ + request[q].amount]
     ELSE UNCHANGED <<items, granted>>
  /\ Finish(q)
  /\ UNCHANGED <<equipment>>

-----------------------------------------------------------------------------
(* removeItem *)

\* Slip: the last of an item is not told apart from the others.
RemovalAlways(k, amount) == "remove.update"

Removal(k, amount) == IF items[k] = amount THEN "remove.delete" ELSE "remove.update"

\* The row read covers the amount: what is left is written, or the row deleted.
RemoveRead(q, k, amount) ==
  /\ request[q] = Idle
  /\ k \in DOMAIN items
  /\ items[k] >= amount
  /\ Goto(q, [at |-> Removal(k, amount), key |-> k,
              quantity |-> items[k] - amount, found |-> TRUE])
  /\ UNCHANGED <<items, equipment, granted>>

RemoveUpdate(q) ==
  /\ request[q].at = "remove.update"
  /\ items' = IF request[q].found
              THEN [items EXCEPT ![request[q].key] = request[q].quantity] ELSE items
  /\ Finish(q)
  /\ UNCHANGED <<equipment, granted>>

\* The requests that hold the deleted row's id no longer find it.
RemoveDelete(q) ==
  /\ request[q].at = "remove.delete"
  /\ LET k == request[q].key IN
     IF request[q].found
     THEN /\ items' = Without(items, k)
          /\ request' = [x \in Requests |->
               IF x = q THEN Idle
               ELSE IF /\ request[x].at \in {"grant.update", "remove.update", "remove.delete"}
                       /\ request[x].key = k
               THEN [request[x] EXCEPT !.found = FALSE]
               ELSE request[x]]
     ELSE Finish(q) /\ UNCHANGED items
  /\ UNCHANGED <<equipment, granted>>

-----------------------------------------------------------------------------
(* equipItem and unequipItem *)

\* Slip: the inventory is not looked at.
OwnedAnyway(k) == TRUE

Owned(k) == k \in DOMAIN items

\* The inventory has the item; nothing is reserved.
EquipRead(q, slot, k) ==
  /\ request[q] = Idle
  /\ Owned(k)
  /\ Goto(q, [at |-> "equip.profile", slot |-> slot, key |-> k])
  /\ UNCHANGED <<items, equipment, granted>>

\* setEquipmentSlot, with an item and without.
Equipped(slot, k) == Put(equipment, slot, k)

Unequipped(slot) == Without(equipment, slot)

EquipProfile(q) ==
  /\ request[q].at = "equip.profile"
  /\ Goto(q, [at |-> "equip.write", equipment |-> Equipped(request[q].slot, request[q].key)])
  /\ UNCHANGED <<items, equipment, granted>>

UnequipRead(q, slot) ==
  /\ request[q] = Idle
  /\ Goto(q, [at |-> "equip.write", equipment |-> Unequipped(slot)])
  /\ UNCHANGED <<items, equipment, granted>>

\* updateEquipment writes the whole column.
EquipWrite(q) ==
  /\ request[q].at = "equip.write"
  /\ equipment' = request[q].equipment
  /\ Finish(q)
  /\ UNCHANGED <<items, granted>>

\* A statement fails or the process ends: the transaction rolls back.
Fail(q) ==
  /\ request[q] # Idle
  /\ Finish(q)
  /\ UNCHANGED <<items, equipment, granted>>

-----------------------------------------------------------------------------
Next ==
  \E q \in Requests :
    \/ GrantUpdate(q)
    \/ GrantInsert(q)
    \/ RemoveUpdate(q)
    \/ RemoveDelete(q)
    \/ EquipProfile(q)
    \/ EquipWrite(q)
    \/ Fail(q)
    \/ \E k \in Keys : \/ \E a \in Amounts : GrantRead(q, k, a) \/ RemoveRead(q, k, a)
                       \/ \E slot \in Slots : EquipRead(q, slot, k)
    \/ \E slot \in Slots : UnequipRead(q, slot)

Spec == Init /\ [][Next]_vars

-----------------------------------------------------------------------------
(* Properties *)

\* The inventory holds positive quantities only, and the equipment item keys.
TypeOK ==
  /\ DOMAIN items \subseteq Keys
  /\ \A k \in DOMAIN items : items[k] \in Nat \ {0}
  /\ DOMAIN equipment \subseteq Slots
  /\ \A slot \in DOMAIN equipment : equipment[slot] \in Keys
  /\ granted \in [Keys -> Nat]
  /\ DOMAIN request = Requests

\* The grants that have passed the capacity check and not inserted yet.
Inserting == {q \in Requests : request[q].at = "grant.insert"}

\* What the capacity check guarantees when grants do interleave: each request in
\* flight may overfill the inventory by one row beyond the last free place.
OverfillBound ==
  Cardinality(DOMAIN items) + Cardinality(Inserting) <= Capacity - 1 + Cardinality(Requests)

Quantity(k) == IF k \in DOMAIN items THEN items[k] ELSE 0

\* Updates that overlap are lost, yet none is counted twice: there is never more
\* of an item than was granted.
NoMoreThanGranted == \A k \in Keys : Quantity(k) <= granted[k]

\* An item may be removed after it was equipped, or between the check and the write,
\* and an overlapping write may bring an old column back: but what is worn has been
\* the player's, however the requests interleave.
WornWasGranted == \A slot \in DOMAIN equipment : granted[equipment[slot]] > 0
=============================================================================
