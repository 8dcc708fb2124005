--------------------------- MODULE Inventory_proofs ---------------------------
(***************************************************************************)
(* Theorems about Inventory for any keys, slots, amounts, capacity and     *)
(* number of requests in flight.                                           *)
(***************************************************************************)
EXTENDS Inventory, FiniteSetTheorems, TLAPS

-----------------------------------------------------------------------------
(* The inductive invariant *)

Positive == Nat \ {0}

\* What a request in flight holds, by the statement it has come to.
GrantUpdating ==
  [at : {"grant.update"}, key : Keys, amount : Positive, quantity : Positive, found : BOOLEAN]
GrantInserting == [at : {"grant.insert"}, key : Keys, amount : Positive]
RemoveUpdating == [at : {"remove.update"}, key : Keys, quantity : Positive, found : BOOLEAN]
RemoveDeleting == [at : {"remove.delete"}, key : Keys, quantity : Nat, found : BOOLEAN]
EquipReading == [at : {"equip.profile"}, slot : Slots, key : Keys]
EquipWriting == [at : {"equip.write"}, equipment : UNION {[S -> Keys] : S \in SUBSET Slots}]

Holding ==
  {Idle} \cup GrantUpdating \cup GrantInserting \cup RemoveUpdating \cup RemoveDeleting
         \cup EquipReading \cup EquipWriting

\* TypeOK, with the rows and the column as functions and the requests' data typed.
Rows ==
  /\ items \in [DOMAIN items -> Positive]
  /\ IsFiniteSet(DOMAIN items)
  /\ equipment \in UNION {[S -> Keys] : S \in SUBSET Slots}
  /\ request \in [Requests -> Holding]

\* What a request will write does not exceed what has been granted, counting what
\* it grants itself: granted never falls, so a stale read stays within it.
Backed ==
  \A q \in Requests :
    /\ request[q].at = "grant.update" =>
         request[q].quantity <= granted[request[q].key] + request[q].amount
    /\ request[q].at = "remove.update" => request[q].quantity <= granted[request[q].key]

\* What a request will put on has been granted.
Tried ==
  \A q \in Requests :
    /\ request[q].at = "equip.profile" => granted[request[q].key] > 0
    /\ request[q].at = "equip.write" =>
         \A slot \in DOMAIN request[q].equipment : granted[request[q].equipment[slot]] > 0

IInv == TypeOK /\ Rows /\ Backed /\ Tried /\ NoMoreThanGranted /\ WornWasGranted

-----------------------------------------------------------------------------
(* Lemmas about the operators *)

LEMMA Kinds ==
  ASSUME Rows, NEW q \in Requests
  PROVE  /\ request[q].at = "grant.update" => request[q] \in GrantUpdating
         /\ request[q].at = "grant.insert" => request[q] \in GrantInserting
         /\ request[q].at = "remove.update" => request[q] \in RemoveUpdating
         /\ request[q].at = "remove.delete" => request[q] \in RemoveDeleting
         /\ request[q].at = "equip.profile" => request[q] \in EquipReading
         /\ request[q].at = "equip.write" => request[q] \in EquipWriting
<1>1. request[q] \in Holding
  BY DEF Rows
<1> QED BY <1>1 DEF Holding, Idle, GrantUpdating, GrantInserting, RemoveUpdating, RemoveDeleting,
                    EquipReading, EquipWriting

LEMMA AmountsPositive == Amounts \subseteq Positive
BY NumbersAssumption DEF Positive

\* setEquipmentSlot gives a column again.
LEMMA ColumnTyped ==
  ASSUME NEW worn \in UNION {[S -> Keys] : S \in SUBSET Slots}, NEW slot \in Slots, NEW k \in Keys
  PROVE  /\ Put(worn, slot, k) \in UNION {[S -> Keys] : S \in SUBSET Slots}
         /\ Without(worn, slot) \in UNION {[S -> Keys] : S \in SUBSET Slots}
<1>1. PICK S \in SUBSET Slots : worn \in [S -> Keys]
  OBVIOUS
<1>2. Put(worn, slot, k) \in [S \cup {slot} -> Keys]
  BY <1>1 DEF Put
<1>3. Without(worn, slot) \in [S \ {slot} -> Keys]
  BY <1>1 DEF Without
<1>4. S \cup {slot} \in SUBSET Slots /\ S \ {slot} \in SUBSET Slots
  OBVIOUS
<1> QED BY <1>2, <1>3, <1>4

\* The history of grants never falls, so what it backs stays backed.
LEMMA Grows ==
  ASSUME IInv, granted' \in [Keys -> Nat], \A k \in Keys : granted'[k] >= granted[k],
         NEW x \in Requests, request'[x] = request[x]
  PROVE  /\ request'[x].at = "grant.update" =>
              request'[x].quantity <= granted'[request'[x].key] + request'[x].amount
         /\ request'[x].at = "remove.update" => request'[x].quantity <= granted'[request'[x].key]
         /\ request'[x].at = "equip.profile" => granted'[request'[x].key] > 0
         /\ request'[x].at = "equip.write" =>
              \A slot \in DOMAIN request'[x].equipment : granted'[request'[x].equipment[slot]] > 0
<1>1. request[x].at = "grant.update" => request[x].quantity <= granted'[request[x].key] + request[x].amount
  BY Kinds DEF IInv, Backed, GrantUpdating, Positive, TypeOK
<1>2. request[x].at = "remove.update" => request[x].quantity <= granted'[request[x].key]
  BY Kinds DEF IInv, Backed, RemoveUpdating, Positive, TypeOK
<1>3. request[x].at = "equip.profile" => granted'[request[x].key] > 0
  BY Kinds DEF IInv, Tried, EquipReading, TypeOK
<1>4. request[x].at = "equip.write" =>
        \A slot \in DOMAIN request[x].equipment : granted'[request[x].equipment[slot]] > 0
  <2> SUFFICES ASSUME request[x].at = "equip.write", NEW slot \in DOMAIN request[x].equipment
               PROVE  granted'[request[x].equipment[slot]] > 0
    OBVIOUS
  <2>1. request[x].equipment[slot] \in Keys
    BY Kinds DEF IInv, EquipWriting
  <2>2. granted[request[x].equipment[slot]] > 0
    BY DEF IInv, Tried
  <2> QED BY <2>1, <2>2 DEF IInv, TypeOK
<1> QED BY <1>1, <1>2, <1>3, <1>4

\* A request goes on to a statement for which the invariant holds; the others wait.
LEMMA OneRequestMoves ==
  ASSUME IInv, granted' \in [Keys -> Nat], \A k \in Keys : granted'[k] >= granted[k],
         NEW q \in Requests, NEW next \in Holding, Goto(q, next),
         next.at = "grant.update" => next.quantity <= granted'[next.key] + next.amount,
         next.at = "remove.update" => next.quantity <= granted'[next.key],
         next.at = "equip.profile" => granted'[next.key] > 0,
         next.at = "equip.write" => \A slot \in DOMAIN next.equipment : granted'[next.equipment[slot]] > 0
  PROVE  request' \in [Requests -> Holding] /\ Backed' /\ Tried'
<1>1. request' = [request EXCEPT ![q] = next] /\ request \in [Requests -> Holding]
  BY DEF Goto, IInv, Rows
<1>2. request' \in [Requests -> Holding]
  BY <1>1
<1>3. request'[q] = next /\ \A x \in Requests \ {q} : request'[x] = request[x]
  BY <1>1
<1>4. Backed'
  BY <1>3, Grows DEF Backed
<1>5. Tried'
  BY <1>3, Grows DEF Tried
<1> QED BY <1>2, <1>4, <1>5

LEMMA IdleHolds == Idle \in Holding /\ Idle.at = "idle"
BY DEF Idle, Holding

\* The part of the invariant about rows and columns, from what a step does to them.
LEMMA TypeFromRows ==
  ASSUME Rows', DOMAIN items' \subseteq Keys, granted' \in [Keys -> Nat]
  PROVE  TypeOK'
<1>1. \A k \in DOMAIN items' : items'[k] \in Nat \ {0}
  BY DEF Rows, Positive
<1>2. /\ DOMAIN equipment' \subseteq Slots
      /\ \A slot \in DOMAIN equipment' : equipment'[slot] \in Keys
  BY DEF Rows
<1>3. DOMAIN request' = Requests
  BY DEF Rows
<1> QED BY <1>1, <1>2, <1>3 DEF TypeOK

\* A step that only moves a request on keeps the invariant.
LEMMA OnlyRequestMoves ==
  ASSUME IInv, UNCHANGED <<items, equipment, granted>>,
         request' \in [Requests -> Holding], Backed', Tried'
  PROVE  IInv'
<1>1. Rows'
  BY DEF IInv, Rows
<1>2. TypeOK'
  BY <1>1 DEF IInv, TypeOK
<1>3. NoMoreThanGranted' /\ WornWasGranted'
  BY DEF IInv, NoMoreThanGranted, WornWasGranted, Quantity
<1> QED BY <1>1, <1>2, <1>3 DEF IInv

LEMMA GrantedStays ==
  ASSUME IInv, granted' = granted
  PROVE  granted' \in [Keys -> Nat] /\ \A k \in Keys : granted'[k] >= granted[k]
BY DEF IInv, TypeOK

-----------------------------------------------------------------------------
(* One lemma for each action *)

LEMMA InitEstablishes == Init => IInv
<1> SUFFICES ASSUME Init PROVE IInv
  OBVIOUS
<1>1. DOMAIN items = {} /\ DOMAIN equipment = {}
  BY DEF Init
<1>2. Rows
  <2>1. items \in [{} -> Positive] /\ equipment \in [{} -> Keys]
    BY DEF Init
  <2>2. request \in [Requests -> Holding]
    BY IdleHolds DEF Init
  <2>3. {} \in SUBSET Slots
    OBVIOUS
  <2>4. equipment \in UNION {[S -> Keys] : S \in SUBSET Slots}
    BY <2>1, <2>3
  <2> QED BY <1>1, <2>1, <2>2, <2>4, FS_EmptySet DEF Rows
<1>3. TypeOK
  BY <1>1 DEF Init, TypeOK
<1>4. Backed /\ Tried
  BY IdleHolds DEF Init, Backed, Tried
<1>5. NoMoreThanGranted /\ WornWasGranted
  BY <1>1 DEF Init, NoMoreThanGranted, WornWasGranted, Quantity
<1> QED BY <1>2, <1>3, <1>4, <1>5 DEF IInv

LEMMA GrantReadPreserves ==
  ASSUME IInv, NEW q \in Requests, NEW k \in Keys, NEW amount \in Amounts, GrantRead(q, k, amount)
  PROVE  IInv'
<1>1. amount \in Positive /\ UNCHANGED <<items, equipment, granted>>
  BY AmountsPositive DEF GrantRead
<1>2. CASE k \in DOMAIN items
  <2> DEFINE next == [at |-> "grant.update", key |-> k, amount |-> amount,
                      quantity |-> items[k] + amount, found |-> TRUE]
  <2>1. Goto(q, next)
    BY <1>2 DEF GrantRead
  <2>2. items[k] \in Positive /\ items[k] <= granted[k] /\ granted[k] \in Nat
    BY <1>2 DEF IInv, NoMoreThanGranted, Quantity, TypeOK, Positive
  <2>3. items[k] + amount \in Positive /\ items[k] + amount <= granted'[k] + amount
    BY <1>1, <2>2 DEF Positive
  <2>4. next \in GrantUpdating
    BY <1>1, <2>3 DEF GrantUpdating
  <2>5. next \in Holding
    BY <2>4 DEF Holding
  <2>6. /\ next.at = "grant.update" /\ next.quantity = items[k] + amount
        /\ next.key = k /\ next.amount = amount
    OBVIOUS
  <2> HIDE DEF next
  <2> QED BY <1>1, <2>1, <2>3, <2>5, <2>6, OneRequestMoves, OnlyRequestMoves, GrantedStays
<1>3. CASE k \notin DOMAIN items
  <2> DEFINE next == [at |-> "grant.insert", key |-> k, amount |-> amount]
  <2>1. Goto(q, next)
    BY <1>3 DEF GrantRead
  <2>2. next \in Holding
    BY <1>1 DEF Holding, GrantInserting
  <2>3. next.at = "grant.insert"
    OBVIOUS
  <2> HIDE DEF next
  <2> QED BY <1>1, <2>1, <2>2, <2>3, OneRequestMoves, OnlyRequestMoves, GrantedStays
<1> QED BY <1>2, <1>3

\* The answer of a grant: what is written is covered by what is then granted.
LEMMA GrantCounts ==
  ASSUME IInv, NEW k \in Keys, NEW amount \in Positive, NEW quantity \in Positive,
         quantity <= granted[k] + amount,
         granted' = [granted EXCEPT ![k] = @ + amount],
         DOMAIN items' \subseteq Keys, IsFiniteSet(DOMAIN items'),
         items' \in [DOMAIN items' -> Positive],
         \A x \in DOMAIN items' : items'[x] = IF x = k THEN quantity ELSE items[x],
         DOMAIN items' \subseteq DOMAIN items \cup {k},
         equipment' = equipment
  PROVE  /\ granted' \in [Keys -> Nat] /\ \A x \in Keys : granted'[x] >= granted[x]
         /\ NoMoreThanGranted' /\ WornWasGranted'
<1>1. \A x \in Keys : granted'[x] = (IF x = k THEN granted[x] + amount ELSE granted[x]) /\ granted[x] \in Nat
  BY DEF IInv, TypeOK
<1>2. granted' \in [Keys -> Nat] /\ \A x \in Keys : granted'[x] >= granted[x]
  BY <1>1 DEF Positive, IInv, TypeOK
<1>3. NoMoreThanGranted'
  <2> SUFFICES ASSUME NEW x \in Keys, x \in DOMAIN items'
               PROVE  items'[x] <= granted'[x]
    BY <1>2 DEF NoMoreThanGranted, Quantity
  <2>1. CASE x = k
    BY <1>1, <2>1
  <2>2. CASE x # k
    BY <1>1, <2>2 DEF IInv, NoMoreThanGranted, Quantity
  <2> QED BY <2>1, <2>2
<1>4. WornWasGranted'
  BY <1>1, <1>2 DEF IInv, WornWasGranted, TypeOK
<1> QED BY <1>2, <1>3, <1>4

LEMMA FinishMoves ==
  ASSUME IInv, granted' \in [Keys -> Nat], \A k \in Keys : granted'[k] >= granted[k],
         NEW q \in Requests, Finish(q)
  PROVE  request' \in [Requests -> Holding] /\ Backed' /\ Tried'
<1>1. Goto(q, Idle)
  BY DEF Finish
<1> QED BY <1>1, IdleHolds, OneRequestMoves

LEMMA GrantUpdatePreserves ==
  ASSUME IInv, NEW q \in Requests, GrantUpdate(q)
  PROVE  IInv'
<1> DEFINE k == request[q].key
<1>1. /\ k \in Keys /\ request[q].amount \in Positive /\ request[q].quantity \in Positive
      /\ request[q].quantity <= granted[k] + request[q].amount
      /\ Finish(q) /\ equipment' = equipment
  BY Kinds DEF IInv, GrantUpdate, GrantUpdating, Backed
<1>2. CASE request[q].found
  <2>1. /\ items' = [items EXCEPT ![k] = request[q].quantity]
        /\ granted' = [granted EXCEPT ![k] = @ + request[q].amount]
    BY <1>2 DEF GrantUpdate, Raised
  <2>2. /\ DOMAIN items' = DOMAIN items /\ items' \in [DOMAIN items -> Positive]
        /\ \A x \in DOMAIN items' : items'[x] = IF x = k THEN request[q].quantity ELSE items[x]
    BY <1>1, <2>1 DEF IInv, Rows
  <2>3. DOMAIN items' \subseteq Keys /\ IsFiniteSet(DOMAIN items')
    BY <2>2 DEF IInv, Rows, TypeOK
  <2> HIDE DEF k
  <2>4. /\ granted' \in [Keys -> Nat] /\ \A x \in Keys : granted'[x] >= granted[x]
        /\ NoMoreThanGranted' /\ WornWasGranted'
    BY <1>1, <2>1, <2>2, <2>3, GrantCounts
  <2>5. request' \in [Requests -> Holding] /\ Backed' /\ Tried'
    BY <1>1, <2>4, FinishMoves
  <2>6. Rows'
    BY <1>1, <2>2, <2>3, <2>5 DEF IInv, Rows
  <2> QED BY <2>3, <2>4, <2>5, <2>6, TypeFromRows DEF IInv
<1>3. CASE ~request[q].found
  <2>1. UNCHANGED <<items, equipment, granted>>
    BY <1>1, <1>3 DEF GrantUpdate
  <2> QED BY <1>1, <2>1, FinishMoves, OnlyRequestMoves, GrantedStays
<1> QED BY <1>2, <1>3

LEMMA GrantInsertPreserves ==
  ASSUME IInv, NEW q \in Requests, GrantInsert(q)
  PROVE  IInv'
<1> DEFINE k == request[q].key
           amount == request[q].amount
<1>1. k \in Keys /\ amount \in Positive /\ Finish(q) /\ equipment' = equipment
  BY Kinds DEF IInv, GrantInsert, GrantInserting
<1>2. CASE k \notin DOMAIN items
  <2>1. items' = Put(items, k, amount) /\ granted' = [granted EXCEPT ![k] = @ + amount]
    BY <1>2 DEF GrantInsert
  <2>2. /\ DOMAIN items' = DOMAIN items \cup {k} /\ items' \in [DOMAIN items' -> Positive]
        /\ \A x \in DOMAIN items' : items'[x] = IF x = k THEN amount ELSE items[x]
    BY <1>1, <2>1 DEF IInv, Rows, Put
  <2>3. DOMAIN items' \subseteq Keys /\ IsFiniteSet(DOMAIN items')
    BY <1>1, <2>2, FS_AddElement DEF IInv, Rows, TypeOK
  <2> HIDE DEF k, amount
  <2>4. amount <= granted[k] + amount
    BY <1>1 DEF IInv, TypeOK, Positive
  <2>5. /\ granted' \in [Keys -> Nat] /\ \A x \in Keys : granted'[x] >= granted[x]
        /\ NoMoreThanGranted' /\ WornWasGranted'
    BY <1>1, <2>1, <2>2, <2>3, <2>4, GrantCounts
  <2>6. request' \in [Requests -> Holding] /\ Backed' /\ Tried'
    BY <1>1, <2>5, FinishMoves
  <2>7. Rows'
    BY <1>1, <2>2, <2>3, <2>6 DEF IInv, Rows
  <2> QED BY <2>3, <2>5, <2>6, <2>7, TypeFromRows DEF IInv
<1>3. CASE k \in DOMAIN items
  <2>1. UNCHANGED <<items, equipment, granted>>
    BY <1>1, <1>3 DEF GrantInsert
  <2> QED BY <1>1, <2>1, FinishMoves, OnlyRequestMoves, GrantedStays
<1> QED BY <1>2, <1>3

LEMMA RemoveReadPreserves ==
  ASSUME IInv, NEW q \in Requests, NEW k \in Keys, NEW amount \in Amounts, RemoveRead(q, k, amount)
  PROVE  IInv'
<1> DEFINE next == [at |-> Removal(k, amount), key |-> k,
                    quantity |-> items[k] - amount, found |-> TRUE]
<1>1. Goto(q, next) /\ UNCHANGED <<items, equipment, granted>>
  BY DEF RemoveRead
<1>2. /\ amount \in Positive /\ items[k] \in Positive /\ items[k] >= amount
      /\ items[k] <= granted[k] /\ granted[k] \in Nat
  BY AmountsPositive DEF RemoveRead, IInv, NoMoreThanGranted, Quantity, TypeOK, Positive
<1>3. next \in Holding
  <2>1. CASE items[k] = amount
    <3>1. next.at = "remove.delete" /\ items[k] - amount \in Nat
      BY <1>2, <2>1 DEF Removal, Positive
    <3>2. next \in RemoveDeleting
      BY <3>1 DEF RemoveDeleting
    <3> QED BY <3>2 DEF Holding
  <2>2. CASE items[k] # amount
    <3>1. next.at = "remove.update" /\ items[k] - amount \in Positive
      BY <1>2, <2>2 DEF Removal, Positive
    <3>2. next \in RemoveUpdating
      BY <3>1 DEF RemoveUpdating
    <3> QED BY <3>2 DEF Holding
  <2> QED BY <2>1, <2>2
<1>4. next.key = k /\ next.quantity <= granted'[k]
  BY <1>1, <1>2 DEF Positive
<1>5. next.at \in {"remove.update", "remove.delete"}
  BY DEF Removal
<1> HIDE DEF next
<1> QED BY <1>1, <1>3, <1>4, <1>5, OneRequestMoves, OnlyRequestMoves, GrantedStays

LEMMA RemoveUpdatePreserves ==
  ASSUME IInv, NEW q \in Requests, RemoveUpdate(q)
  PROVE  IInv'
<1> DEFINE k == request[q].key
<1>1. /\ k \in Keys /\ request[q].quantity \in Positive /\ request[q].quantity <= granted[k]
      /\ Finish(q) /\ UNCHANGED <<equipment, granted>>
  BY Kinds DEF IInv, RemoveUpdate, RemoveUpdating, Backed
<1>2. CASE request[q].found
  <2>1. items' = [items EXCEPT ![k] = request[q].quantity]
    BY <1>2 DEF RemoveUpdate
  <2>2. /\ DOMAIN items' = DOMAIN items /\ items' \in [DOMAIN items -> Positive]
        /\ \A x \in DOMAIN items' : items'[x] = IF x = k THEN request[q].quantity ELSE items[x]
    BY <1>1, <2>1 DEF IInv, Rows
  <2> HIDE DEF k
  <2>3. request' \in [Requests -> Holding] /\ Backed' /\ Tried'
    BY <1>1, FinishMoves, GrantedStays
  <2>4. Rows'
    BY <1>1, <2>2, <2>3 DEF IInv, Rows
  <2>5. TypeOK'
    BY <1>1, <2>2, <2>4, TypeFromRows DEF IInv, TypeOK
  <2>6. NoMoreThanGranted'
    BY <1>1, <2>2 DEF IInv, NoMoreThanGranted, Quantity
  <2>7. WornWasGranted'
    BY <1>1 DEF IInv, WornWasGranted
  <2> QED BY <2>3, <2>4, <2>5, <2>6, <2>7 DEF IInv
<1>3. CASE ~request[q].found
  <2>1. UNCHANGED <<items, equipment, granted>>
    BY <1>1, <1>3 DEF RemoveUpdate
  <2> QED BY <1>1, <2>1, FinishMoves, OnlyRequestMoves, GrantedStays
<1> QED BY <1>2, <1>3

LEMMA RemoveDeletePreserves ==
  ASSUME IInv, NEW q \in Requests, RemoveDelete(q)
  PROVE  IInv'
<1> DEFINE k == request[q].key
<1>1. k \in Keys /\ UNCHANGED <<equipment, granted>>
  BY Kinds DEF IInv, RemoveDelete, RemoveDeleting
<1>2. CASE request[q].found
  <2> DEFINE Misses(x) == /\ request[x].at \in {"grant.update", "remove.update", "remove.delete"}
                          /\ request[x].key = k
  <2>1. /\ items' = Without(items, k)
        /\ request' = [x \in Requests |-> IF x = q THEN Idle
                                          ELSE IF Misses(x) THEN [request[x] EXCEPT !.found = FALSE]
                                          ELSE request[x]]
    BY <1>2 DEF RemoveDelete
  <2>2. ASSUME NEW x \in Requests
        PROVE  /\ request'[x] \in Holding
               /\ request'[x] = Idle \/ request'[x].at = request[x].at
               /\ request'[x].at = "grant.update" =>
                    request'[x].quantity <= granted'[request'[x].key] + request'[x].amount
               /\ request'[x].at = "remove.update" => request'[x].quantity <= granted'[request'[x].key]
               /\ request'[x].at \in {"equip.profile", "equip.write"} => request'[x] = request[x]
    <3>1. CASE x = q
      BY <2>1, <3>1, IdleHolds
    <3>2. CASE x # q /\ ~Misses(x)
      <4>1. request'[x] = request[x]
        BY <2>1, <3>2
      <4> QED BY <1>1, <4>1 DEF IInv, Rows, Backed
    <3>3. CASE x # q /\ Misses(x)
      <4>1. request'[x] = [request[x] EXCEPT !.found = FALSE]
        BY <2>1, <3>3
      <4>2. CASE request[x].at = "grant.update"
        <5>1. request[x] \in GrantUpdating
          BY <4>2, Kinds DEF IInv
        <5>2. /\ request'[x] \in GrantUpdating
              /\ request'[x].at = "grant.update" /\ request'[x].key = request[x].key
              /\ request'[x].quantity = request[x].quantity /\ request'[x].amount = request[x].amount
          BY <4>1, <5>1 DEF GrantUpdating
        <5> QED BY <1>1, <4>2, <5>2 DEF Holding, IInv, Backed
      <4>3. CASE request[x].at = "remove.update"
        <5>1. request[x] \in RemoveUpdating
          BY <4>3, Kinds DEF IInv
        <5>2. /\ request'[x] \in RemoveUpdating
              /\ request'[x].at = "remove.update" /\ request'[x].key = request[x].key
              /\ request'[x].quantity = request[x].quantity
          BY <4>1, <5>1 DEF RemoveUpdating
        <5> QED BY <1>1, <4>3, <5>2 DEF Holding, IInv, Backed
      <4>4. CASE request[x].at = "remove.delete"
        <5>1. request[x] \in RemoveDeleting
          BY <4>4, Kinds DEF IInv
        <5>2. request'[x] \in RemoveDeleting /\ request'[x].at = "remove.delete"
          BY <4>1, <5>1 DEF RemoveDeleting
        <5> QED BY <4>4, <5>2 DEF Holding
      <4> QED BY <3>3, <4>2, <4>3, <4>4
    <3> QED BY <3>1, <3>2, <3>3
  <2>3. /\ DOMAIN items' = DOMAIN items \ {k} /\ items' \in [DOMAIN items' -> Positive]
        /\ \A x \in DOMAIN items' : items'[x] = items[x]
    BY <2>1 DEF IInv, Rows, Without
  <2>4. IsFiniteSet(DOMAIN items')
    BY <2>3, FS_RemoveElement DEF IInv, Rows
  <2>5. request' \in [Requests -> Holding]
    <3>1. DOMAIN request' = Requests /\ request' = [x \in Requests |-> request'[x]]
      BY <2>1
    <3> QED BY <2>2, <3>1
  <2> HIDE DEF k, Misses
  <2>6. Rows'
    BY <1>1, <2>3, <2>4, <2>5 DEF IInv, Rows
  <2>7. TypeOK'
    BY <1>1, <2>3, <2>6, TypeFromRows DEF IInv, TypeOK
  <2>8. Backed' /\ Tried'
    <3>1. Backed'
      BY <2>2 DEF Backed
    <3>2. Tried'
      BY <1>1, <2>2 DEF Tried, IInv
    <3> QED BY <3>1, <3>2
  <2>9. NoMoreThanGranted'
    BY <1>1, <2>3 DEF IInv, NoMoreThanGranted, Quantity, TypeOK
  <2>10. WornWasGranted'
    BY <1>1 DEF IInv, WornWasGranted
  <2> QED BY <2>6, <2>7, <2>8, <2>9, <2>10 DEF IInv
<1>3. CASE ~request[q].found
  <2>1. Finish(q) /\ UNCHANGED <<items, equipment, granted>>
    BY <1>1, <1>3 DEF RemoveDelete
  <2> QED BY <2>1, FinishMoves, OnlyRequestMoves, GrantedStays
<1> QED BY <1>2, <1>3

LEMMA EquipReadPreserves ==
  ASSUME IInv, NEW q \in Requests, NEW slot \in Slots, NEW k \in Keys, EquipRead(q, slot, k)
  PROVE  IInv'
<1> DEFINE next == [at |-> "equip.profile", slot |-> slot, key |-> k]
<1>1. Goto(q, next) /\ UNCHANGED <<items, equipment, granted>>
  BY DEF EquipRead
<1>2. next \in Holding
  BY DEF Holding, EquipReading
<1>3. granted[k] > 0
  <2>1. items[k] \in Positive /\ items[k] <= granted[k] /\ granted[k] \in Nat
    BY DEF EquipRead, Owned, IInv, NoMoreThanGranted, Quantity, TypeOK, Positive
  <2> QED BY <2>1 DEF Positive
<1>4. next.at = "equip.profile" /\ next.key = k
  OBVIOUS
<1> HIDE DEF next
<1> QED BY <1>1, <1>2, <1>3, <1>4, OneRequestMoves, OnlyRequestMoves, GrantedStays

LEMMA EquipProfilePreserves ==
  ASSUME IInv, NEW q \in Requests, EquipProfile(q)
  PROVE  IInv'
<1> DEFINE slot == request[q].slot
           k == request[q].key
           worn == Equipped(slot, k)
           next == [at |-> "equip.write", equipment |-> worn]
<1>1. Goto(q, next) /\ UNCHANGED <<items, equipment, granted>>
  BY DEF EquipProfile
<1>2. slot \in Slots /\ k \in Keys /\ granted[k] > 0
  BY Kinds DEF EquipProfile, IInv, EquipReading, Tried
<1> HIDE DEF slot, k
<1>3. worn \in UNION {[S -> Keys] : S \in SUBSET Slots}
  BY <1>2, ColumnTyped DEF IInv, Rows, Equipped
<1>4. next \in Holding
  BY <1>3 DEF Holding, EquipWriting
<1>5. \A x \in DOMAIN worn : granted[worn[x]] > 0
  BY <1>2 DEF Equipped, Put, IInv, WornWasGranted
<1>6. next.at = "equip.write" /\ next.equipment = worn
  OBVIOUS
<1> HIDE DEF next, worn
<1> QED BY <1>1, <1>4, <1>5, <1>6, OneRequestMoves, OnlyRequestMoves, GrantedStays

LEMMA UnequipReadPreserves ==
  ASSUME IInv, NEW q \in Requests, NEW slot \in Slots, UnequipRead(q, slot)
  PROVE  IInv'
<1> DEFINE worn == Unequipped(slot)
           next == [at |-> "equip.write", equipment |-> worn]
<1>1. Goto(q, next) /\ UNCHANGED <<items, equipment, granted>>
  BY DEF UnequipRead
<1>2. worn \in UNION {[S -> Keys] : S \in SUBSET Slots}
  <2>1. worn = Without(equipment, slot)
    BY DEF Unequipped
  <2>2. PICK S \in SUBSET Slots : equipment \in [S -> Keys]
    BY DEF IInv, Rows
  <2>3. worn \in [S \ {slot} -> Keys] /\ S \ {slot} \in SUBSET Slots
    BY <2>1, <2>2 DEF Without
  <2> QED BY <2>3
<1>3. next \in Holding
  BY <1>2 DEF Holding, EquipWriting
<1>4. \A x \in DOMAIN worn : granted[worn[x]] > 0
  BY DEF Unequipped, Without, IInv, WornWasGranted
<1>5. next.at = "equip.write" /\ next.equipment = worn
  OBVIOUS
<1> HIDE DEF next, worn
<1> QED BY <1>1, <1>3, <1>4, <1>5, OneRequestMoves, OnlyRequestMoves, GrantedStays

LEMMA EquipWritePreserves ==
  ASSUME IInv, NEW q \in Requests, EquipWrite(q)
  PROVE  IInv'
<1>1. /\ equipment' = request[q].equipment /\ Finish(q) /\ UNCHANGED <<items, granted>>
      /\ request[q].equipment \in UNION {[S -> Keys] : S \in SUBSET Slots}
      /\ \A slot \in DOMAIN request[q].equipment : granted[request[q].equipment[slot]] > 0
  BY Kinds DEF EquipWrite, IInv, EquipWriting, Tried
<1>2. request' \in [Requests -> Holding] /\ Backed' /\ Tried'
  BY <1>1, FinishMoves, GrantedStays
<1>3. Rows'
  BY <1>1, <1>2 DEF IInv, Rows
<1>4. TypeOK'
  BY <1>1, <1>3, TypeFromRows DEF IInv, TypeOK
<1>5. NoMoreThanGranted' /\ WornWasGranted'
  BY <1>1 DEF IInv, NoMoreThanGranted, Quantity, WornWasGranted
<1> QED BY <1>2, <1>3, <1>4, <1>5 DEF IInv

LEMMA FailPreserves ==
  ASSUME IInv, NEW q \in Requests, Fail(q)
  PROVE  IInv'
<1>1. Finish(q) /\ UNCHANGED <<items, equipment, granted>>
  BY DEF Fail
<1> QED BY <1>1, FinishMoves, OnlyRequestMoves, GrantedStays

LEMMA NextPreserves == IInv /\ [Next]_vars => IInv'
<1> SUFFICES ASSUME IInv, [Next]_vars PROVE IInv'
  OBVIOUS
<1>1. CASE UNCHANGED vars
  <2>1. request' \in [Requests -> Holding] /\ Backed' /\ Tried' /\ UNCHANGED <<items, equipment, granted>>
    BY <1>1 DEF vars, IInv, Rows, Backed, Tried
  <2> QED BY <2>1, OnlyRequestMoves
<1>2. ASSUME NEW q \in Requests,
             \/ GrantUpdate(q) \/ GrantInsert(q) \/ RemoveUpdate(q) \/ RemoveDelete(q)
             \/ EquipProfile(q) \/ EquipWrite(q) \/ Fail(q)
      PROVE  IInv'
  BY <1>2, GrantUpdatePreserves, GrantInsertPreserves, RemoveUpdatePreserves, RemoveDeletePreserves,
     EquipProfilePreserves, EquipWritePreserves, FailPreserves
<1>3. ASSUME NEW q \in Requests, NEW k \in Keys, NEW amount \in Amounts,
             GrantRead(q, k, amount) \/ RemoveRead(q, k, amount)
      PROVE  IInv'
  BY <1>3, GrantReadPreserves, RemoveReadPreserves
<1>4. ASSUME NEW q \in Requests, NEW slot \in Slots,
             UnequipRead(q, slot) \/ \E k \in Keys : EquipRead(q, slot, k)
      PROVE  IInv'
  BY <1>4, EquipReadPreserves, UnequipReadPreserves
<1> QED BY <1>1, <1>2, <1>3, <1>4 DEF Next

LEMMA Invariance == Spec => []IInv
BY InitEstablishes, NextPreserves, PTL DEF Spec

-----------------------------------------------------------------------------
(* Theorems *)

\* The rows of an inventory hold positive quantities of items, and the equipment
\* column names items, whatever overlaps.
THEOREM TypeCorrect == Spec => []TypeOK
<1>1. IInv => TypeOK
  BY DEF IInv
<1> QED BY <1>1, Invariance, PTL

\* Overlapping updates may lose one another's effect, but never make more of an
\* item than was granted.
THEOREM NothingFromNothing == Spec => []NoMoreThanGranted
<1>1. IInv => NoMoreThanGranted
  BY DEF IInv
<1> QED BY <1>1, Invariance, PTL

\* Whatever is worn has at some time been granted, although nothing keeps an item
\* in the inventory between the check of equipItem and its write.
THEOREM WornItemsWereOwned == Spec => []WornWasGranted
<1>1. IInv => WornWasGranted
  BY DEF IInv
<1> QED BY <1>1, Invariance, PTL

-----------------------------------------------------------------------------
(* How far the capacity check can be overrun *)

LEMMA InsertersMove ==
  ASSUME Rows, NEW q \in Requests, NEW next, Goto(q, next), next.at # "grant.insert"
  PROVE  Inserting' \subseteq Inserting \ {q}
BY DEF Rows, Goto, Inserting

\* What a step does to the rows there are and to the grants about to insert one.
LEMMA RowsAndInserts ==
  ASSUME IInv, Next
  PROVE  \/ DOMAIN items' \subseteq DOMAIN items /\ Inserting' \subseteq Inserting
         \/ Cardinality(DOMAIN items) < Capacity /\ items' = items
         \/ \E q \in Inserting, k \in Keys :
              DOMAIN items' = DOMAIN items \cup {k} /\ Inserting' \subseteq Inserting \ {q}
<1>1. ASSUME NEW q \in Requests, Finish(q)
      PROVE  Inserting' \subseteq Inserting \ {q}
  BY <1>1, IdleHolds, InsertersMove DEF Finish, IInv
<1>2. ASSUME NEW q \in Requests, GrantInsert(q)
      PROVE  \/ items' = items /\ Inserting' \subseteq Inserting
             \/ \E k \in Keys : DOMAIN items' = DOMAIN items \cup {k} /\ Inserting' \subseteq Inserting \ {q}
  <2>1. Inserting' \subseteq Inserting \ {q} /\ request[q].key \in Keys
    BY <1>1, <1>2, Kinds DEF GrantInsert, GrantInserting, IInv
  <2> QED BY <1>2, <2>1 DEF GrantInsert, Put
<1>3. ASSUME NEW q \in Requests, GrantInsert(q)
      PROVE  q \in Inserting
  BY <1>3 DEF GrantInsert, Inserting
<1>4. ASSUME NEW q \in Requests, GrantUpdate(q) \/ RemoveUpdate(q)
      PROVE  DOMAIN items' \subseteq DOMAIN items /\ Inserting' \subseteq Inserting
  <2>1. DOMAIN items' = DOMAIN items
    BY <1>4 DEF GrantUpdate, Raised, RemoveUpdate
  <2> QED BY <1>1, <1>4, <2>1 DEF GrantUpdate, RemoveUpdate
<1>5. ASSUME NEW q \in Requests, RemoveDelete(q)
      PROVE  DOMAIN items' \subseteq DOMAIN items /\ Inserting' \subseteq Inserting
  <2>1. CASE request[q].found
    <3>1. DOMAIN items' \subseteq DOMAIN items
      BY <1>5, <2>1 DEF RemoveDelete, Without
    <3>2. ASSUME NEW x \in Inserting'
          PROVE  x \in Inserting
      <4>1. x \in Requests /\ request'[x].at = "grant.insert"
        BY <3>2 DEF Inserting
      <4>2. request'[x] = request[x]
        <5>1. x # q
          BY <1>5, <2>1, <4>1, IdleHolds DEF RemoveDelete
        <5>2. CASE request[x].at \in {"grant.update", "remove.update", "remove.delete"}
          <6>1. request[x] \in GrantUpdating \cup RemoveUpdating \cup RemoveDeleting
            BY <4>1, <5>2, Kinds DEF IInv
          <6>2. [request[x] EXCEPT !.found = FALSE].at = request[x].at
            BY <6>1 DEF GrantUpdating, RemoveUpdating, RemoveDeleting
          <6>3. request'[x] \in {request[x], [request[x] EXCEPT !.found = FALSE]}
            BY <1>5, <2>1, <4>1, <5>1 DEF RemoveDelete
          <6> QED BY <4>1, <5>2, <6>2, <6>3
        <5>3. CASE request[x].at \notin {"grant.update", "remove.update", "remove.delete"}
          BY <1>5, <2>1, <4>1, <5>1, <5>3 DEF RemoveDelete
        <5> QED BY <5>2, <5>3
      <4> QED BY <4>1, <4>2 DEF Inserting
    <3> QED BY <3>1, <3>2
  <2>2. CASE ~request[q].found
    BY <1>1, <1>5, <2>2 DEF RemoveDelete
  <2> QED BY <2>1, <2>2
<1>6. ASSUME NEW q \in Requests, EquipProfile(q) \/ EquipWrite(q) \/ Fail(q)
      PROVE  items' = items /\ Inserting' \subseteq Inserting
  <2>1. CASE EquipProfile(q)
    <3> DEFINE next == [at |-> "equip.write", equipment |-> Equipped(request[q].slot, request[q].key)]
    <3>1. Goto(q, next) /\ items' = items /\ next.at # "grant.insert"
      BY <2>1 DEF EquipProfile
    <3> HIDE DEF next
    <3> QED BY <3>1, InsertersMove DEF IInv
  <2>2. CASE EquipWrite(q) \/ Fail(q)
    BY <1>1, <2>2 DEF EquipWrite, Fail
  <2> QED BY <1>6, <2>1, <2>2
<1>7. ASSUME NEW q \in Requests, NEW k \in Keys, NEW amount \in Amounts, GrantRead(q, k, amount)
      PROVE  items' = items /\ (Inserting' \subseteq Inserting \/ Cardinality(DOMAIN items) < Capacity)
  <2>1. CASE k \in DOMAIN items
    <3> DEFINE next == [at |-> "grant.update", key |-> k, amount |-> amount,
                        quantity |-> items[k] + amount, found |-> TRUE]
    <3>1. Goto(q, next) /\ items' = items /\ next.at # "grant.insert"
      BY <1>7, <2>1 DEF GrantRead
    <3> HIDE DEF next
    <3> QED BY <3>1, InsertersMove DEF IInv
  <2>2. CASE k \notin DOMAIN items
    BY <1>7, <2>2 DEF GrantRead, HasPlace
  <2> QED BY <2>1, <2>2
<1>8. ASSUME NEW q \in Requests, NEW k \in Keys, NEW amount \in Amounts, RemoveRead(q, k, amount)
      PROVE  items' = items /\ Inserting' \subseteq Inserting
  <2> DEFINE next == [at |-> Removal(k, amount), key |-> k,
                      quantity |-> items[k] - amount, found |-> TRUE]
  <2>1. Goto(q, next) /\ items' = items /\ next.at # "grant.insert"
    BY <1>8 DEF RemoveRead, Removal
  <2> HIDE DEF next
  <2> QED BY <2>1, InsertersMove DEF IInv
<1>9. ASSUME NEW q \in Requests, NEW slot \in Slots, NEW k \in Keys, EquipRead(q, slot, k)
      PROVE  items' = items /\ Inserting' \subseteq Inserting
  <2> DEFINE next == [at |-> "equip.profile", slot |-> slot, key |-> k]
  <2>1. Goto(q, next) /\ items' = items /\ next.at # "grant.insert"
    BY <1>9 DEF EquipRead
  <2> HIDE DEF next
  <2> QED BY <2>1, InsertersMove DEF IInv
<1>10. ASSUME NEW q \in Requests, NEW slot \in Slots, UnequipRead(q, slot)
       PROVE  items' = items /\ Inserting' \subseteq Inserting
  <2> DEFINE next == [at |-> "equip.write", equipment |-> Unequipped(slot)]
  <2>1. Goto(q, next) /\ items' = items /\ next.at # "grant.insert"
    BY <1>10 DEF UnequipRead
  <2> HIDE DEF next
  <2> QED BY <2>1, InsertersMove DEF IInv
<1>11. items' = items => DOMAIN items' \subseteq DOMAIN items
  OBVIOUS
<1> QED BY <1>2, <1>3, <1>4, <1>5, <1>6, <1>7, <1>8, <1>9, <1>10, <1>11 DEF Next

\* However many grants have found a free place at once, the inventory is overfilled
\* by no more rows than there are further requests in flight.
THEOREM OverfillIsBounded == Spec => []OverfillBound
<1>1. ASSUME IInv
      PROVE  /\ IsFiniteSet(Inserting) /\ Cardinality(Inserting) \in Nat
             /\ Cardinality(Inserting) <= Cardinality(Requests)
             /\ Cardinality(Requests) \in Nat
             /\ Cardinality(DOMAIN items) \in Nat
  <2>1. Inserting \in SUBSET Requests /\ IsFiniteSet(Requests) /\ IsFiniteSet(DOMAIN items)
    BY <1>1, RequestsAssumption DEF Inserting, IInv, Rows
  <2> QED BY <2>1, FS_Subset, FS_CardinalityType
<1>2. Init => OverfillBound
  <2> SUFFICES ASSUME Init PROVE OverfillBound
    OBVIOUS
  <2>1. DOMAIN items = {} /\ Inserting = {}
    BY DEF Init, Inserting, Idle
  <2> QED BY <1>1, <2>1, InitEstablishes, NumbersAssumption, FS_EmptySet DEF OverfillBound
<1>3. ASSUME IInv, IInv', OverfillBound, [Next]_vars
      PROVE  OverfillBound'
  <2> DEFINE rowsThere == Cardinality(DOMAIN items)
             inserts == Cardinality(Inserting)
             requests == Cardinality(Requests)
  <2>1. /\ rowsThere \in Nat /\ inserts \in Nat /\ requests \in Nat /\ Capacity \in Nat
        /\ rowsThere' \in Nat /\ inserts' \in Nat /\ inserts' <= requests
        /\ IsFiniteSet(Inserting) /\ IsFiniteSet(DOMAIN items)
    <3>1. /\ IsFiniteSet(Inserting') /\ Cardinality(Inserting') \in Nat
          /\ Cardinality(Inserting') <= Cardinality(Requests)
          /\ Cardinality(DOMAIN items') \in Nat
      <4>1. Inserting' \in SUBSET Requests /\ IsFiniteSet(Requests) /\ IsFiniteSet(DOMAIN items')
        BY <1>3, RequestsAssumption DEF Inserting, IInv, Rows
      <4> QED BY <4>1, FS_Subset, FS_CardinalityType
    <3> QED BY <1>1, <1>3, <3>1, NumbersAssumption DEF IInv, Rows
  <2>2. rowsThere + inserts <= Capacity - 1 + requests
    BY <1>3 DEF OverfillBound
  <2>3. CASE DOMAIN items' \subseteq DOMAIN items /\ Inserting' \subseteq Inserting
    <3>1. rowsThere' <= rowsThere /\ inserts' <= inserts
      BY <2>1, <2>3, FS_Subset
    <3>2. rowsThere' + inserts' <= Capacity - 1 + requests
      BY <2>1, <2>2, <3>1
    <3> QED BY <3>2 DEF OverfillBound
  <2>4. CASE rowsThere < Capacity /\ items' = items
    <3>1. rowsThere' = rowsThere
      BY <2>4
    <3>2. rowsThere' + inserts' <= Capacity - 1 + requests
      BY <2>1, <2>4, <3>1
    <3> QED BY <3>2 DEF OverfillBound
  <2>5. ASSUME NEW q \in Inserting, NEW k \in Keys,
               DOMAIN items' = DOMAIN items \cup {k}, Inserting' \subseteq Inserting \ {q}
        PROVE  OverfillBound'
    <3>1. rowsThere' <= rowsThere + 1
      <4>1. Cardinality(DOMAIN items \cup {k}) =
              IF k \in DOMAIN items THEN rowsThere ELSE rowsThere + 1
        BY <2>1, FS_AddElement
      <4>2. rowsThere' = Cardinality(DOMAIN items \cup {k})
        BY <2>5
      <4> QED BY <2>1, <4>1, <4>2
    <3>2. inserts' <= inserts - 1
      <4>1. IsFiniteSet(Inserting \ {q}) /\ Cardinality(Inserting \ {q}) = inserts - 1
        BY <2>1, FS_RemoveElement
      <4> QED BY <2>5, <4>1, FS_Subset
    <3>3. rowsThere' + inserts' <= Capacity - 1 + requests
      BY <2>1, <2>2, <3>1, <3>2
    <3> QED BY <3>3 DEF OverfillBound
  <2>6. CASE UNCHANGED vars
    BY <1>3, <2>6 DEF vars, OverfillBound, Inserting
  <2> QED BY <1>3, <2>3, <2>4, <2>5, <2>6, RowsAndInserts
<1> QED BY <1>2, <1>3, Invariance, PTL DEF Spec
=============================================================================
