--------------------------- MODULE PlayerRow_proofs ---------------------------
(***************************************************************************)
(* Theorems about PlayerRow for any players, amounts, number of requests   *)
(* and width of the columns.                                               *)
(***************************************************************************)
EXTENDS PlayerRow, TLAPS

LEMMA LevelTyped ==
  ASSUME NEW experience \in Nat
  PROVE  LevelFromExperience(experience) \in Nat \ {0}
<1>1. XpPerLevel \in Nat /\ XpPerLevel > 0
  BY NumbersAssumption
<1>2. experience \div XpPerLevel \in Nat
  BY <1>1
<1> QED BY <1>2 DEF LevelFromExperience

-----------------------------------------------------------------------------
(* The inductive invariant *)

\* A transaction that moves coins holds the lock of its row, and what it computed
\* from its read still holds.
Locked ==
  \A q \in Requests : request[q].at = "move" =>
    /\ lock[request[q].player] = q
    /\ request[q].balance = coins[request[q].player] + request[q].amount

\* An award in flight was computed from an experience that had been awarded.
Earned ==
  \A q \in Requests : request[q].at = "xp" =>
    request[q].experience <= awarded[request[q].player] + request[q].amount

IInv == TypeOK /\ Locked /\ Earned /\ LedgerAccounts /\ BoardAgrees /\ NothingMinted

LEMMA RequestKinds ==
  ASSUME TypeOK, NEW q \in Requests
  PROVE  /\ request[q].at = "move" => /\ request[q].player \in Players
                                      /\ request[q].amount \in Int
                                      /\ request[q].balance \in Nat
         /\ request[q].at = "xp" => /\ request[q].player \in Players
                                    /\ request[q].amount \in Nat
                                    /\ request[q].experience \in Nat
<1>1. Amounts \subseteq Nat
  BY NumbersAssumption
<1>2. request[q] \in Processing
  BY DEF TypeOK
<1>3. request[q].at = "move" => /\ request[q].player \in Players
                                /\ request[q].amount \in Int
                                /\ request[q].balance \in Nat
  BY <1>2 DEF Processing, Idle
<1>4. request[q].at = "xp" => /\ request[q].player \in Players
                              /\ request[q].amount \in Amounts
                              /\ request[q].experience \in Nat
  BY <1>2 DEF Processing, Idle
<1> QED BY <1>1, <1>3, <1>4

LEMMA InitEstablishes == Init => IInv
<1> SUFFICES ASSUME Init PROVE IInv
  OBVIOUS
<1>1. TypeOK
  BY NumbersAssumption DEF Init, TypeOK, Processing
<1>2. Locked /\ Earned
  BY DEF Init, Locked, Earned, Idle
<1>3. ASSUME NEW p \in Players
      PROVE  /\ coins[p] = StartingCoins /\ ledger[p] = << >>
             /\ xp[p] = 0 /\ level[p] = 1 /\ awarded[p] = 0
             /\ board[p] = [experience |-> 0, level |-> 1]
  BY DEF Init
<1>4. LedgerAccounts
  <2>1. DOMAIN << >> = {} /\ BalanceBefore(<< >>, Len(<< >>) + 1) = StartingCoins
    BY DEF BalanceBefore
  <2> QED BY <1>3, <2>1 DEF LedgerAccounts
<1>5. BoardAgrees
  <2>1. LevelFromExperience(0) = 1
    BY NumbersAssumption DEF LevelFromExperience
  <2> QED BY <1>3, <2>1 DEF BoardAgrees
<1>6. NothingMinted
  <2>1. 0 <= 0
    OBVIOUS
  <2> QED BY <1>3, <2>1 DEF NothingMinted
<1> QED BY <1>1, <1>2, <1>4, <1>5, <1>6 DEF IInv

LEMMA LockRowPreserves ==
  ASSUME IInv, NEW q \in Requests, NEW p \in Players, NEW amount \in Int, LockRow(q, p, amount)
  PROVE  IInv'
<1> USE DEF IInv
<1>1. TypeOK'
  <2>1. coins[p] + amount \in Nat
    BY NumbersAssumption DEF TypeOK, LockRow, Unlocked, Covered
  <2>2. request' \in [Requests -> Processing]
    BY <2>1 DEF TypeOK, LockRow, Unlocked, Covered, Goto, Processing
  <2> QED BY <2>2 DEF TypeOK, LockRow, Unlocked, Covered, coinVars, xpVars
<1>2. Locked'
  <2> SUFFICES ASSUME NEW x \in Requests, request'[x].at = "move"
               PROVE  /\ lock'[request'[x].player] = x
                      /\ request'[x].balance = coins'[request'[x].player] + request'[x].amount
    BY DEF Locked
  <2>1. CASE x = q
    BY <2>1 DEF LockRow, Unlocked, Covered, Goto, TypeOK, coinVars
  <2>2. CASE x # q
    <3>1. request'[x] = request[x] /\ coins' = coins
      BY <2>2 DEF LockRow, Unlocked, Covered, Goto, TypeOK, coinVars
    <3>2. lock[request[x].player] = x
      BY <3>1 DEF Locked
    <3>3. request[x].player # p
      BY <3>2, NobodyAssumption DEF LockRow, Unlocked, Covered
    <3>4. lock'[request[x].player] = x
      BY <3>1, <3>2, <3>3, RequestKinds DEF LockRow, Unlocked, Covered, TypeOK
    <3> QED BY <3>1, <3>4 DEF Locked
  <2> QED BY <2>1, <2>2
<1>3. Earned'
  BY DEF Earned, LockRow, Unlocked, Covered, Goto, TypeOK, xpVars
<1>4. LedgerAccounts' /\ BoardAgrees' /\ NothingMinted'
  BY DEF LedgerAccounts, BalanceBefore, BoardAgrees, NothingMinted, LockRow, Unlocked, Covered, coinVars, xpVars
<1> QED BY <1>1, <1>2, <1>3, <1>4

LEMMA CommitMovePreserves ==
  ASSUME IInv, NEW q \in Requests, CommitMove(q)
  PROVE  IInv'
<1> USE DEF IInv
<1> DEFINE p == request[q].player
           entry == [amount |-> request[q].amount, balanceAfter |-> request[q].balance]
<1>1. /\ p \in Players /\ request[q].amount \in Int
      /\ request[q].balance \in 0..MaxInt
      /\ lock[p] = q /\ request[q].balance = coins[p] + request[q].amount
  BY RequestKinds, NumbersAssumption DEF CommitMove, Locked
<1>2. /\ coins' = [coins EXCEPT ![p] = request[q].balance]
      /\ ledger' = [ledger EXCEPT ![p] = Append(@, entry)]
      /\ lock' = [lock EXCEPT ![p] = Nobody]
      /\ request' = [request EXCEPT ![q] = Idle]
      /\ UNCHANGED xpVars
  BY DEF CommitMove, Finish, Goto
<1>3. entry \in [amount : Int, balanceAfter : Nat] /\ entry.balanceAfter = coins[p] + entry.amount
  BY <1>1
<1>4. p = request[q].player
  OBVIOUS
<1>5. request[q].balance = entry.balanceAfter
  OBVIOUS
<1> HIDE DEF p, entry
<1>6. TypeOK'
  <2>1. coins' \in [Players -> 0..MaxInt]
    BY <1>1, <1>2 DEF TypeOK
  <2>2. ledger' \in [Players -> Seq([amount : Int, balanceAfter : Nat])]
    BY <1>1, <1>2, <1>3 DEF TypeOK
  <2>3. request' \in [Requests -> Processing]
    BY <1>2 DEF TypeOK, Processing
  <2> QED BY <1>1, <1>2, <2>1, <2>2, <2>3 DEF TypeOK, xpVars
<1>7. Locked'
  <2> SUFFICES ASSUME NEW x \in Requests, request'[x].at = "move"
               PROVE  /\ lock'[request'[x].player] = x
                      /\ request'[x].balance = coins'[request'[x].player] + request'[x].amount
    BY DEF Locked
  <2>1. x # q /\ request'[x] = request[x]
    BY <1>2 DEF TypeOK, Idle
  <2>2. lock[request[x].player] = x /\ request[x].player \in Players
    BY <2>1, RequestKinds DEF Locked
  <2>3. request[x].player # p
    BY <1>1, <2>1, <2>2
  <2> QED BY <1>1, <1>2, <2>1, <2>2, <2>3 DEF Locked, TypeOK
<1>8. Earned'
  BY <1>2 DEF Earned, xpVars, TypeOK, Idle
<1>9. LedgerAccounts'
  <2> SUFFICES ASSUME NEW x \in Players
               PROVE  /\ \A i \in DOMAIN ledger'[x] :
                           ledger'[x][i].balanceAfter
                             = BalanceBefore(ledger'[x], i) + ledger'[x][i].amount
                      /\ coins'[x] = BalanceBefore(ledger'[x], Len(ledger'[x]) + 1)
    BY DEF LedgerAccounts
  <2>1. CASE x # p
    BY <1>2, <2>1 DEF LedgerAccounts, TypeOK
  <2>2. CASE x = p
    <3> DEFINE old == ledger[p]
               new == Append(old, entry)
    <3>1. ledger'[p] = new /\ coins'[p] = entry.balanceAfter
      BY <1>1, <1>2, <1>5 DEF TypeOK
    <3>2. /\ old \in Seq([amount : Int, balanceAfter : Nat])
          /\ \A i \in DOMAIN old : old[i].balanceAfter = BalanceBefore(old, i) + old[i].amount
          /\ coins[p] = BalanceBefore(old, Len(old) + 1)
      BY <1>1 DEF TypeOK, LedgerAccounts
    <3> HIDE DEF old
    <3>3. /\ Len(new) = Len(old) + 1 /\ Len(old) \in Nat
          /\ DOMAIN old = 1..Len(old) /\ DOMAIN new = 1..(Len(old) + 1)
          /\ new[Len(old) + 1] = entry
          /\ \A i \in 1..Len(old) : new[i] = old[i]
      BY <1>3, <3>2
    <3> HIDE DEF new
    <3>4. \A i \in 1..(Len(old) + 1) : BalanceBefore(new, i) = BalanceBefore(old, i)
      BY <3>3 DEF BalanceBefore
    <3>5. BalanceBefore(new, Len(new) + 1) = entry.balanceAfter
      BY <3>3 DEF BalanceBefore
    <3>6. ASSUME NEW i \in 1..(Len(old) + 1)
          PROVE  new[i].balanceAfter = BalanceBefore(new, i) + new[i].amount
      <4>1. CASE i = Len(old) + 1
        BY <1>3, <3>2, <3>3, <3>4, <4>1
      <4>2. CASE i # Len(old) + 1
        <5>1. i \in 1..Len(old)
          BY <3>3, <4>2
        <5> QED BY <3>2, <3>3, <3>4, <5>1
      <4> QED BY <4>1, <4>2
    <3> QED BY <2>2, <3>1, <3>3, <3>5, <3>6
  <2> QED BY <2>1, <2>2
<1>10. BoardAgrees' /\ NothingMinted'
  BY <1>2 DEF BoardAgrees, NothingMinted, xpVars
<1> QED BY <1>6, <1>7, <1>8, <1>9, <1>10

LEMMA ReadExperiencePreserves ==
  ASSUME IInv, NEW q \in Requests, NEW p \in Players, NEW amount \in Amounts,
         ReadExperience(q, p, amount)
  PROVE  IInv'
<1> USE DEF IInv
<1>1. amount \in Nat /\ xp[p] \in Nat /\ xp[p] <= awarded[p]
  BY NumbersAssumption DEF TypeOK, NothingMinted
<1>2. request' = [request EXCEPT ![q] = [at |-> "xp", player |-> p, amount |-> amount,
                                         experience |-> xp[p] + amount]]
  BY DEF ReadExperience, Goto
<1>3. UNCHANGED <<coinVars, xpVars, lock>>
  BY DEF ReadExperience
<1>4. TypeOK'
  <2>1. request' \in [Requests -> Processing]
    BY <1>1, <1>2 DEF TypeOK, Processing
  <2> QED BY <1>3, <2>1 DEF TypeOK, coinVars, xpVars
<1>5. Locked'
  BY <1>2, <1>3 DEF Locked, TypeOK, coinVars
<1>6. Earned'
  BY <1>1, <1>2, <1>3 DEF Earned, TypeOK, xpVars
<1>7. LedgerAccounts' /\ BoardAgrees' /\ NothingMinted'
  BY <1>3 DEF LedgerAccounts, BalanceBefore, BoardAgrees, NothingMinted, coinVars, xpVars
<1> QED BY <1>4, <1>5, <1>6, <1>7

LEMMA CommitExperiencePreserves ==
  ASSUME IInv, NEW q \in Requests, CommitExperience(q)
  PROVE  IInv'
<1> USE DEF IInv
<1> DEFINE p == request[q].player
           experience == request[q].experience
           amount == request[q].amount
<1>1. /\ p \in Players /\ amount \in Nat /\ experience \in Nat
      /\ experience <= awarded[p] + amount
  BY RequestKinds DEF CommitExperience, NewExperience, NewEntry, Unlocked, Earned
<1>2. /\ xp' = [xp EXCEPT ![p] = experience]
      /\ level' = [level EXCEPT ![p] = LevelFromExperience(experience)]
      /\ board' = [board EXCEPT ![p] = [experience |-> experience,
                                        level |-> LevelFromExperience(experience)]]
      /\ awarded' = [awarded EXCEPT ![p] = @ + amount]
      /\ request' = [request EXCEPT ![q] = Idle]
      /\ UNCHANGED <<coinVars, lock>>
  BY DEF CommitExperience, NewExperience, NewEntry, Unlocked, Finish, Goto
<1> HIDE DEF p, experience, amount
<1>3. LevelFromExperience(experience) \in Nat \ {0}
  BY <1>1, LevelTyped
<1>4. TypeOK'
  <2>1. request' \in [Requests -> Processing]
    BY <1>2 DEF TypeOK, Processing
  <2>2. board' \in [Players -> [experience : Nat, level : Nat \ {0}]]
    BY <1>1, <1>2, <1>3 DEF TypeOK
  <2>3. xp' \in [Players -> Nat] /\ awarded' \in [Players -> Nat]
    BY <1>1, <1>2 DEF TypeOK
  <2>4. level' \in [Players -> Nat \ {0}]
    BY <1>1, <1>2, <1>3 DEF TypeOK
  <2> QED BY <1>2, <2>1, <2>2, <2>3, <2>4 DEF TypeOK, coinVars
<1>5. Locked'
  BY <1>2 DEF Locked, TypeOK, coinVars, Idle
<1>6. Earned'
  <2> SUFFICES ASSUME NEW x \in Requests, request'[x].at = "xp"
               PROVE  request'[x].experience <= awarded'[request'[x].player] + request'[x].amount
    BY DEF Earned
  <2>1. x # q /\ request'[x] = request[x]
    BY <1>2 DEF TypeOK, Idle
  <2>2. /\ request[x].player \in Players /\ request[x].amount \in Nat
        /\ request[x].experience \in Nat
    BY <2>1, RequestKinds
  <2>3. request[x].experience <= awarded[request[x].player] + request[x].amount
    BY <2>1 DEF Earned
  <2>4. \A y \in Players : /\ awarded[y] \in Nat
                          /\ awarded'[y] = IF y = p THEN awarded[y] + amount ELSE awarded[y]
    BY <1>1, <1>2 DEF TypeOK
  <2>5. /\ awarded[request[x].player] \in Nat
        /\ awarded'[request[x].player] \in Nat
        /\ awarded'[request[x].player] >= awarded[request[x].player]
    BY <1>1, <2>2, <2>4
  <2> QED BY <2>1, <2>2, <2>3, <2>5
<1>7. LedgerAccounts'
  BY <1>2 DEF LedgerAccounts, BalanceBefore, coinVars
<1>8. BoardAgrees'
  BY <1>1, <1>2 DEF BoardAgrees, TypeOK
<1>9. NothingMinted'
  BY <1>1, <1>2 DEF NothingMinted, TypeOK
<1> QED BY <1>4, <1>5, <1>6, <1>7, <1>8, <1>9

LEMMA FailPreserves ==
  ASSUME IInv, NEW q \in Requests, Fail(q)
  PROVE  IInv'
<1> USE DEF IInv
<1>1. /\ request' = [request EXCEPT ![q] = Idle]
      /\ lock' = [p \in Players |-> IF lock[p] = q THEN Nobody ELSE lock[p]]
      /\ UNCHANGED <<coinVars, xpVars>>
  BY DEF Fail, Finish, Goto
<1>2. TypeOK'
  <2>1. request' \in [Requests -> Processing]
    BY <1>1 DEF TypeOK, Processing
  <2>2. lock' \in [Players -> Requests \cup {Nobody}]
    BY <1>1 DEF TypeOK
  <2> QED BY <1>1, <2>1, <2>2 DEF TypeOK, coinVars, xpVars
<1>3. Locked'
  <2> SUFFICES ASSUME NEW x \in Requests, request'[x].at = "move"
               PROVE  /\ lock'[request'[x].player] = x
                      /\ request'[x].balance = coins'[request'[x].player] + request'[x].amount
    BY DEF Locked
  <2>1. x # q /\ request'[x] = request[x]
    BY <1>1 DEF TypeOK, Idle
  <2>2. request[x].player \in Players
    BY <2>1, RequestKinds
  <2> QED BY <1>1, <2>1, <2>2 DEF Locked, coinVars
<1>4. Earned'
  BY <1>1 DEF Earned, TypeOK, xpVars, Idle
<1>5. LedgerAccounts' /\ BoardAgrees' /\ NothingMinted'
  BY <1>1 DEF LedgerAccounts, BalanceBefore, BoardAgrees, NothingMinted, coinVars, xpVars
<1> QED BY <1>2, <1>3, <1>4, <1>5

LEMMA NextPreserves == IInv /\ [Next]_vars => IInv'
<1> SUFFICES ASSUME IInv, [Next]_vars PROVE IInv'
  OBVIOUS
<1>1. ASSUME NEW q \in Requests, NEW p \in Players, NEW a \in Amounts,
             Credit(q, p, a) \/ Debit(q, p, a)
      PROVE  IInv'
  <2>1. a \in Int /\ -a \in Int
    BY NumbersAssumption
  <2> QED BY <1>1, <2>1, LockRowPreserves DEF Credit, Debit
<1>2. CASE UNCHANGED vars
  BY <1>2 DEF vars, coinVars, xpVars, IInv, TypeOK, Locked, Earned, LedgerAccounts, BalanceBefore,
              BoardAgrees, NothingMinted
<1> QED BY <1>1, <1>2, CommitMovePreserves, CommitExperiencePreserves, FailPreserves,
           ReadExperiencePreserves DEF Next

LEMMA Invariance == Spec => []IInv
BY InitEstablishes, NextPreserves, PTL DEF Spec

-----------------------------------------------------------------------------
\* No column ever holds what it cannot hold; no balance is negative.
THEOREM TypeCorrect == Spec => []TypeOK
<1>1. IInv => TypeOK
  BY DEF IInv
<1> QED BY <1>1, Invariance, PTL

\* The ledger accounts for every coin, however credits and debits interleave and
\* fail: the row lock is taken before the balance is read.
THEOREM EveryCoinIsAccountedFor == Spec => []LedgerAccounts
<1>1. IInv => LedgerAccounts
  BY DEF IInv
<1> QED BY <1>1, Invariance, PTL

\* The leaderboard entry agrees with the profile after every award.
THEOREM LeaderboardAgrees == Spec => []BoardAgrees
<1>1. IInv => BoardAgrees
  BY DEF IInv
<1> QED BY <1>1, Invariance, PTL

\* Awards that overlap never count twice.
THEOREM NoExperienceIsMinted == Spec => []NothingMinted
<1>1. IInv => NothingMinted
  BY DEF IInv
<1> QED BY <1>1, Invariance, PTL
=============================================================================
