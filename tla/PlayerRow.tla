------------------------------ MODULE PlayerRow ------------------------------
(***************************************************************************)
(* The progress columns of a player's row in PostgreSQL and what is written*)
(* with them: coins with the ledger of coin transactions (EconomyService,  *)
(* src/application/services/economy-service.ts), experience and level with *)
(* the leaderboard entry (addExperience of prisma-player-repository.ts).   *)
(*                                                                         *)
(* credit and debit are transactions that lock the row (SELECT ... FOR     *)
(* UPDATE) before they read it; addExperience reads first, and its         *)
(* transaction locks the row only when it updates it.  A transaction's     *)
(* writes are applied at its commit, and it may fail at any statement.     *)
(***************************************************************************)
EXTENDS Integers, Sequences

CONSTANTS
  Players,        \* player ids
  Requests,       \* the requests that may be in flight at a time
  Amounts,        \* the amounts asked for
  StartingCoins,  \* DEFAULT_STARTING_COINS
  MaxInt,         \* the largest value of an Int column
  XpPerLevel,     \* XP_PER_LEVEL
  MaxEntries,     \* bound: ledger entries of a player
  MaxAwarded,     \* bound: experience awarded to a player
  Nobody

ASSUME NobodyAssumption == Nobody \notin Requests
ASSUME NumbersAssumption ==
  /\ Amounts \subseteq Nat \ {0}
  /\ MaxInt \in Nat
  /\ StartingCoins \in 0..MaxInt
  /\ XpPerLevel \in Nat \ {0}

VARIABLES
  coins,    \* Player.coins
  ledger,   \* the CoinTransaction rows of a player, in commit order
  xp,       \* Player.experience
  level,    \* Player.level
  board,    \* the player's Leaderboard row
  awarded,  \* the sum of the awards that were committed
  lock,     \* the request whose transaction holds the row lock
  request   \* what each request in flight has done and read so far

coinVars == <<coins, ledger>>
xpVars == <<xp, level, board, awarded>>
vars == <<coinVars, xpVars, lock, request>>

Idle == [at |-> "idle"]
Goto(q, next) == request' = [request EXCEPT ![q] = next]
Finish(q) == Goto(q, Idle)

LevelFromExperience(experience) == experience \div XpPerLevel + 1

Init ==
  /\ coins = [p \in Players |-> StartingCoins]
  /\ ledger = [p \in Players |-> << >>]
  /\ xp = [p \in Players |-> 0]
  /\ level = [p \in Players |-> 1]
  /\ board = [p \in Players |-> [experience |-> 0, level |-> 1]]
  /\ awarded = [p \in Players |-> 0]
  /\ lock = [p \in Players |-> Nobody]
  /\ request = [q \in Requests |-> Idle]

-----------------------------------------------------------------------------
(* credit and debit: amount is positive to credit, negative to debit *)

\* Slip: the row is read without FOR UPDATE.
UnlockedAnyway(p) == TRUE

Unlocked(p) == lock[p] = Nobody

\* Slip: a debit is not compared with the balance.
CoveredAnyway(p, amount) == TRUE

Covered(p, amount) == coins[p] + amount >= 0

\* SELECT ... FOR UPDATE waits for the lock, then reads; a debit the balance does
\* not cover is refused.
LockRow(q, p, amount) ==
  /\ request[q] = Idle
  /\ Unlocked(p)
  /\ Covered(p, amount)
  /\ lock' = [lock EXCEPT ![p] = q]
  /\ Goto(q, [at |-> "move", player |-> p, amount |-> amount, balance |-> coins[p] + amount])
  /\ UNCHANGED <<coinVars, xpVars>>

Credit(q, p, amount) == LockRow(q, p, amount)

Debit(q, p, amount) == LockRow(q, p, -amount)

\* The row is updated, the ledger entry inserted, and both are committed.  A
\* balance the column cannot hold makes the update fail, see Fail.
CommitMove(q) ==
  /\ request[q].at = "move"
  /\ request[q].balance <= MaxInt
  /\ LET p == request[q].player IN
     /\ Len(ledger[p]) < MaxEntries
     /\ coins' = [coins EXCEPT ![p] = request[q].balance]
     /\ ledger' = [ledger EXCEPT ![p] = Append(@, [amount |-> request[q].amount,
                                                   balanceAfter |-> request[q].balance])]
     /\ lock' = [lock EXCEPT ![p] = Nobody]
  /\ Finish(q)
  /\ UNCHANGED xpVars

-----------------------------------------------------------------------------
(* addExperience *)

\* The row is read outside the transaction.
ReadExperience(q, p, amount) ==
  /\ request[q] = Idle
  /\ Goto(q, [at |-> "xp", player |-> p, amount |-> amount, experience |-> xp[p] + amount])
  /\ UNCHANGED <<coinVars, xpVars, lock>>

\* Slip: what was read is added once more.
NewExperienceTwice(q) == xp[request[q].player] + request[q].experience

NewExperience(q) == request[q].experience

\* Slip: the leaderboard is incremented where the profile is overwritten.
NewEntryApart(q) ==
  LET shown == board[request[q].player].experience + request[q].amount
  IN  [experience |-> shown, level |-> LevelFromExperience(shown)]

NewEntry(q) ==
  [experience |-> NewExperience(q), level |-> LevelFromExperience(NewExperience(q))]

\* The update waits for the row lock; the leaderboard row is upserted in the same
\* transaction.
CommitExperience(q) ==
  /\ request[q].at = "xp"
  /\ LET p == request[q].player IN
     /\ Unlocked(p)
     /\ awarded[p] + request[q].amount <= MaxAwarded
     /\ xp' = [xp EXCEPT ![p] = NewExperience(q)]
     /\ level' = [level EXCEPT ![p] = LevelFromExperience(NewExperience(q))]
     /\ board' = [board EXCEPT ![p] = NewEntry(q)]
     /\ awarded' = [awarded EXCEPT ![p] = @ + request[q].amount]
  /\ Finish(q)
  /\ UNCHANGED <<coinVars, lock>>

\* A statement fails or the process ends: the transaction rolls back and its lock
\* is released.
Fail(q) ==
  /\ request[q] # Idle
  /\ lock' = [p \in Players |-> IF lock[p] = q THEN Nobody ELSE lock[p]]
  /\ Finish(q)
  /\ UNCHANGED <<coinVars, xpVars>>

-----------------------------------------------------------------------------
Next ==
  \E q \in Requests :
    \/ CommitMove(q)
    \/ CommitExperience(q)
    \/ Fail(q)
    \/ \E p \in Players, a \in Amounts :
         \/ Credit(q, p, a)
         \/ Debit(q, p, a)
         \/ ReadExperience(q, p, a)

Spec == Init /\ [][Next]_vars

-----------------------------------------------------------------------------
(* Properties *)

Processing ==
  {Idle}
    \cup [at : {"move"}, player : Players, amount : Int, balance : Nat]
    \cup [at : {"xp"}, player : Players, amount : Amounts, experience : Nat]

\* The columns hold what they can hold: no balance is negative or beyond Int.
TypeOK ==
  /\ coins \in [Players -> 0..MaxInt]
  /\ ledger \in [Players -> Seq([amount : Int, balanceAfter : Nat])]
  /\ xp \in [Players -> Nat]
  /\ level \in [Players -> Nat \ {0}]
  /\ board \in [Players -> [experience : Nat, level : Nat \ {0}]]
  /\ awarded \in [Players -> Nat]
  /\ lock \in [Players -> Requests \cup {Nobody}]
  /\ request \in [Requests -> Processing]

\* The balance before the i-th entry of a ledger.
BalanceBefore(entries, i) == IF i = 1 THEN StartingCoins ELSE entries[i - 1].balanceAfter

\* "Transactional coin ledger" (README.md): the ledger accounts for every coin.
\* Each entry's balance follows from the one before, the last one is the balance,
\* however credits and debits interleave and fail.
LedgerAccounts ==
  \A p \in Players :
    /\ \A i \in DOMAIN ledger[p] :
         ledger[p][i].balanceAfter = BalanceBefore(ledger[p], i) + ledger[p][i].amount
    /\ coins[p] = BalanceBefore(ledger[p], Len(ledger[p]) + 1)

\* A player's leaderboard entry agrees with the profile, whichever of two awards
\* that overlap is committed last, and both with the level rule.
BoardAgrees ==
  \A p \in Players :
    /\ board[p] = [experience |-> xp[p], level |-> level[p]]
    /\ level[p] = LevelFromExperience(xp[p])

\* Awards that overlap may be lost (both read the same experience), but none is
\* counted twice: a player has no more experience than was awarded.
NothingMinted == \A p \in Players : xp[p] <= awarded[p]
=============================================================================
