----------------------------- MODULE Mortality -----------------------------
(***************************************************************************)
(* The lifetime of a transaction that an off-chain worker signs with       *)
(* create_transaction: its mortal era, the block hash that is part of the  *)
(* signed payload (CheckEra, external), and the hashes of old blocks the   *)
(* runtime still stores (BlockHashCount).                                  *)
(***************************************************************************)
EXTENDS Integers

CONSTANTS
    BlockHashCount,   \* 2400 in the code
    MaxBlock          \* bound: the highest block

ASSUME MortalityConstants == BlockHashCount \in Nat \ {0} /\ MaxBlock \in Nat

VARIABLES
    number,   \* the best block
    hashes,   \* the blocks whose hash is in the state of the best block
    tx        \* the transaction: era and the block whose hash was signed

mortalityVars == <<number, hashes, tx>>
NoTx == [period |-> 0, phase |-> 0, signed |-> 0]

next_power_of_two(n) ==
    CHOOSE p \in {2^k : k \in 0..n} : p >= n /\ \A k \in 0..n : 2^k >= n => p =< 2^k

\* Mutant: the next power of two itself.
NotHalved == next_power_of_two(BlockHashCount)
\* "take the biggest period possible"
period == next_power_of_two(BlockHashCount) \div 2

Max4(n) == IF n < 4 THEN 4 ELSE n
\* Era::mortal and Era::birth; no quantization for periods up to 4096.
mortal(p, current) == [period |-> Max4(next_power_of_two(p)), phase |-> current % Max4(next_power_of_two(p))]
birth(era, current) ==
    LET from == IF current < era.phase THEN era.phase ELSE current
    IN  ((from - era.phase) \div era.period) * era.period + era.phase

MortalityInit == number = 0 /\ hashes = {0} /\ tx = NoTx

\* A block is executed: the hash of its parent is in the state from its start,
\* the oldest hash but the genesis block's leaves at its end.
next_block ==
    /\ number < MaxBlock
    /\ number' = number + 1
    /\ hashes' = (hashes \cup {number + 1}) \ ({number - BlockHashCount} \ {0})
    /\ UNCHANGED tx

\* The off-chain worker runs on the best block, for which System::block_number
\* is that block or the one after; the payload cannot be created when the hash
\* of the birth block is not stored.
create_transaction ==
    /\ \E seen \in {number, number + 1} :
          LET current_block == IF seen = 0 THEN 0 ELSE seen - 1
              era == mortal(period, current_block)
              signed == birth(era, seen)
          IN  /\ signed \in hashes
              /\ tx' = [period |-> era.period, phase |-> era.phase, signed |-> signed]
    /\ UNCHANGED <<number, hashes>>

MortalityNext == next_block \/ create_transaction
MortalitySpec == MortalityInit /\ [][MortalityNext]_mortalityVars

\* The era a transaction gets is not longer than hashes are stored for; of
\* BlockHashCount = 2400 its period is 2048.
EraFits == Max4(next_power_of_two(period)) \in 1..BlockHashCount

\* CheckEra and the signature, when the next block applies the transaction.
Accepted ==
    LET b == birth(tx, number + 1)
    IN  b \in hashes /\ b = tx.signed

\* A transaction is accepted by the next block exactly while it is younger than
\* its period: until then its birth block is the one that was signed and has not
\* been pruned, and afterwards the signature no longer matches.
ValidForItsPeriod == tx # NoTx => (Accepted <=> number + 1 < tx.signed + tx.period)

=============================================================================
