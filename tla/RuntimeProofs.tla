---------------------------- MODULE RuntimeProofs ----------------------------
(***************************************************************************)
(* The execution of a block for any validators, any session changes, any   *)
(* weights, tips, balances and limits: its author, the split of its fees,  *)
(* what it burns, the weight it may take, and that the two halves compose; *)
(* and the lifetime of a transaction for any number of stored block hashes *)
(* that is not below the period of its era.                                *)
(***************************************************************************)
EXTENDS BlockExecution, Mortality, SumTheorems

---------------------------------------------------------------------------
(* The author and the fees *)

(* The inductive invariant: Session and Babe hold the same list, and while *)
(* a block is open its index points at the owner of the slot in that list. *)
FInv ==
    /\ free \in [Accounts -> Nat]
    /\ validators \in ValidatorLists /\ queued \in ValidatorLists
    /\ authorities = validators
    /\ open => /\ index \in DOMAIN authorities
               /\ owner = authorities[index]
               /\ author = owner
    /\ eth_author \in {owner, NoAuthor}

(* The member of a validator list that an index names is a validator. *)
LEMMA ListedIsValidator ==
    ASSUME NEW list \in ValidatorLists, NEW i \in DOMAIN list
    PROVE  list[i] \in Validators
  BY FeesConstants

(* In an open block the author noted is a validator. *)
LEMMA AuthorIsValidator ==
    ASSUME FInv, open
    PROVE  author \in Validators
  BY ListedIsValidator DEF FInv

(* Genesis. *)
LEMMA InitFees == FeesInit => FInv
  BY FeesConstants DEF FeesInit, FInv

(* The start of a block, in a new epoch or not, finds the owner of the slot. *)
LEMMA InitializeKeeps == FInv /\ initialize_block => FInv'
<1> SUFFICES ASSUME FInv, initialize_block PROVE FInv'
  OBVIOUS
<1>1. PICK new_epoch \in BOOLEAN :
         \E i \in DOMAIN (IF new_epoch THEN queued ELSE authorities) :
             /\ index' = i
             /\ owner' = (IF new_epoch THEN queued ELSE authorities)[i]
             /\ \/ new_epoch /\ rotate(i)
                \/ ~new_epoch /\ author' = session_author(validators, i) /\ UNCHANGED sessions
  BY DEF initialize_block
<1>2. free' = free /\ eth_author' = NoAuthor
  BY DEF initialize_block
<1>3. CASE new_epoch
  <2>1. /\ index' \in DOMAIN queued /\ owner' = queued[index']
        /\ rotate(index')
    BY <1>1, <1>3
  <2>2. /\ validators' = queued /\ authorities' = queued /\ queued' \in ValidatorLists
        /\ author' = queued[index']
    BY <2>1 DEF rotate, session_author
  <2> QED
    BY <1>2, <2>1, <2>2 DEF FInv
<1>4. CASE ~new_epoch
  <2>1. /\ index' \in DOMAIN authorities /\ owner' = authorities[index']
        /\ author' = session_author(validators, index')
        /\ UNCHANGED sessions
    BY <1>1, <1>4
  <2>2. author' = authorities[index']
    BY <2>1 DEF session_author, FInv
  <2> QED
    BY <1>2, <2>1, <2>2 DEF FInv, sessions
<1> QED
  BY <1>3, <1>4

(* Both parts of a split are there, and the first is four times the second  *)
(* up to the rounding.                                                      *)
LEMMA Rationed ==
    ASSUME NEW amount \in Nat
    PROVE  /\ ration(amount) \in Nat /\ amount - ration(amount) \in Nat
           /\ 0 =< 4 * (amount - ration(amount)) - ration(amount)
           /\ 4 * (amount - ration(amount)) - ration(amount) =< 4
<1>1. /\ ration(amount) \in Int
      /\ 100 * ration(amount) =< amount * 80
      /\ amount * 80 < 100 * ration(amount) + 100
  BY DEF ration
<1> QED
  BY <1>1

(* There are finitely many accounts. *)
LEMMA AccountsFinite == IsFiniteSet(Accounts)
<1>1. IsFiniteSet({Treasury, DefaultAccount})
  <2>1. IsFiniteSet({Treasury}) /\ IsFiniteSet({DefaultAccount})
    BY FS_Singleton
  <2> QED
    BY <2>1, FS_Union, {Treasury, DefaultAccount} = {Treasury} \cup {DefaultAccount}, Zenon
<1> QED
  BY <1>1, FeesConstants, FS_Union DEF Accounts

(* A credit and a debit change the sum of the balances by their amount. *)
LEMMA CreditTotal ==
    ASSUME NEW b \in [Accounts -> Int], NEW who \in Accounts, NEW amount \in Int
    PROVE  /\ Credit(b, who, amount) \in [Accounts -> Int]
           /\ Total(Credit(b, who, amount)) = Total(b) + amount
<1> DEFINE c == Credit(b, who, amount)
<1>1. b[who] \in Int /\ b[who] + amount \in Int
  OBVIOUS
<1>2. c \in [Accounts -> Int] /\ c[who] = b[who] + amount /\ \A a \in Accounts \ {who} : c[a] = b[a]
  BY <1>1 DEF Credit
<1> HIDE DEF c
<1>3. \A a \in Accounts : b[a] \in Int /\ c[a] \in Int
  BY <1>2
<1>4. Total(c) = Total(b) - b[who] + c[who] /\ Total(b) \in Int
  BY <1>2, <1>3, AccountsFinite, SumUpdate, SumInt DEF Total
<1>5. Total(c) = Total(b) + amount
  BY <1>1, <1>2, <1>4
<1> QED
  BY <1>2, <1>5 DEF c

(* A debit takes its amount out of the total.                                *)
LEMMA DebitTotal ==
    ASSUME NEW b \in [Accounts -> Int], NEW who \in Accounts, NEW amount \in Int
    PROVE  /\ Debit(b, who, amount) \in [Accounts -> Int]
           /\ Total(Debit(b, who, amount)) = Total(b) - amount
<1>1. b[who] \in Int /\ b[who] - amount = b[who] + (-amount) /\ -amount \in Int
  OBVIOUS
<1>2. Debit(b, who, amount) = Credit(b, who, -amount)
  BY <1>1 DEF Debit, Credit
<1>3. Total(b) \in Int
  BY AccountsFinite, SumInt DEF Total
<1>4. Total(Credit(b, who, -amount)) = Total(b) + (-amount) /\ Credit(b, who, -amount) \in [Accounts -> Int]
  BY <1>1, CreditTotal
<1> QED
  BY <1>2, <1>3, <1>4

(* A signed extrinsic: what is refunded and shared out are natural numbers, *)
(* so are the balances after it, and they add up to what they did before.   *)
LEMMA SignedKeeps ==
    ASSUME FInv, NEW p \in Payers, NEW weight \in 0..MaxWeight, NEW used \in 0..weight,
           NEW tip \in 0..MaxTip, NEW to \in Accounts, NEW spent \in Nat,
           apply_signed(p, weight, used, tip, spent, to)
    PROVE  FInv' /\ Total(free') = Total(free)
<1> DEFINE withdrawn == compute_fee(weight) + tip
           paid == Debit(free, p, withdrawn)
           dispatched == Credit(Debit(paid, p, spent), to, spent)
           refund == IF dispatched[p] = 0 THEN 0 ELSE compute_fee(weight) - compute_fee(used)
           fee == withdrawn - refund - tip
           shares == DealWithFees(fee, tip)
<1>1. p \in Accounts /\ Treasury \in Accounts /\ author \in Accounts
  BY AuthorIsValidator DEF Accounts, apply_signed
<1>2. weight \in Nat /\ used \in Nat /\ used =< weight /\ tip \in Nat
  BY FeesConstants
<1>3. /\ compute_fee(weight) \in Nat /\ compute_fee(used) \in Nat
      /\ compute_fee(used) =< compute_fee(weight)
  BY <1>2 DEF compute_fee, WeightToFee
<1>4. withdrawn \in Nat /\ refund \in Nat /\ fee \in Nat
  BY <1>2, <1>3
<1>5. /\ shares.treasury \in Nat /\ shares.author \in Nat
      /\ shares.treasury + shares.author = fee + tip
  <2>1. /\ ration(fee) \in Nat /\ fee - ration(fee) \in Nat
        /\ ration(tip) \in Nat /\ tip - ration(tip) \in Nat
    BY <1>2, <1>4, Rationed
  <2> HIDE DEF fee
  <2>2. /\ shares.treasury = ration(fee) + ration(tip)
        /\ shares.author = (fee - ration(fee)) + (tip - ration(tip))
    BY DEF DealWithFees
  <2> HIDE DEF shares
  <2>3. fee \in Nat /\ tip \in Nat
    BY <1>2, <1>4
  <2> QED
    BY <2>1, <2>2, <2>3
<1>6. paid \in [Accounts -> Nat]
  BY <1>1, <1>4 DEF apply_signed, Debit, FInv
<1>7. dispatched \in [Accounts -> Nat]
  BY <1>1, <1>6 DEF apply_signed, Debit, Credit
<1>8. free' = Author(Credit(Credit(dispatched, p, refund), Treasury, shares.treasury),
                     shares.author)
  BY DEF apply_signed
<1>9. free' \in [Accounts -> Nat]
  <2> HIDE DEF dispatched, refund, shares
  <2> QED
    BY <1>1, <1>4, <1>5, <1>7, <1>8 DEF Author, Credit
<1>10. Total(free') = Total(free)
  <2>1. free \in [Accounts -> Int] /\ Total(free) \in Int
    BY AccountsFinite, SumInt DEF FInv, Total
  <2>2. /\ fee + tip = withdrawn - refund /\ fee \in Int /\ tip \in Int
        /\ withdrawn \in Int /\ refund \in Int
        /\ shares.treasury \in Int /\ shares.author \in Int
    BY <1>2, <1>4, <1>5
  <2> HIDE DEF withdrawn, refund, shares, fee
  <2>3. /\ paid \in [Accounts -> Int] /\ Total(paid) = Total(free) - withdrawn
    BY <1>1, <2>1, <2>2, DebitTotal, Zenon
  <2> HIDE DEF paid
  <2>4. /\ Debit(paid, p, spent) \in [Accounts -> Int]
        /\ Total(Debit(paid, p, spent)) = Total(paid) - spent
    BY <1>1, <2>3, DebitTotal
  <2>5. /\ dispatched \in [Accounts -> Int]
        /\ Total(dispatched) = Total(Debit(paid, p, spent)) + spent
    BY <2>4, CreditTotal
  <2> HIDE DEF dispatched
  <2> DEFINE refunded == Credit(dispatched, p, refund)
             shared == Credit(refunded, Treasury, shares.treasury)
  <2>6. refunded \in [Accounts -> Int] /\ Total(refunded) = Total(dispatched) + refund
    BY <1>1, <2>2, <2>5, CreditTotal
  <2>7. free' = Credit(shared, author, shares.author)
    BY <1>8 DEF Author
  <2> HIDE DEF refunded
  <2>8. shared \in [Accounts -> Int] /\ Total(shared) = Total(refunded) + shares.treasury
    BY <1>1, <2>2, <2>6, CreditTotal, Zenon
  <2> HIDE DEF shared
  <2>9. Total(free') = Total(shared) + shares.author
    BY <1>1, <2>2, <2>7, <2>8, CreditTotal, Zenon
  <2> QED
    BY <1>4, <1>5, <2>1, <2>2, <2>3, <2>4, <2>5, <2>6, <2>8, <2>9, SMTT(30)
<1> QED
  BY <1>9, <1>10 DEF apply_signed, FInv, sessions, block

(* Every step keeps the invariant. *)
LEMMA NextFees == FInv /\ [FeesNext]_feesVars => FInv'
<1> SUFFICES ASSUME FInv, [FeesNext]_feesVars PROVE FInv'
  OBVIOUS
<1>1. CASE initialize_block
  BY <1>1, InitializeKeeps
<1>2. CASE finalize_block
  BY <1>2 DEF finalize_block, find_author, FInv, sessions
<1>3. ASSUME NEW p \in Payers, NEW weight \in 0..MaxWeight, NEW tip \in 0..MaxTip,
             NEW to \in Accounts, NEW spent \in 0..free[p], NEW used \in 0..weight,
             apply_signed(p, weight, used, tip, spent, to)
      PROVE  FInv'
  <2>1. spent \in Nat
    BY DEF FInv, Accounts
  <2> QED
    BY <1>3, <2>1, SignedKeeps
<1>4. ASSUME NEW p \in Payers, NEW gas \in 1..MaxWeight, transact(p, gas)
      PROVE  FInv'
  <2>1. p \in Accounts /\ gas \in Nat
    BY FeesConstants DEF Accounts
  <2>2. free' \in [Accounts -> Nat]
    BY <1>4, <2>1 DEF transact, Debit, FInv
  <2> QED
    BY <1>4, <2>2 DEF transact, FInv, sessions, block
<1>5. CASE UNCHANGED feesVars
  BY <1>5 DEF feesVars, sessions, block, FInv
<1> QED
  BY <1>1, <1>2, <1>3, <1>4, <1>5 DEF FeesNext

(* The Ethereum block names the validator whose slot it was.                *)
THEOREM EthereumAuthor == FeesSpec => []EthereumAuthorIsOwner
<1>1. FInv => EthereumAuthorIsOwner
  BY DEF FInv, EthereumAuthorIsOwner
<1> QED
  BY <1>1, InitFees, NextFees, PTL DEF FeesSpec

(* The validator whose slot it was is the one the fees of the block go to.  *)
THEOREM PaidAuthor == FeesSpec => []AuthorIsPaid
<1>1. FInv => AuthorIsPaid
  BY DEF FInv, AuthorIsPaid
<1> QED
  BY <1>1, InitFees, NextFees, PTL DEF FeesSpec

(* No step but an Ethereum transaction changes what the balances add up to. *)
LEMMA TotalKept ==
    ASSUME FInv, [FeesNext]_feesVars
    PROVE  \/ Total(free') = Total(free)
           \/ \E p \in Payers : \E gas \in 1..MaxWeight : transact(p, gas)
<1>1. CASE initialize_block \/ finalize_block
  BY <1>1 DEF initialize_block, finalize_block
<1>2. ASSUME NEW p \in Payers, NEW weight \in 0..MaxWeight, NEW tip \in 0..MaxTip,
             NEW to \in Accounts, NEW spent \in 0..free[p], NEW used \in 0..weight,
             apply_signed(p, weight, used, tip, spent, to)
      PROVE  Total(free') = Total(free)
  <2>1. spent \in Nat
    BY DEF FInv, Accounts
  <2> QED
    BY <1>2, <2>1, SignedKeeps
<1>3. CASE UNCHANGED feesVars
  BY <1>3 DEF feesVars
<1> QED
  BY <1>1, <1>2, <1>3 DEF FeesNext

(* Fees are shared out to the last unit: refunds, roundings and empty       *)
(* accounts lose nothing, only the gas of Ethereum transactions is burnt.   *)
THEOREM GasAlone == FeesSpec => OnlyGasIsBurnt
<1>1. FInv /\ [FeesNext]_feesVars =>
        [Total(free') # Total(free) =>
            \E p \in Payers : \E gas \in 1..MaxWeight : transact(p, gas)]_feesVars
  BY TotalKept
<1> QED
  BY <1>1, InitFees, NextFees, PTL DEF FeesSpec, OnlyGasIsBurnt

(* What an extrinsic that moves no funds costs is split, to the last unit.  *)
LEMMA SplitOfSigned ==
    ASSUME FInv, NEW p \in Payers, NEW weight \in 0..MaxWeight, NEW tip \in 0..MaxTip,
           NEW used \in 0..weight, apply_signed(p, weight, used, tip, 0, p)
    PROVE  LET t == free'[Treasury] - free[Treasury]
               s == free'[author] - free[author]
           IN  t + s = free[p] - free'[p] /\ 0 =< 4 * s - t /\ 4 * s - t =< 8
<1> DEFINE withdrawn == compute_fee(weight) + tip
           paid == Debit(free, p, withdrawn)
           dispatched == Credit(Debit(paid, p, 0), p, 0)
           refund == IF dispatched[p] = 0 THEN 0 ELSE compute_fee(weight) - compute_fee(used)
           fee == withdrawn - refund - tip
           shares == DealWithFees(fee, tip)
<1>1. p \in Accounts /\ Treasury \in Accounts /\ author \in Accounts /\ author \in Validators
  BY AuthorIsValidator DEF Accounts, apply_signed
<1>2. p # Treasury /\ p # author /\ author # Treasury
  BY <1>1, FeesConstants
<1>3. weight \in Nat /\ used \in Nat /\ used =< weight /\ tip \in Nat
  BY FeesConstants
<1>4. /\ compute_fee(weight) \in Nat /\ compute_fee(used) \in Nat
      /\ compute_fee(used) =< compute_fee(weight)
  BY <1>3 DEF compute_fee, WeightToFee
<1>5. withdrawn \in Nat /\ refund \in Nat /\ fee \in Nat
  BY <1>3, <1>4
<1>6. /\ ration(fee) \in Nat /\ ration(tip) \in Nat
      /\ 0 =< 4 * (fee - ration(fee)) - ration(fee)
      /\ 4 * (fee - ration(fee)) - ration(fee) =< 4
      /\ 0 =< 4 * (tip - ration(tip)) - ration(tip)
      /\ 4 * (tip - ration(tip)) - ration(tip) =< 4
  BY <1>3, <1>5, Rationed
<1>7. /\ shares.treasury = ration(fee) + ration(tip)
      /\ shares.author = (fee - ration(fee)) + (tip - ration(tip))
  BY DEF DealWithFees
<1>8. dispatched = [free EXCEPT ![p] = free[p] - withdrawn]
  <2>1. paid = [free EXCEPT ![p] = free[p] - withdrawn]
    BY DEF Debit
  <2>2. free[p] \in Nat /\ free \in [Accounts -> Nat]
    BY <1>1 DEF FInv
  <2> HIDE DEF withdrawn, paid
  <2>3. paid[p] = free[p] - withdrawn
    BY <1>1, <2>1, <2>2
  <2>4. paid[p] \in Int
    BY <1>5, <2>2, <2>3
  <2>5. paid[p] - 0 = paid[p] /\ paid[p] + 0 = paid[p]
    BY <2>4
  <2>6. Debit(paid, p, 0) = paid
    BY <1>1, <2>1, <2>2, <2>5 DEF Debit
  <2>7. Credit(paid, p, 0) = paid
    BY <1>1, <2>1, <2>2, <2>5 DEF Credit
  <2> QED
    BY <2>1, <2>6, <2>7
<1>9. free' = Author(Credit(Credit(dispatched, p, refund), Treasury, shares.treasury),
                     shares.author)
  BY DEF apply_signed
<1>10. /\ free'[p] = free[p] - withdrawn + refund
       /\ free'[Treasury] = free[Treasury] + shares.treasury
       /\ free'[author] = free[author] + shares.author
  <2> HIDE DEF dispatched, refund, shares, withdrawn
  <2> QED
    BY <1>1, <1>2, <1>5, <1>8, <1>9 DEF Author, Credit, FInv
<1>11. free[p] \in Nat /\ free[Treasury] \in Nat /\ free[author] \in Nat
  BY <1>1 DEF FInv
<1>12. fee + tip = withdrawn - refund
  BY <1>3, <1>5
<1> HIDE DEF withdrawn, refund, fee, shares
<1>13. /\ free'[Treasury] = free[Treasury] + (ration(fee) + ration(tip))
       /\ free'[author] = free[author] + ((fee - ration(fee)) + (tip - ration(tip)))
       /\ free'[p] = free[p] - withdrawn + refund
  BY <1>7, <1>10
<1>14. free'[Treasury] - free[Treasury] = ration(fee) + ration(tip)
  BY <1>6, <1>11, <1>13
<1>15. free'[author] - free[author] = (fee - ration(fee)) + (tip - ration(tip))
  BY <1>3, <1>5, <1>6, <1>11, <1>13
<1>16. free[p] - free'[p] = fee + tip
  BY <1>3, <1>5, <1>11, <1>12, <1>13
<1> QED
  BY <1>3, <1>5, <1>6, <1>14, <1>15, <1>16

(* Fees and tips are split 80 to 20 between treasury and author, up to the  *)
(* rounding, and to the last unit.                                          *)
THEOREM Split == FeesSpec => EightyTwenty
<1>1. FInv /\ [FeesNext]_feesVars =>
        [\A p \in Payers, weight \in 0..MaxWeight, tip \in 0..MaxTip : \A used \in 0..weight :
          apply_signed(p, weight, used, tip, 0, p) =>
             LET t == free'[Treasury] - free[Treasury]
                 s == free'[author] - free[author]
             IN  t + s = free[p] - free'[p] /\ 0 =< 4 * s - t /\ 4 * s - t =< 8]_feesVars
  BY SplitOfSigned
<1> QED
  BY <1>1, InitFees, NextFees, PTL DEF FeesSpec, EightyTwenty

---------------------------------------------------------------------------
(* The weight of a block *)

\* Inductive as it stands, with the types: a normal extrinsic is checked against
\* the whole block, and an operational one that is not has stayed within the
\* space the normal ones leave.
WInv == TypeOK /\ UserWeightFits

\* A block starts with nothing consumed by users, whatever the hooks weigh.
LEMMA StartsEmpty == Init => WInv
BY WeightConstants DEF Init, WInv, TypeOK, UserWeightFits

\* CheckWeight and the refund after the dispatch keep the limits.
LEMMA StepKeepsLimits == WInv /\ [Next]_vars => WInv'
<1> SUFFICES ASSUME WInv, [Next]_vars PROVE WInv'
  OBVIOUS
<1> USE WeightConstants DEF WInv, TypeOK, UserWeightFits
<1>1. ASSUME NEW hooks \in 0..MaxMandatory, register_block_weight(hooks) PROVE WInv'
  BY <1>1 DEF register_block_weight
<1>2. ASSUME NEW w \in 0..(MAXIMUM_BLOCK_WEIGHT + MaxMandatory), NEW used \in 0..w,
             apply_normal(w, used)
      PROVE  WInv'
  BY <1>2 DEF apply_normal, NormalFits, total
<1>3. ASSUME NEW w \in 0..(MAXIMUM_BLOCK_WEIGHT + MaxMandatory), NEW used \in 0..w,
             apply_operational(w, used)
      PROVE  WInv'
  <2>1. operational' \in Nat /\ operational' =< operational + BaseExtrinsic + w
    BY <1>3 DEF apply_operational
  <2>2. CASE total + BaseExtrinsic + w =< MAXIMUM_BLOCK_WEIGHT
    BY <1>3, <2>1, <2>2 DEF apply_operational, total
  <2>3. CASE operational + BaseExtrinsic + w =< reserved
    BY <1>3, <2>1, <2>3 DEF apply_operational, reserved
  <2> QED
    BY <1>3, <2>2, <2>3 DEF apply_operational, OperationalFits
<1>4. ASSUME NEW w \in 0..(MAXIMUM_BLOCK_WEIGHT + MaxMandatory), NEW used \in 0..w,
             apply_mandatory(w, used)
      PROVE  WInv'
  BY <1>4 DEF apply_mandatory
<1>5. CASE UNCHANGED vars
  BY <1>5 DEF vars
<1> QED
  BY <1>1, <1>2, <1>3, <1>4, <1>5 DEF Next

\* The extrinsics users pay for never take more than the limit of the block, the
\* normal ones never more than their ratio of it.
THEOREM UserWeight == Spec => []UserWeightFits
<1>1. WInv => UserWeightFits
  BY DEF WInv
<1> QED
  BY <1>1, StartsEmpty, StepKeepsLimits, PTL DEF Spec

---------------------------------------------------------------------------
(* The two together *)

(* A block execution step is a step of the fees and a step of the weights.  *)
LEMMA ExecutionStep ==
    mandatory \in Nat /\ ExecutionNext =>
       [FeesNext]_feesVars /\ [Next]_vars /\ mandatory' \in Nat
<1> SUFFICES ASSUME mandatory \in Nat, ExecutionNext
             PROVE  [FeesNext]_feesVars /\ [Next]_vars /\ mandatory' \in Nat
  OBVIOUS
<1>0. /\ MAXIMUM_BLOCK_WEIGHT \in Nat /\ NORMAL_WEIGHT \in Nat /\ AVERAGE_INIT \in Nat
      /\ BaseExtrinsic \in Nat /\ BaseBlock \in Nat /\ MaxMandatory \in Nat
      /\ NORMAL_WEIGHT =< MAXIMUM_BLOCK_WEIGHT /\ MaxWeight \in Nat
  BY WeightConstants, FeesConstants
<1>1. ASSUME NEW w \in 0..MaxWeight, NEW used \in 0..w,
             apply_normal(w, used) \/ apply_operational(w, used)
      PROVE  Next /\ mandatory' \in Nat
  <2>1. w =< MAXIMUM_BLOCK_WEIGHT
    BY <1>0, <1>1 DEF apply_normal, apply_operational, NormalFits, OperationalFits, max_extrinsic
  <2>2. w \in 0..(MAXIMUM_BLOCK_WEIGHT + MaxMandatory)
    BY <1>0, <2>1
  <2>3. mandatory' = mandatory
    BY <1>1 DEF apply_normal, apply_operational
  <2> QED
    BY <1>1, <2>2, <2>3 DEF Next
<1>2. CASE Executive_initialize_block
  <2>1. PICK hooks \in 0..(MaxMandatory - BaseBlock) : register_block_weight(hooks)
    BY <1>2 DEF Executive_initialize_block
  <2>2. hooks \in 0..MaxMandatory /\ BaseBlock + hooks =< MaxMandatory
    BY <1>0
  <2>3. mandatory' \in Nat
    BY <1>0, <2>1, <2>2 DEF register_block_weight
  <2> QED
    BY <1>2, <2>1, <2>2, <2>3 DEF Executive_initialize_block, FeesNext, Next
<1>3. CASE Executive_finalize_block
  BY <1>3 DEF Executive_finalize_block, FeesNext, vars
<1>4. CASE Executive_apply_signed
  <2>1. FeesNext
    BY <1>4 DEF Executive_apply_signed, FeesNext
  <2>2. Next /\ mandatory' \in Nat
    BY <1>1, <1>4 DEF Executive_apply_signed
  <2> QED
    BY <2>1, <2>2
<1>5. CASE Executive_apply_ethereum
  <2>1. PICK p \in Payers, gas_limit \in 1..MaxWeight : \E gas \in 1..gas_limit :
           apply_normal(gas_limit, gas) /\ transact(p, gas)
    BY <1>5 DEF Executive_apply_ethereum
  <2>2. PICK gas \in 1..gas_limit : apply_normal(gas_limit, gas) /\ transact(p, gas)
    BY <2>1
  <2>3. gas_limit \in 0..MaxWeight /\ gas \in 0..gas_limit /\ gas \in 1..MaxWeight
    BY <1>0
  <2> QED
    BY <1>1, <2>2, <2>3 DEF FeesNext
<1>6. CASE Executive_apply_inherent
  <2>1. PICK w \in 0..MaxWeight : \E used \in 0..w : apply_mandatory(w, used)
    BY <1>6 DEF Executive_apply_inherent
  <2>2. PICK used \in 0..w : apply_mandatory(w, used)
    BY <2>1
  <2>3. w \in 0..(MAXIMUM_BLOCK_WEIGHT + MaxMandatory)
    BY <1>0, <2>2 DEF apply_mandatory
  <2>4. mandatory' \in Nat
    BY <1>0, <2>2 DEF apply_mandatory
  <2> QED
    BY <1>6, <2>2, <2>3, <2>4 DEF Executive_apply_inherent, Next
<1> QED
  BY <1>2, <1>3, <1>4, <1>5, <1>6 DEF ExecutionNext

(* Executing a block is a refinement of both of its halves: run together    *)
(* under one Executive, the fees still behave as FeesSpec and the weights  *)
(* as Spec says, so what is proved of either holds in every execution.     *)
THEOREM ExecutionComposes == ExecutionSpec => FeesSpec /\ Spec
<1> DEFINE Weighed == mandatory \in Nat
<1>1. ExecutionInit => FeesInit /\ Init /\ Weighed
  BY WeightConstants DEF ExecutionInit, Init
<1>2. Weighed /\ [ExecutionNext]_executionVars =>
         [FeesNext]_feesVars /\ [Next]_vars /\ Weighed'
  <2>1. CASE ExecutionNext
    BY <2>1, ExecutionStep
  <2>2. CASE UNCHANGED executionVars
    <3>1. UNCHANGED feesVars /\ UNCHANGED vars
      BY <2>2 DEF executionVars
    <3>2. mandatory' = mandatory
      BY <3>1 DEF vars
    <3> QED
      BY <3>1, <3>2
  <2> QED
    BY <2>1, <2>2
<1> HIDE DEF Weighed
<1> QED
  BY <1>1, <1>2, PTL DEF ExecutionSpec, FeesSpec, Spec

---------------------------------------------------------------------------
(* The lifetime of a transaction *)

(* The number of blocks a transaction is valid for. *)
Span == Max4(next_power_of_two(period))

(* The inductive invariant: the hashes stored are those of the last         *)
(* BlockHashCount blocks, the best one and the genesis block; a transaction *)
(* was signed with the hash of a block of its phase, which is not ahead.    *)
MInv ==
    /\ number \in Nat
    /\ hashes = {b \in 0..number : b = 0 \/ b >= number - BlockHashCount}
    /\ tx = NoTx \/ /\ tx.period = Span /\ tx.phase \in 0..(Span - 1)
                    /\ tx.signed \in Nat /\ tx.signed =< number
                    /\ \E k \in Nat : tx.signed = k * Span + tx.phase

(* The era of a period that fits is at least of the smallest length.        *)
LEMMA SpanType ==
    ASSUME EraFits
    PROVE  Span \in Nat /\ 4 =< Span /\ Span =< BlockHashCount
  BY MortalityConstants DEF EraFits, Span, Max4

(* Multiples of p: a greater factor gives more by p at least.               *)
LEMMA Multiples ==
    ASSUME NEW p \in Nat, NEW j \in Int, NEW k \in Int, j < k
    PROVE  j * p + p =< k * p
<1>1. (k - j - 1) \in Nat
  OBVIOUS
<1>2. (k - j - 1) * p >= 0
  BY <1>1
<1>3. (k - j - 1) * p = k * p - j * p - p
  OBVIOUS
<1> QED
  BY <1>2, <1>3

(* Division rounds down, and the remainder is what it leaves.               *)
LEMMA Remainder ==
    ASSUME NEW p \in Nat \ {0}, NEW x \in Nat
    PROVE  /\ x \div p \in Nat /\ x % p \in 0..(p - 1)
           /\ x = (x \div p) * p + (x % p)
  OBVIOUS

(* Division finds the factor of the largest multiple.                       *)
LEMMA Quotient ==
    ASSUME NEW p \in Nat \ {0}, NEW x \in Nat, NEW k \in Nat, k * p =< x, x < k * p + p
    PROVE  x \div p = k
<1> DEFINE q == x \div p
<1>1. q \in Nat /\ x % p \in 0..(p - 1) /\ x = q * p + (x % p)
  BY Remainder
<1> HIDE DEF q
<1>2. q * p =< x /\ x < q * p + p /\ q * p \in Int /\ k * p \in Int
  BY <1>1
<1>3. ~(q < k)
  <2> SUFFICES ASSUME q < k PROVE FALSE
    OBVIOUS
  <2>1. q * p + p =< k * p
    BY <1>1, Multiples
  <2> QED
    BY <1>2, <2>1
<1>4. ~(k < q)
  <2> SUFFICES ASSUME k < q PROVE FALSE
    OBVIOUS
  <2>1. k * p + p =< q * p
    BY <1>1, Multiples
  <2> QED
    BY <1>2, <2>1
<1>5. q = k
  BY <1>1, <1>3, <1>4
<1> QED
  BY <1>5 DEF q

(* Era::birth is the last block of the phase, so it is a given one until    *)
(* the next is reached.                                                     *)
LEMMA BirthIs ==
    ASSUME NEW p \in Nat \ {0}, NEW era, era.period = p, era.phase \in 0..(p - 1),
           NEW current \in Nat, NEW k \in Nat, k * p + era.phase =< current
    PROVE  /\ current < k * p + era.phase + p => birth(era, current) = k * p + era.phase
           /\ ~(current < k * p + era.phase + p) => birth(era, current) # k * p + era.phase
<1> DEFINE x == current - era.phase
<1>1. k * p \in Nat /\ era.phase \in Nat
  OBVIOUS
<1>2. x \in Nat /\ ~(current < era.phase) /\ current = x + era.phase
  BY <1>1
<1>3. birth(era, current) = (x \div p) * p + era.phase
  BY <1>2 DEF birth
<1> HIDE DEF x
<1>4. ASSUME current < k * p + era.phase + p
      PROVE  birth(era, current) = k * p + era.phase
  <2>1. k * p =< x /\ x < k * p + p
    BY <1>1, <1>2, <1>4
  <2>2. x \div p = k
    BY <1>2, <2>1, Quotient
  <2> QED
    BY <1>3, <2>2
<1>5. ASSUME ~(current < k * p + era.phase + p)
      PROVE  birth(era, current) # k * p + era.phase
  <2>1. k * p + p =< x
    BY <1>1, <1>2, <1>5
  <2>2. x \div p \in Nat /\ x % p \in 0..(p - 1) /\ x = (x \div p) * p + (x % p)
    BY <1>2, Remainder
  <2>3. (x \div p) * p > k * p
    BY <1>1, <2>1, <2>2
  <2> QED
    BY <1>1, <1>3, <2>2, <2>3
<1> QED
  BY <1>4, <1>5

(* Era::mortal from the current block, then Era::birth at the block after   *)
(* it (or at the genesis block): the transaction is signed for the current  *)
(* block itself.                                                            *)
LEMMA SignedForCurrent ==
    ASSUME EraFits, NEW current \in Nat, NEW seen \in {current, current + 1}
    PROVE  LET era == mortal(period, current)
           IN  /\ era.period = Span /\ era.phase \in 0..(Span - 1)
               /\ birth(era, seen) = current
               /\ \E k \in Nat : current = k * Span + era.phase
<1> DEFINE era == mortal(period, current)
           k == current \div Span
<1>1. Span \in Nat \ {0} /\ 4 =< Span
  BY SpanType
<1>2. era.period = Span /\ era.phase = current % Span
  BY DEF mortal, Span
<1> HIDE DEF era
<1>3. k \in Nat /\ era.phase \in 0..(Span - 1) /\ current = k * Span + era.phase
  BY <1>1, <1>2, Remainder
<1> HIDE DEF k
<1>4. seen \in Nat /\ current =< seen /\ seen < current + Span
  BY <1>1
<1>5. birth(era, seen) = current
  BY <1>1, <1>2, <1>3, <1>4, BirthIs
<1> QED
  BY <1>2, <1>3, <1>5 DEF era

(* The invariant holds at genesis, where no transaction has been made.       *)
LEMMA MortalityStarts == MortalityInit => MInv
  BY MortalityConstants DEF MortalityInit, MInv

(* Every step keeps the invariant: the end of a block prunes exactly the    *)
(* hash that has become too old.                                            *)
LEMMA MortalityStep ==
    ASSUME EraFits, MInv, [MortalityNext]_mortalityVars
    PROVE  MInv'
<1>1. CASE next_block
  <2>1. number \in Nat /\ number' = number + 1 /\ tx' = tx /\ BlockHashCount \in Nat
    BY <1>1, MortalityConstants DEF next_block, MInv
  <2>2. hashes' = {b \in 0..number' : b = 0 \/ b >= number' - BlockHashCount}
    <3>1. ASSUME NEW b
          PROVE  b \in hashes' <=> b \in 0..number' /\ (b = 0 \/ b >= number' - BlockHashCount)
      <4>1. b \in hashes' <=> (b \in hashes \/ b = number + 1) /\ ~(b = number - BlockHashCount /\ b # 0)
        BY <1>1 DEF next_block
      <4>2. b \in hashes <=> b \in 0..number /\ (b = 0 \/ b >= number - BlockHashCount)
        BY DEF MInv
      <4> QED
        BY <2>1, <4>1, <4>2
    <3> QED
      BY <3>1
  <2> QED
    BY <2>1, <2>2 DEF MInv
<1>2. CASE create_transaction
  <2>1. PICK seen \in {number, number + 1} :
           LET current_block == IF seen = 0 THEN 0 ELSE seen - 1
               era == mortal(period, current_block)
               signed == birth(era, seen)
           IN  /\ signed \in hashes
               /\ tx' = [period |-> era.period, phase |-> era.phase, signed |-> signed]
    BY <1>2 DEF create_transaction
  <2> DEFINE current == IF seen = 0 THEN 0 ELSE seen - 1
             era == mortal(period, current)
  <2>2. current \in Nat /\ current =< number /\ seen \in {current, current + 1}
    BY DEF MInv
  <2>3. tx' = [period |-> era.period, phase |-> era.phase, signed |-> birth(era, seen)]
    BY <2>1
  <2> HIDE DEF current
  <2>4. /\ era.period = Span /\ era.phase \in 0..(Span - 1) /\ birth(era, seen) = current
        /\ \E k \in Nat : current = k * Span + era.phase
    BY <2>2, SignedForCurrent
  <2> HIDE DEF era
  <2> QED
    BY <1>2, <2>2, <2>3, <2>4 DEF create_transaction, MInv
<1>3. CASE UNCHANGED mortalityVars
  BY <1>3 DEF mortalityVars, MInv
<1> QED
  BY <1>1, <1>2, <1>3 DEF MortalityNext

(* A transaction of an off-chain worker is accepted for exactly the period  *)
(* of its era: CheckEra finds the signed birth block stored until then.     *)
THEOREM ValidForPeriod ==
    ASSUME EraFits
    PROVE  MortalitySpec => []ValidForItsPeriod
<1>1. MInv => ValidForItsPeriod
  <2> SUFFICES ASSUME MInv, tx # NoTx
               PROVE  Accepted <=> number + 1 < tx.signed + tx.period
    BY DEF ValidForItsPeriod
  <2>1. /\ Span \in Nat \ {0} /\ Span =< BlockHashCount /\ BlockHashCount \in Nat
    BY SpanType, MortalityConstants
  <2>2. /\ number \in Nat /\ number + 1 \in Nat
        /\ tx.period = Span /\ tx.phase \in 0..(Span - 1)
        /\ tx.signed \in Nat /\ tx.signed =< number
    BY DEF MInv
  <2>3. PICK k \in Nat : tx.signed = k * Span + tx.phase
    BY DEF MInv
  <2>4. tx.signed =< number + 1
    BY <2>2
  <2>5. /\ number + 1 < tx.signed + Span => birth(tx, number + 1) = tx.signed
        /\ ~(number + 1 < tx.signed + Span) => birth(tx, number + 1) # tx.signed
    BY <2>1, <2>2, <2>3, <2>4, BirthIs
  <2>6. number + 1 < tx.signed + Span => tx.signed \in hashes
    BY <2>1, <2>2 DEF MInv
  <2> QED
    BY <2>2, <2>5, <2>6 DEF Accepted
<1>2. MInv /\ [MortalityNext]_mortalityVars => MInv'
  BY MortalityStep
<1> QED
  BY <1>1, <1>2, MortalityStarts, PTL DEF MortalitySpec

=============================================================================
