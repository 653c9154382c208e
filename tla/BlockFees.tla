----------------------------- MODULE BlockFees -----------------------------
(***************************************************************************)
(* What becomes of the fees of a block: the author of the block as the     *)
(* runtime determines it, for its share of the fees (pallet_authorship)    *)
(* and for the Ethereum block (EthereumFindAuthor), across the sessions in *)
(* which the validators change; the fee a signed extrinsic pays, its       *)
(* refund after the dispatch, and the split between treasury and author    *)
(* (DealWithFees, Author, WeightToFee); the gas of Ethereum transactions,  *)
(* which is burnt.  The pallets are external, their configuration and      *)
(* their order in construct_runtime! are the code's.                       *)
(***************************************************************************)
EXTENDS Integers, Sequences, FiniteSets, Functions

CONSTANTS
    Payers,           \* the accounts that sign extrinsics
    Validators,       \* the accounts of the validators
    ValidatorLists,   \* the validator lists a session may have
    Treasury,         \* the account of the treasury
    DefaultAccount,   \* the zero account
    Funds,            \* what every payer starts with
    MaxWeight,        \* bound: the weight of an extrinsic
    MaxTip            \* bound: the tip of an extrinsic

NoAuthor == "none"

ASSUME FeesConstants ==
    /\ Funds \in Nat /\ MaxWeight \in Nat /\ MaxTip \in Nat
    /\ IsFiniteSet(Payers) /\ IsFiniteSet(Validators)
    /\ \A list \in ValidatorLists : list \in Seq(Validators) /\ list # <<>>
    /\ Payers \cap (Validators \cup {Treasury, DefaultAccount}) = {}
    /\ Treasury \notin Validators /\ NoAuthor \notin Validators

VARIABLES
    free,          \* the balance of every account
    validators,    \* Session: the validators, in the order of their index
    queued,        \* Session: the validators of the next session
    authorities,   \* Babe: the authorities of the epoch, by their accounts
    open,          \* a block is being executed
    index,         \* the author index in its digest
    owner,         \* whose slot it is: the account behind the key that sealed it
    author,        \* Authorship: the author, looked up once in a block
    eth_author     \* the author stored in the Ethereum block

Accounts == Payers \cup Validators \cup {Treasury, DefaultAccount}
sessions == <<validators, queued, authorities>>
block    == <<open, index, owner, author>>
feesVars == <<free, sessions, block, eth_author>>

FeesInit ==
    /\ free = [a \in Accounts |-> IF a \in Payers THEN Funds ELSE 0]
    /\ validators \in ValidatorLists /\ queued \in ValidatorLists
    /\ authorities = validators
    /\ open = FALSE /\ index = 1
    /\ owner = NoAuthor /\ author = NoAuthor /\ eth_author = NoAuthor

---------------------------------------------------------------------------
(* The author of a block *)

\* pallet_session::FindAccountFromAuthorIndex, then the default.
session_author(list, i) == IF i \in DOMAIN list THEN list[i] ELSE DefaultAccount

\* EthereumFindAuthor: an index out of range is a panic.
find_author(i) == authorities[i]

\* Mutant: the sessions rotated without the authorities of the epoch.
AuthoritiesKept(i) ==
    /\ validators' = queued /\ queued' \in ValidatorLists
    /\ UNCHANGED authorities
    /\ author' = session_author(queued, i)
\* Mutant: Session listed before Authorship.
AuthorNotedFirst(i) ==
    /\ author' = session_author(validators, i)
    /\ validators' = queued /\ authorities' = queued
    /\ queued' \in ValidatorLists
\* on_initialize of the pallets, in the first block of an epoch.  The hooks run
\* from the last pallet of construct_runtime! to the first (frame 3.0): Session
\* rotates the validators and the authorities, then Authorship notes the author.
rotate(i) ==
    /\ validators' = queued /\ authorities' = queued
    /\ queued' \in ValidatorLists
    /\ author' = session_author(queued, i)

\* A block starts.  Its author index counts in the authorities of its epoch,
\* which are the queued ones when it is the first of that epoch.
initialize_block ==
    /\ ~open /\ open' = TRUE
    /\ \E new_epoch \in BOOLEAN :
          \E i \in DOMAIN (IF new_epoch THEN queued ELSE authorities) :
             /\ index' = i
             /\ owner' = (IF new_epoch THEN queued ELSE authorities)[i]
             /\ \/ new_epoch /\ rotate(i)
                \/ ~new_epoch /\ author' = session_author(validators, i) /\ UNCHANGED sessions
    /\ eth_author' = NoAuthor
    /\ UNCHANGED free

\* A block ends: the Ethereum block is stored and the noted author forgotten.
finalize_block ==
    /\ open /\ open' = FALSE
    /\ eth_author' = find_author(index)
    /\ author' = NoAuthor
    /\ UNCHANGED <<free, sessions, index, owner>>

---------------------------------------------------------------------------
(* Fees *)

\* The polynomial of WeightToFee has one term, here with the coefficient 1; the
\* base fee is 1 as well.
WeightToFee(weight) == weight
compute_fee(weight) == 1 + WeightToFee(weight)

\* The first part of ration(80, 20); the second is the rest.
ration(amount) == (amount * 80) \div 100

\* Mutant: the tips not merged into the split.
TipsDropped(fee, tip) == [treasury |-> ration(fee), author |-> fee - ration(fee)]
\* Mutant: the shares swapped.
SharesSwapped(fee, tip) ==
    [treasury |-> (fee - ration(fee)) + (tip - ration(tip)), author |-> ration(fee) + ration(tip)]
\* The shares of treasury and author in fee and tip.
DealWithFees(fee, tip) ==
    [treasury |-> ration(fee) + ration(tip),
     author |-> (fee - ration(fee)) + (tip - ration(tip))]

Credit(balances, who, amount) == [balances EXCEPT ![who] = @ + amount]
Debit(balances, who, amount)  == [balances EXCEPT ![who] = @ - amount]

\* The author's share goes to the author Authorship has noted.
Author(balances, amount) == Credit(balances, author, amount)

\* A signed extrinsic: the fee for its weight and the tip are withdrawn, the
\* dispatch moves `spent` from the payer to `to` and uses the weight `used`, and
\* what the fee exceeds the corrected one is refunded, unless the payer's
\* account is empty by then; the rest is shared out.
apply_signed(p, weight, used, tip, spent, to) ==
    LET withdrawn == compute_fee(weight) + tip
        paid == Debit(free, p, withdrawn)
        dispatched == Credit(Debit(paid, p, spent), to, spent)
        refund == IF dispatched[p] = 0 THEN 0 ELSE compute_fee(weight) - compute_fee(used)
        shares == DealWithFees(withdrawn - refund - tip, tip)
    IN  /\ open
        /\ withdrawn =< free[p] /\ spent =< paid[p]
        /\ free' = Author(Credit(Credit(dispatched, p, refund), Treasury, shares.treasury),
                          shares.author)
        /\ UNCHANGED <<sessions, block, eth_author>>

\* An Ethereum transaction: the gas it used is withdrawn and burnt.
transact(p, gas) ==
    /\ open
    /\ gas =< free[p]
    /\ free' = Debit(free, p, gas)
    /\ UNCHANGED <<sessions, block, eth_author>>

FeesNext ==
    \/ initialize_block \/ finalize_block
    \/ \E p \in Payers :
          \/ \E weight \in 0..MaxWeight, tip \in 0..MaxTip, to \in Accounts, spent \in 0..free[p] :
                \E used \in 0..weight : apply_signed(p, weight, used, tip, spent, to)
          \/ \E gas \in 1..MaxWeight : transact(p, gas)

FeesSpec == FeesInit /\ [][FeesNext]_feesVars

---------------------------------------------------------------------------
(* Properties *)

\* The Ethereum block names the validator whose slot it was, in the first block
\* of an epoch too: Ethereum looks the author up at the end of the block, when
\* the session has rotated, and the index is then in range.
EthereumAuthorIsOwner ==
    /\ open => index \in DOMAIN authorities
    /\ eth_author \in {owner, NoAuthor}

\* "for fees, 80% to treasury, 20% to author": the author whose account gets the
\* share is the validator whose slot it was, also in the first block of an epoch,
\* whose author index counts in a list that Session has just put in place.
AuthorIsPaid == open => author = owner

\* Fees are shared out to the last unit: no step but an Ethereum transaction
\* makes the balances add up to less, whatever is refunded and whether or not
\* there is an author.
Total(balances) == SumFunctionOnSet(balances, Accounts)
OnlyGasIsBurnt ==
    [][Total(free') # Total(free) => \E p \in Payers : \E gas \in 1..MaxWeight : transact(p, gas)]_feesVars

\* "for fees, 80% to treasury, 20% to author", "for tips, if any, 80% to
\* treasury, 20% to author": what an extrinsic that moves no funds costs its
\* payer goes to the two in this proportion, up to the rounding of the fee and
\* of the tip, which is in the author's favour.
EightyTwenty ==
    [][\A p \in Payers, weight \in 0..MaxWeight, tip \in 0..MaxTip : \A used \in 0..weight :
          apply_signed(p, weight, used, tip, 0, p) =>
             LET t == free'[Treasury] - free[Treasury]
                 s == free'[author] - free[author]
             IN  t + s = free[p] - free'[p] /\ 0 =< 4 * s - t /\ 4 * s - t =< 8]_feesVars

=============================================================================
