# Clover: specifications, model checking and proofs

This directory holds the TLA+ specifications of the parts of Clover that keep state of
their own, the TLC configurations that check them on small instances, and TLAPS proofs
of the results that matter most. `PROJECT.json` maps every definition to the source
lines that it models.

## 1. The system

Clover is a Substrate chain with an EVM. Most of its runtime is configuration of
external pallets; the code of the repository with behaviour over time is the following.

| Part | State | Operations | What is hard about it |
|---|---|---|---|
| claims pallet, `modules/claims` | claims, limits, fees and bridge accounts per network, the same for the one network of the previous version, storage version | `set_bridge_account_elastic`, `set_claim_limit_elastic`, `set_bridge_fee_elastic`, `mint_claim_elastic`, `claim_elastic` (unsigned), `burn_elastic`, `validate_unsigned`, `on_runtime_upgrade` | a migration that may run on new and old chains; unsigned calls checked in the pool and again in a block; a relayer whose calls are lost and repeated; fees against limits |
| reward pool pallet, `modules/reward-pool` | per pool: shares, rewards, withdrawable rewards, last block; per holder: shares and debt | `add_share`, `remove_share`, `claim_rewards`, queries | lazily granted rewards; virtual rewards and debts; truncated fixed point numbers; errors after the first write |
| incentives pallet, `modules/incentives` | reward per block of each pair | the calls above, on currency pairs; the reward handler | unordered pairs; saturating rewards |
| account mapping, `modules/evm-accounts`, `runtime/src/impls.rs`, `modules/evm-interop` | address to account and account to address | `claim_account`, `on_killed_account`, `merge_account`, `transfer_to_evm` | two maps that must stay inverse while accounts are merged and reaped |
| runtime, `runtime` | what the pallets it configures keep | weight limits, fee split, author lookup, `create_transaction`, the order of the pallets at genesis and in a block | boundary arithmetic; lookups in lists that change in the same block; hooks that depend on each other's order |
| node service, `node/src/service.rs`, `rpc.rs` | tasks, notification streams, the engine command channel, filter pool, pending transactions, mapping database | start-up of full and light nodes, RPC wiring, the maintenance tasks | tasks run while the start-up goes on and may fail; notifications come late, out of order or not at all |
| command line and chain specifications, `node/src/command.rs`, `cli.rs`, `chain_spec.rs` | the databases on disk; the genesis state | subcommands; `load_spec`, `testnet_genesis` | two databases; genesis assertions that abort every node of a chain |
| RPC extensions, primitives, traits, type utilities, key tool | none | read-only queries, types, printing | |

Interactions: the transaction pools call the claims pallet's `validate_unsigned`; the
relayer drives `mint_claim_elastic` from deposits abroad, and the foreign networks
release what `burn_elastic` announces. Incentives is the reward handler of the reward
pool and its only caller. The balances pallet reaps accounts, which the account mapping
hears of. The node builds the genesis state from the chain specification; the service
feeds block notifications to the mapping worker and the Ethereum pools, and the RPC calls
fill those pools from other threads. `reward-pool`, `incentives` and `rpc` are in the tree but are not members of
the workspace, so the present runtime does not contain them.

## 2. Modules

| Module | Models |
|---|---|
| `Currency` | external: the balances pallet as the claims and reward pool pallets use it (deposits that are dropped below the existential deposit or on overflow, withdrawals that keep the account alive) |
| `BridgeLedger` | abstract specification: what the claims pallet promises |
| `Claims` | the claims pallet: one action per call, and the upgrade hook |
| `ClaimsPool` | `Claims` behind the transaction pools of several nodes |
| `Bridge` | `Claims` between foreign networks and the relayer |
| `RewardPool` | the reward pool pallet with its arithmetic |
| `Incentives` | the incentives pallet on top of `RewardPool` |
| `EvmAccounts` | the account mapping, the merge of accounts, and interop transfers |
| `NodeService` | the life of the node process: subcommands, start-up, tasks, engine commands, block import and the two databases |
| `EthPools` | filter pool and pending transactions with their maintenance tasks and the RPC calls that fill them |
| `ChainSpec`, `Genesis` | the chain specifications with `testnet_genesis`, and the genesis state the pallets build from it |
| `BlockWeights` | the weight limits of the runtime under `CheckWeight` |
| `BlockFees` | the author of a block across sessions, fees, refunds and their split, burnt gas |
| `BlockExecution` | `BlockFees` and `BlockWeights` composed: a block as Executive runs it |
| `Mortality` | the era of `create_transaction` against the block hashes the runtime keeps |
| `SumTheorems` | lemmas about sums over finite sets and about rounded ratios |
| `ClaimsProofs` | theorems about `Claims` and `ClaimsPool` |
| `BridgeProofs` | theorems about `Bridge` |
| `RewardPoolProofs` | theorems about `RewardPool` |
| `IncentivesProofs` | theorems about `Incentives` over the pools |
| `EthereumProofs` | theorems about `EvmAccounts`, `NodeService` and `EthPools` |
| `RuntimeProofs` | theorems about `BlockFees`, `BlockWeights`, `BlockExecution` and `Mortality` |
| `GenesisProofs` | theorems about `Genesis` and `ChainSpec` |
| `MC*` | instances for TLC |

Variables have the names of the storage items, actions those of the calls. Every call of
the claims pallet is `#[transactional]`, so that a failing call is no step; the calls on
the reward pools run in the transactions of their callers. Operators whose comment starts
with "Mutant" are plausible mistakes in the definition that follows them, kept to show
that the properties notice them; no specification uses them.

**Claims.** A signature is the record of who signed which destination for which
transaction; recovering it over anything else yields no address with a claim. `runtime`
tells whether the chain still runs the previous version of the pallet, whose storage
`Init` then fills in any way. `RuntimeUpgrade` may happen again and again, as upgrades do.
The hook sets the limit without looking at the present value and leaves the legacy limit
in place; that this is harmless is `OneStorageInForce`.

**ClaimsPool.** A pool holds no two calls with one tag, and a block prunes from all pools
the calls with the tags of its extrinsics that are not valid any more. The tag is the
recovered signer alone, so that two independent claims of one owner exclude each other.

**Bridge.** Deposits abroad, mint extrinsics under way (lost, repeated, reordered, signed
with keys governance has replaced) and releases abroad.

**RewardPool.** `FixedU128` is modelled with its rounding: down when the product fits the
integer type, to the nearest value otherwise, with accuracy `DIV` in place of 10^18. Each
overflow check is a conjunct. A reward is minted as a signed `Amount`, with saturation
(`unique_saturated_into`), and counted as a `Balance`. `claim_nothing` and `claim_rewards` are the two outcomes of
`claim_rewards`, split at its early returns.

**Incentives.** Currencies are naturals, for their derived order. The reward handler is
the value of the constant operator `caculate_reward` of `RewardPool`. `active` is a
history variable that counts the blocks a pool ended with shares.

**EvmAccounts.** Transfers reap accounts below the existential deposit, together with
their nonces and what is left in them, and the maps hear of it. The nonce of the padded account is read after the
merge, as in the code: with a positive existential deposit it reads as 0.

**NodeService.** `pc` is the place in `new_full_base` or `new_light_base`; one action for
each stretch of it between two effects that another task can see, and `startup_error`
for its `?`. The tasks that have been spawned run at once, interleaved with the rest. A
notification goes to the streams that exist when it is sent; `missed` is a history variable
that records the watchers it came too early for. `Exit` drops everything but the disk, and
`Restart` starts the binary again with any command line. What a task does inside an
external crate is reduced to its effect on the service.

**EthPools.** Block numbers are relative to the highest block imported so far (an age, a
lag), so that the chain can grow for ever in a finite model. The fork choice is by weight,
so the best block, whose number the RPC calls read, may be below the highest (`behind`), and
a notified block of another fork above the best one. `import_highest` and `import_below` are
the imports, each of a block that becomes the best one or does not. An RPC call that reads the best number, or
submits a transaction, is separate from the insertion it makes afterwards under the lock
of the pool, as other tasks run in between. The RPC calls are external (fc_rpc).

**ChainSpec and Genesis.** The specifications are the values in the code, with keys named
by their seed path or first digits. `Genesis` lets the pallets build in the order of
`construct_runtime!` and stops at the first assertion that fails. The build functions are
external and modelled from what `testnet_genesis` gives them.

**BlockWeights.** The parameters of `BlockWeights` are the code's, `CheckWeight` is
external: the limits per class and for the block, the reserve, and the correction after
the dispatch.

**BlockFees.** The digest's author index counts in the authorities of the block's epoch.
At genesis pallets build from first to last, but in FRAME 3.0 their `on_initialize` hooks
run from last to first: Session, listed after Authorship, rotates before Authorship notes
the author. Fees are modelled with coefficient 1 and the fee multiplier at 1 (its update,
`TargetedFeeAdjustment`, is external), and a refund that is refused when the
dispatch has emptied the payer's account.

**BlockExecution.** `CheckWeight` and `ChargeTransactionPayment` are members of one
`SignedExtra`: an extrinsic is admitted and charged for the same weight, and corrected by
the same use of it. Each action of the module is the conjunction of an action of the two
halves; an Ethereum transaction weighs its gas, since `GasWeightMapping` is `()`, and an
inherent pays nothing.

**Mortality.** `System::block_number` seen by the off-chain worker is the best block or the
one after it; both are modelled.

## 3. Runs

| Run | Instance | Checks |
|---|---|---|
| `claims_pool` | 2 nodes, 1 network, 2 transactions of one owner, 2 destinations | `PoolsHoldNoDeadClaim`, `PaidAsSigned`, `SignedClaimsArePaid` |
| `bridge` | 2 networks with one transaction hash, 2 owners, 2 accounts, value 2 at the limit of 2, fee 1, new and legacy chains | `OneStorageInForce`, refinement of `BridgeLedger`, `ClaimsHaveDeposits`, `Conservation`, `DepositsAreMinted` |
| `reward_pool` | 2 holders of one pool, up to 3 shares, 3 blocks, both orders of the pair | `SharesAddUp`, `PoolIsBacked`, `DebtsAreVirtual`, `SurplusIsForgivenDebt`, `StrandedUntilJoined`, `LateStepsCannotFail`, `EveryBlockIsGrantedOnce`, `OthersKeepTheirRewards`, `PromiseIsPaid` |
| `reward_check` | 2 holders, exact ratios | violated: `RewardCheckNeverFires` |
| `reward_dust` | the same with an existential deposit and reward of 2 | violated: `UseableCanBeWithdrawn` |
| `evm_accounts` | 2 accounts, 2 addresses, existential deposit 0 | `ClaimMovesAllFunds`, `EvmNonceNeverFalls` |
| `evm_reaping` | the same with existential deposit 1 | `MappingIsTwoWay`, `AddressRoundTrip` |
| `node_service` | 2 engine calls, 2 blocks, channel of 1, every command line | `WatchersMissNothing`, `EngineCommandsAnswered`, `LostTaskStopsNode`, `MappingCatchesUp` |
| `eth_pools` | 2 filters for a pool of 1, 1 transaction, thresholds 2 and 1, lag up to 2 | types, `FiltersStayTheirTime`, `PendingStayTheirTime`, `FiltersExpire`, `PendingExpire` |
| `genesis` | the chains `load_spec` knows, and all lists of up to 2 authorities and 2 endowed accounts that share stashes, controllers and keys in every way | `BuiltInChainsStart`, `IssuanceIsBacked`, `BuildsWhenWellFormed`, `ReadyWhenPaired` |
| `block_execution` | block limit 5, normal limit 4, mandatory weight up to 6; 1 payer with 4, weights up to 2, tips up to 1; validator lists of different length and order | `UserWeightFits`, `OnlyGasIsBurnt`, `EightyTwenty`, `EthereumAuthorIsOwner`, `AuthorIsPaid` |
| `mortality` | 5 hashes kept, 24 blocks | `ValidForItsPeriod` |

The properties, by what they guard:

1. *Books that are kept twice.* `SharesAddUp` (shares of the pool and of the holders),
   `PoolIsBacked` (withdrawable rewards and the balance of the sub account),
   `DebtsAreVirtual` (debts and the virtual part of the rewards), `SurplusIsForgivenDebt`
   (how far the two drift apart, and by which calls), `MappingIsTwoWay`,
   `AddressRoundTrip`, `OneStorageInForce`, `IssuanceIsBacked`, `BuiltInChainsStart`
   (stashes, bonds, elected validators and the keys of four pallets).
2. *Money.* `Conservation` (balances, unpaid claims, releases and deposits, step by step),
   `ClaimsHaveDeposits`, `ClaimMovesAllFunds`, `EveryBlockIsGrantedOnce`,
   `OthersKeepTheirRewards` (an action of one holder costs the others rounding only;
   `rounding` states how much), `StrandedUntilJoined` (the only holder that is refused its
   reward stays refused until somebody joins), `PromiseIsPaid` (in either order of the
   pair), `OnlyGasIsBurnt`, `EightyTwenty`.
3. *Checks made at one time and used at another.* `PoolsHoldNoDeadClaim`,
   `PaidAsSigned`, `LateStepsCannotFail` (no error after the first write of a call), `EvmNonceNeverFalls`, `AuthorIsPaid` and `EthereumAuthorIsOwner` (an
   index looked up at the start and at the end of a block whose session rotates),
   `ValidForItsPeriod`.
4. *Order and limits.* `WatchersMissNothing`, `FiltersStayTheirTime`,
   `PendingStayTheirTime`, `UserWeightFits`, `BuildsWhenWellFormed`, `ReadyWhenPaired`.
   `WatchersMissNothing` is about the mapping worker and the filter pool task; the pending
   transaction task subscribes only when it is first polled, and a block it misses is made
   up for by the age limit (`PendingExpire`).
5. *Progress.* `SignedClaimsArePaid`, `DepositsAreMinted`, `EngineCommandsAnswered`,
   `LostTaskStopsNode`, `MappingCatchesUp`, `FiltersExpire`, `PendingExpire`.
6. *The promise as a whole.* `ImplementsLedger`.

### Bounds

The instances are small, but each has what its properties are about: the same hash on
two networks, a deposit exactly at the limit, a legacy chain in every state, one claim
signed for two destinations and two claims that exclude each other, holders that join at
different blocks with ratios that are not exact (`DIV = 10` and thirds). What an instance
leaves out is covered by a theorem where there is one: several transactions that compete
for one limit, the rotation between relayer keys and an existential deposit of 1 are cases of
`Refinement` and `ClaimsBacked`; `DepositsAreMinted` is checked with one relayer key
only. `MaxBlock`, `MaxShare`, `MaxNonce`, `MaxBalance` and the argument sets are the only
bounds. `bridge` has room for every balance it can reach, since `deposit_creating` drops
a deposit that overflows; a u128 of CLV does not. Deadlock is not checked where the
bounded block number or nonce ends every behaviour. Symmetry is used for interchangeable
users and accounts, never with a liveness property.

In the node, two calls and a channel of one reach every state of a call (waiting for room,
in the channel, dropped with it), and two blocks let one be imported before and one after
any step. `MAX_LAG` of 2 lets two notifications wait, the one of a lower block behind
that of a higher one, while a fork overtakes the best block; `MAX_AGE` is
the age from which `lifespan_over` no longer changes. The block limits have the order of
the code's (the normal limit below the block's, one unit for hooks), with a mandatory
weight that exceeds the block.
`BlockHashCount = 5` has the relevant property of 2400, it is not a power of two, and 24
blocks are several of its eras. The values 80 and 20 are the code's.

### Fairness

`claims_pool`: weak fairness of the inclusion of a claim that stays in a pool
(authors do not stop, and the call has weight 0), and strong fairness of submission: the
owner submits again as long as another claim of the owner occupies the tag, and the tag
is free infinitely often but not for good. `bridge`: the relayer repeats the mint of
a deposit (weak fairness) and does not lose every extrinsic (strong fairness of delivery).
Nothing is assumed of governance or of users.

`node_service`: weak fairness of the start-up (straight-line code), of the mapping worker and
the manual seal task (the executor polls a task that can go on), of a send with room in
the channel, and of the exit once the task manager's future has resolved. A restart, the
import of blocks, a signal and the end of a task may or may not happen. `eth_pools`: weak
fairness of both maintenance tasks and of an RPC call that has begun, and strong fairness of
the import of a notified best block: the chain keeps growing, but the model lets it
wait while a notification is at the bound `MAX_LAG`.

### Disagreements between the code and its comments

* `reward_check`. The check on the reward in `get_rewards_by_account_shares`
  (reward-pool `lib.rs:178`, "should not happen, but it's nice to have a check") does
  fire. One holder has 1 share and 3 rewards; another adds 1 share (virtual reward 3)
  and removes it in the same block. Its reward, 0, is not above `ExistentialReward`, so
  `total_rewards` keeps the virtual 3 while its debt is cleared. The first holder now
  owns 6 of 6 rewards, of which 3 are withdrawable: it can neither remove its share nor
  claim (`lib.rs:426`). A grant does not help, since it raises both counters alike
  (`lib.rs:293-294`); the holder is refused for good unless somebody else joins the pool,
  which is `StrandedUntilJoined`.
* `reward_dust`. `total_rewards_useable` is documented as the amount "which can be
  withdrawn" (`lib.rs:52`). With an existential deposit, as in the pallet's mock, paying
  a reward can leave the sub account with less than the deposit: the rest is burned, and
  still counted. The runtime's deposit is 0, for which `Backed` (below) is proved.

Three more were met while modelling. They are visible in the definitions themselves, and no
run restates them:

* `rpc.rs:275` gives the engine interface the sending end "to allow the rpc send
  EngineCommands to the background block authorship task". The builder hands it out on
  `--manual-seal` alone, the task is spawned for an authority only: a full node with the
  flag serves an interface whose calls all fail (`create_full` and `authoring` of
  `NodeService`). They do fail, and do not hang: `EngineCommandsAnswered`.
* "Remove the whole chain" (`cli.rs:35`): `purge_chain` removes the chain's database and
  leaves the Ethereum mapping database of the same chain.
* "this should only be enabled on development chains" (`chain_spec.rs:410`):
  `testnet_genesis` ignores its argument and sets `enable_println` for every chain.

## 4. Proofs

All theorems hold for every value of the constants that satisfies the named assumptions;
33 of the 40 properties of the runs are proved, all but those of progress. Some properties
are proved and not repeated as runs: the type invariants of `Claims`, `RewardPool` and
`EvmAccounts`, and those that are defined in the proof modules. Each of them, and each
inductive invariant, was checked by TLC on the instance of a run before it was proved.

**`SumTheorems`.** Sums over finite sets (`SumFunctionOnSet`) for the books that are kept
twice: taking an element out, changing one entry, moving an amount between two, bounds.
The sum is a recursive function on subsets, and induction is done by the smallest
counterexample: strict subsets of a finite set are well founded, so a non-empty
set of bad subsets has a minimal member. Stated with sets in place of an operator parameter,
this is within the provers' reach. The finiteness of accounts, users and transactions
is an assumption of the modules (`PoolAssumption`, `EvmAssumption`, `RelayerAssumption`,
`FeesConstants`). Lists of accounts and the sums of their amounts, for the genesis, and the
arithmetic of rounded ratios, which `OthersLoseRoundingOnly` and `PoolCoversClaims` rest
on, are there too.

**`ClaimsProofs`.**
* `TypeCorrect`, `OneStorage`, and `Refinement`: `Claims` implements `BridgeLedger`.
  Assumes `ClaimsAssumption` (arguments are balances, `None` is no value),
  `CurrencyAssumption`, and `DepositAssumption`, an existential deposit of 0 or 1, the two
  values in the repository (a larger one drops small payments, which the ledger does not
  allow). The inductive invariant is `TypeOK /\ OneStorageInForce`. Refinement needs
  it because the mapping reads the legacy storage on a legacy chain and the elastic one
  afterwards: the migration is a stuttering step only if nothing is in force in both.
* `PaidOnce`: what `BridgeLedger` promises of every step, `EntriesAreFinal`, holds of
  `Claims` through the refinement. An entry keeps its owner and amount and stays paid,
  over upgrades and the migration too, and nobody but the fee account gets more without being
  paid an entry of that very amount.
* `NoDeadClaim` and `OwnerDecides`, for any number of nodes. The
  invariant `PInv`: each pooled call is valid and signed, and was accepted under the elastic
  runtime. The argument: two valid calls for one claim have the claim's owner for a signer,
  hence the same tag; so the calls that stay in a pool when a block is imported are for
  other claims, and those the block does not touch. No migration that changes claims can
  follow, because of `OneStorageInForce`.
* `PoolImplementsLedger`: the pallet behind the transaction pools still implements the
  ledger, and its entries are final.

**`BridgeProofs`.** For any networks, transactions and keys, under `RelayerAssumption`.
* `ClaimsBacked`. The invariant `BInv` adds to the types and `OneStorageInForce` that every
  relay on its way is for a deposit, since the pallet cannot see the foreign network.
* `BridgeImplementsLedger`: every step of the bridge is a step of `Claims` or leaves it
  alone, so the bridge implements the ledger too, and its entries are final.
* `Conserved`: `BridgeSpec /\ []DepositsFit => Conservation`. `DepositsFit` says that all
  deposits and the balances at genesis together fit a balance; beyond it
  `deposit_creating` drops money. The invariant `CInv` bounds the surplus (balances, unpaid
  claims and releases, less the deposits) by the balances at genesis: without the bound a claim could
  meet a balance that it overflows.

**`RewardPoolProofs`.** For any users, pools, shares, accuracy `DIV` and any reward handler.
* `TypeCorrect`: no share, debt or reward leaves its type; and `Backed`: without an
  existential deposit the sub account holds exactly `total_rewards_useable`, if every
  reward fits the `Amount` it is minted as (`RewardsFit`): beyond it the conversion
  saturates, and the pool counts more than is minted. A
  payment leaves the balances in their type because the checks bound it by
  `total_rewards_useable`, which is what the account holds.
* `SharesAlwaysAddUp` and `DebtsStayVirtual`. Each call changes the counters of its pool by at least
  what it changes the entry of its user (`CallSummary`), and the sums follow
  (`HolderSums`).
* `DebtsAreExact` (`SurplusIsForgivenDebt`) sharpens the second: the surplus of the virtual
  rewards over the debts changes in one way only, a removal whose reward is too small
  to be sent, and then by the debt of the removed shares. Rounding never adds to it.
* `LeaversOweNothing` (`NoSharesNoDebt`): a holder without shares has no debt, as the ratio
  of all shares is not rounded (`WholeRatio`).
* `PoolCoversClaims` (`ClaimsAreCovered`): all holders together can claim what is withdrawable and
  that surplus, and beyond it half a unit and half a part in `DIV` of the rewards for each
  holder. Every reward is bounded by the holder's part (`ShareOfRewards`), and the parts add up
  because the shares do. With `DebtsAreExact` it locates the violation of
  `reward_check`: rounding and the rewards that `remove_share` does not send are the
  only ways in which a pool promises more than it has. Without the surplus TLC finds the
  bound violated.
* `OthersLoseRoundingOnly`: `OthersKeepTheirRewards`. A ratio that is rounded down is too
  small by less than one part in `DIV`; one that is rounded to the nearest value is off
  by at most half of it (`Rounded`). Both ratios of a holder, before and after a call, are
  rounded the same way, since both have the numerator `shares * DIV`. `AddDilution` and
  `RemovalDilution` bound what the call itself takes: the virtual reward of new shares is
  below their value by one unit and one part in `DIV` per share, the reward of removed
  shares above it by half a unit and half a part. An earlier form of `rounding`, with
  the rewards after the call only, held on the small instance and failed to be provable:
  when nearly all shares are removed and the ratios round to nearest, the error is in
  proportion to the rewards before the call.

**`IncentivesProofs`.** For any users, currencies and rewards of a block.
* `IncentivesImplementPool`: `IncentiveSpec => Spec`, so that the above holds of the
  incentives pallet; it uses `IncentivesIsTheHandler`, the value that the instances give the
  constant `caculate_reward`. `PromiseKept` is about its queries.
* `BlocksGrantedOnce` and `LateStepsSucceed`, for an existential deposit of 0, the runtime's,
  and `GrantsFit`: what can be granted until the last block fits a balance, without which
  `deposit_creating` drops a grant, and what one pool can be granted fits an `Amount`,
  without which a part of it is not minted. The invariant `GrantInv` states that all money is
  the sum of the grants so far, less what is pending in pools not yet brought up to date. The
  late steps then succeed because an account never holds more than all grants, and because
  `SharesAddUp` and `DebtsAreVirtual` bound a user's entry by the counters already checked.
* `Stranded`: `Spec => StrandedUntilJoined`, for any reward handler. With all shares in one
  hand the ratio is not rounded, and nobody else owes anything (`LeaversOweNothing`): what
  the holder can claim exceeds what is withdrawable by exactly the surplus
  (`AloneOwesAll`, `AloneClaims`), so it is stranded just when the surplus is positive
  (`SurplusStrands`). The surplus never shrinks (`SurplusGrows`, from the lemma behind `DebtsAreExact`), and a stranded
  holder that stays alone keeps some of its shares (`StrandedKeepsShares`).

**`EthereumProofs`.**
* `AccountsTyped`, `TwoWay`, `RoundTrip`, `AllFundsMove` (a claim leaves nothing behind) and
  `NonceNeverFalls`, which assumes the runtime's existential deposit of 0: with a positive
  one a reaped account loses its nonce. The inductive invariant `MapInv` adds to the two-way
  map that only native accounts are mapped, since a padded account has no key to sign
  `claim_account` with; without it a mapped padded account would break the round trip.
* `MoneyConserved`: transfers between the two worlds, claims and reservations create no
  money (`NoMoneyCreated`), and with the existential deposit of 0 they lose none
  (`NoMoneyLost`). `NoAccountBelowDeposit` (`NoDust`): for any deposit an account is empty or holds it,
  so that `merge_account` never sends too little to open an account with, and its
  transfer cannot make `claim_account` fail. The attempt to prove it corrected the model:
  a reaped account used to keep its dust.
* `NothingMissed`, for any blocks, calls and channel capacity. The
  invariant `OInv` says of every point of the start-up whether something that can import
  blocks is running and which streams are held by then; the first never comes before the second
  except in a light node, which has no watchers.
* `PoolsTyped`, `FiltersStay` and `PendingStay`, for any limits, thresholds, lag and forks.
  The limit of the filter pool is a cardinality, so `PInv` adds that the pool is finite. An
  age in the pools counts from the highest block imported, of whatever fork, and a
  notification is never ahead of it: a filter that a late notification finds old enough is old enough.

**`RuntimeProofs`.**
* `EthereumAuthor`, `PaidAuthor`, `Split` and `GasAlone`, for any validators,
  sessions, weights and tips. The invariant `FInv`: Session and Babe hold the same list, in
  an open block the index is in its range, and the author noted is the owner of the slot.
  Assumes `FeesConstants` (validator lists are not empty; payers, validators and treasury are
  different accounts). `GasAlone` adds up what each handler moves: a fee goes to the
  treasury and the author in two parts that make up the whole.
* `UserWeight`, for any limits with the normal one
  within the block's (`WeightConstants`). Operational extrinsics are admitted either within the block
  limit or within the reserve; the invariant bounds both classes together.
* `ExecutionComposes`: `ExecutionSpec` implements `FeesSpec` and the
  `Spec` of `BlockWeights`, so that these results hold of every execution.
* `ValidForPeriod`, under `EraFits`: the period, rounded up to a power of two, is within the block
  hashes kept, as 2048 is for 2400. The invariant `MInv` keeps the signed block as a
  multiple of the era plus the phase, from which the birth of the era is computed back.

**`GenesisProofs`.** `GenesisIssuance`, `GenesisBuilds`, `GenesisReady` and `BuiltInChains`,
for any set of chain specifications that are finite lists (`SpecsAssumption`), not only the
short ones of the run. `GenesisInv` describes the state between any two entries of any
pallet's list: which entries have been written (`Counters`), that the issuance is the sum of
the balances (`Money`), that each controller so far has the ledger of a stash that is
bonded to it (`Stakes`), which keys and authority lists
are set (`Sessions`), and that a build that was aborted had an ill-formed specification.
`BuiltInChains` then evaluates the lists in `chain_spec.rs`: derived accounts and keys differ
because their seed paths do.

Only model-checked: the seven properties of progress (group 5 above), since liveness under
fairness is out of the prover's reach; and, on their instances, the assumptions on constants,
which TLC evaluates in every run.

## 5. Not modelled

* Forks and reorganisations of the state (`EthPools` has the notifications of forks); locks,
  events and reference counts; pallets that are used unchanged.
* The runtime APIs, which forward to pallets, and the parameters of external pallets that no
  property here depends on.
* `CurrencyToVoteHandler`, `CurrencyToVoteHandler2` and `StaticFeeMultiplierUpdate` of
  `runtime/src/impls.rs`: no pallet of the runtime uses them. The fee multiplier that
  is configured, `TargetedFeeAdjustment`, is external and modelled as 1.
* The listing queries `get_all_pools` and `get_all_incentive_pools`, and the crates under
  `rpc`, which are not members of the workspace: read-only and stateless.
* `primitives` and `modules/traits`: types and trait declarations without behaviour. The key
  tool: printing.
* In the node: telemetry, Prometheus, off-chain workers, and the inside of external tasks
  (GRANDPA, BABE, discovery). Boot nodes, names and properties of the chain specifications.

## 6. Plan

1. Done: the claims pallet with its ledger, pools and bridge; reward pools and incentives;
   the account mapping; the node's start-up, tasks and Ethereum pools; chain specifications
   and genesis; weights, fees and authors of a block and their composition, eras; proofs of
   all properties but those of progress.
2. Composition: block execution over the account mapping, with the fee multiplier.
3. Proofs: the block weights and fees for a fee multiplier other than 1.
