------------------------------ MODULE EthPools ------------------------------
(***************************************************************************)
(* The two in-memory pools of the Ethereum RPC: the filters clients have   *)
(* installed and the transactions that are pending, with the tasks that    *)
(* keep them from growing (new_full_base of service.rs), and the RPC calls *)
(* that fill them concurrently (fc_rpc, external).                         *)
(*                                                                         *)
(* A block number is kept relative to the highest block imported so far,   *)
(* so that the chain may grow for ever: an entry has the age               *)
(* highest - at_block, a notification the lag highest - number, and the    *)
(* best block, whose number the RPC calls read, may be below the highest   *)
(* one: the fork choice is by weight.                                      *)
(***************************************************************************)
EXTENDS Naturals, Sequences, FiniteSets, Functions

CONSTANTS
    Filters,                       \* the filters clients install, by identifier
    Txs,                           \* the transactions clients submit
    FILTER_RETAIN_THRESHOLD,       \* 100 in the code
    TRANSACTION_RETAIN_THRESHOLD,  \* 15 in the code
    MAX_STORED_FILTERS,            \* 500 in the code
    MAX_LAG                        \* bound: how many notifications may wait, and how
                                   \* far they and the best block may be behind

ASSUME PoolConstants ==
    /\ FILTER_RETAIN_THRESHOLD \in Nat \ {0} /\ TRANSACTION_RETAIN_THRESHOLD \in Nat \ {0}
    /\ MAX_STORED_FILTERS \in Nat \ {0} /\ MAX_LAG \in Nat

VARIABLES
    filter_pool,   \* the age of every filter in the pool
    creating,      \* the age of a filter whose call has read the best number
    pending,       \* the age of every pending transaction
    tx,            \* "new", "pooled" (the insertion is due), "inserted"
    behind,        \* how far the best block is below the highest one
    filter_box,    \* the notifications the filter task has not handled
    pending_box    \* the notifications the pending task has not handled

poolsVars == <<filter_pool, creating, pending, tx, behind, filter_box, pending_box>>

\* An age from which nothing changes any more.
MAX_AGE == MAX_LAG + (IF FILTER_RETAIN_THRESHOLD > TRANSACTION_RETAIN_THRESHOLD
                      THEN FILTER_RETAIN_THRESHOLD ELSE TRANSACTION_RETAIN_THRESHOLD)
\* A pool maps the keys stored in it to their ages.
Pools(keys) == UNION {[stored -> 0..MAX_AGE] : stored \in SUBSET keys}
Stored(pool) == DOMAIN pool
Put(pool, key, age) ==
    [k \in Stored(pool) \cup {key} |-> IF k = key THEN age ELSE pool[k]]
Remove(pool, keys) == Restrict(pool, Stored(pool) \ keys)
Notifications == [lag : 0..MAX_LAG, txs : SUBSET Txs]

PoolsTypeOK ==
    /\ filter_pool \in Pools(Filters) /\ creating \in Pools(Filters)
    /\ Cardinality(Stored(filter_pool)) =< MAX_STORED_FILTERS
    /\ pending \in Pools(Txs)
    /\ tx \in [Txs -> {"new", "pooled", "inserted"}] /\ behind \in 0..MAX_LAG
    /\ filter_box \in Seq(Notifications) /\ pending_box \in Seq(Notifications)

PoolsInit ==
    /\ filter_pool = <<>> /\ creating = <<>>
    /\ pending = <<>> /\ tx = [t \in Txs |-> "new"] /\ behind = 0
    /\ filter_box = <<>> /\ pending_box = <<>>

---------------------------------------------------------------------------
(* RPC calls (external) *)

\* eth_newFilter reads the best number,
new_filter(f) ==
    /\ f \notin Stored(filter_pool) \cup Stored(creating)
    /\ creating' = Put(creating, f, behind)
    /\ UNCHANGED <<filter_pool, pending, tx, behind, filter_box, pending_box>>

\* Mutant: a pool without a limit.
UnlimitedStore(f) ==
    /\ f \in Stored(creating)
    /\ creating' = Remove(creating, {f})
    /\ filter_pool' = Put(filter_pool, f, creating[f])
    /\ UNCHANGED <<pending, tx, behind, filter_box, pending_box>>
\* then locks the pool and stores the filter, unless the pool is full.
store_filter(f) ==
    /\ f \in Stored(creating)
    /\ creating' = Remove(creating, {f})
    /\ filter_pool' = IF Cardinality(Stored(filter_pool)) < MAX_STORED_FILTERS
                      THEN Put(filter_pool, f, creating[f])
                      ELSE filter_pool
    /\ UNCHANGED <<pending, tx, behind, filter_box, pending_box>>

uninstall_filter(f) ==
    /\ f \in Stored(filter_pool)
    /\ filter_pool' = Remove(filter_pool, {f})
    /\ UNCHANGED <<creating, pending, tx, behind, filter_box, pending_box>>

\* eth_sendRawTransaction: the transaction enters the transaction pool,
submit(t) ==
    /\ tx[t] = "new"
    /\ tx' = [tx EXCEPT ![t] = "pooled"]
    /\ UNCHANGED <<filter_pool, creating, pending, behind, filter_box, pending_box>>

\* and only then the pending transactions; a block may have included it by then.
insert(t) ==
    /\ tx[t] = "pooled"
    /\ tx' = [tx EXCEPT ![t] = "inserted"]
    /\ pending' = Put(pending, t, behind)
    /\ UNCHANGED <<filter_pool, creating, behind, filter_box, pending_box>>

---------------------------------------------------------------------------
(* Block import (external) *)

Older(pool) ==
    [k \in Stored(pool) |-> IF pool[k] < MAX_AGE THEN pool[k] + 1 ELSE MAX_AGE]
Later(box) == [i \in DOMAIN box |-> [box[i] EXCEPT !.lag = @ + 1]]
Room(box) == Len(box) < MAX_LAG /\ \A i \in DOMAIN box : box[i].lag < MAX_LAG
Sent(lag, txs, notify) == IF notify THEN <<[lag |-> lag, txs |-> txs]>> ELSE <<>>

\* A block above all others, with the transactions txs.  It becomes the best
\* one or not; notify is FALSE in the initial sync.
import_highest(txs, best, notify) ==
    /\ Room(filter_box) /\ Room(pending_box)
    /\ best \/ behind < MAX_LAG
    /\ behind' = IF best THEN 0 ELSE behind + 1
    /\ filter_box' = Later(filter_box) \o Sent(0, txs, notify)
    /\ pending_box' = Later(pending_box) \o Sent(0, txs, notify)
    /\ filter_pool' = Older(filter_pool) /\ creating' = Older(creating)
    /\ pending' = Older(pending)
    /\ UNCHANGED tx

\* A block of another fork, or of the best one when that is not the highest.
\* It is notified whether it becomes the best one or not.
import_below(lag, txs, best) ==
    /\ Len(filter_box) < MAX_LAG /\ Len(pending_box) < MAX_LAG
    /\ behind' = IF best THEN lag ELSE behind
    /\ filter_box' = filter_box \o Sent(lag, txs, TRUE)
    /\ pending_box' = pending_box \o Sent(lag, txs, TRUE)
    /\ UNCHANGED <<filter_pool, creating, pending, tx>>

---------------------------------------------------------------------------
(* The maintenance tasks *)

\* Mutant: the last block of the lifespan not granted.
OneBlockShort(age, lag, threshold) == age + 1 >= threshold + lag
\* Mutant: the entry's lifespan checked for equality only.
LimitHit(age, lag, threshold) == age = threshold + lag
\* lifespan_limit = at_block + threshold is at most imported_number.
lifespan_over(age, lag, threshold) == age >= threshold + lag

\* frontier-filter-pool, for one notification, under the lock of the pool.
filter_pool_task ==
    /\ filter_box # <<>> /\ filter_box' = Tail(filter_box)
    /\ filter_pool' = Remove(filter_pool, {f \in Stored(filter_pool) :
          lifespan_over(filter_pool[f], Head(filter_box).lag, FILTER_RETAIN_THRESHOLD)})
    /\ UNCHANGED <<creating, pending, tx, behind, pending_box>>

\* Mutant: a transaction leaves only when a block with it is notified.
OnlyIncludedLeave ==
    /\ pending_box # <<>> /\ pending_box' = Tail(pending_box)
    /\ pending' = Remove(pending, Head(pending_box).txs)
    /\ UNCHANGED <<filter_pool, creating, tx, behind, filter_box>>
\* frontier-pending-transactions, for one notification: the transactions of
\* the block leave, and those whose lifespan is over.
pending_transaction_task ==
    /\ pending_box # <<>> /\ pending_box' = Tail(pending_box)
    /\ pending' = Remove(pending, {t \in Stored(pending) :
          \/ t \in Head(pending_box).txs
          \/ lifespan_over(pending[t], Head(pending_box).lag, TRANSACTION_RETAIN_THRESHOLD)})
    /\ UNCHANGED <<filter_pool, creating, tx, behind, filter_box>>

Rpc ==
    \/ \E f \in Filters : new_filter(f) \/ store_filter(f) \/ uninstall_filter(f)
    \/ \E t \in Txs : submit(t) \/ insert(t)
\* Blocks of different forks may contain the same transaction.
Submitted == {t \in Txs : tx[t] # "new"}
Notified == \E txs \in SUBSET Submitted : import_highest(txs, TRUE, TRUE)
Import ==
    \/ \E txs \in SUBSET Submitted, best, notify \in BOOLEAN :
          import_highest(txs, best, notify)
    \/ \E lag \in 0..(MAX_LAG - 1), txs \in SUBSET Submitted, best \in BOOLEAN :
          import_below(lag, txs, best)

PoolsNext == Rpc \/ Import \/ filter_pool_task \/ pending_transaction_task

\* The tasks are polled, an RPC call that has begun ends, and the chain keeps
\* growing with notified blocks (the node is not for ever in its initial sync).
PoolsFairness ==
    /\ WF_poolsVars(filter_pool_task) /\ WF_poolsVars(pending_transaction_task)
    /\ SF_poolsVars(Notified)
    /\ \A f \in Filters : WF_poolsVars(store_filter(f))
    /\ \A t \in Txs : WF_poolsVars(insert(t))

PoolsSpec == PoolsInit /\ [][PoolsNext]_poolsVars /\ PoolsFairness

---------------------------------------------------------------------------
(* Properties *)

\* "Each filter is allowed to stay in the pool for 100 blocks": the filter task
\* removes no filter before some block that far past the one at which it was
\* installed has been imported, however late or out of order the notifications
\* arrive and whatever fork they are of.
FiltersStayTheirTime ==
    [][filter_box' # filter_box =>
          \A f \in Stored(filter_pool) \ Stored(filter_pool') :
             filter_pool[f] >= FILTER_RETAIN_THRESHOLD]_poolsVars

\* A pending transaction is dropped early only for a block that contains it.
PendingStayTheirTime ==
    [][\A t \in Stored(pending) \ Stored(pending') :
          t \in Head(pending_box).txs \/ pending[t] >= TRANSACTION_RETAIN_THRESHOLD]_poolsVars

\* Every filter leaves the pool in the end, the one included that was stored
\* long after its block number was read.
FiltersExpire ==
    \A f \in Filters : f \in Stored(filter_pool) ~> f \notin Stored(filter_pool)

\* No pending transaction leaks, not even one whose block was imported and
\* notified before the RPC call inserted it.
PendingExpire ==
    \A t \in Txs : t \in Stored(pending) ~> t \notin Stored(pending)

=============================================================================
