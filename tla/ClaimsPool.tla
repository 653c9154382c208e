----------------------------- MODULE ClaimsPool -----------------------------
(***************************************************************************)
(* How claim_elastic calls reach a block.  The call is unsigned: its owner *)
(* signs a message off the chain, anybody hands the call to some node, the *)
(* nodes gossip it, and an author puts it into a block.  The transaction   *)
(* pools and the gossip are external (sc-transaction-pool); the pallet     *)
(* decides what enters a pool and which calls exclude each other, through  *)
(* validate_unsigned and the "provides" tag it returns.  A pool holds no   *)
(* two calls with the same tag, and the import of a block prunes the calls *)
(* with the tags of its extrinsics, keeping those that are still valid.    *)
(***************************************************************************)
EXTENDS Claims

CONSTANT Nodes

VARIABLES pool,     \* [Nodes -> set of calls]: ready transactions
          signed    \* messages the owners of Ethereum keys have signed

poolVars == <<vars, pool, signed>>

Calls == [network : Networks, dest : Accounts, tx : TxHashes, sig : Signatures]

valid(c) == do_validate(c.network, c.dest, c.tx, c.sig)

\* Mutant: the tag names the destination of the claim.
provides_dest(c) == <<"claims", c.dest>>

\* The tag of ValidTransaction: the recovered signer, and nothing else.
provides(c) == <<"claims", eth_recover(c.sig, c.dest, c.tx)>>

PoolInit == /\ Init
            /\ pool = [node \in Nodes |-> {}]
            /\ signed = {}

\* Whoever owns the key sig.signer signs a destination for a transaction.
Sign(sig) == /\ signed' = signed \cup {sig}
             /\ UNCHANGED <<vars, pool>>

\* A node verifies a call before it takes it into its pool.
Accept(node, c) ==
    /\ runtime = "elastic"
    /\ valid(c)
    /\ \A x \in pool[node] : provides(x) # provides(c)
    /\ pool' = [pool EXCEPT ![node] = @ \cup {c}]
    /\ UNCHANGED <<vars, signed>>

Submit(node, c) == c.sig \in signed /\ Accept(node, c)

Gossip(from, to, c) == c \in pool[from] /\ Accept(to, c)

\* A block with the call c is authored from node's pool; every node imports
\* it and prunes its pool.
Include(node, c) ==
    /\ c \in pool[node]
    /\ claim_elastic(c.network, c.dest, c.tx, c.sig)
    /\ pool' = [m \in Nodes |->
          {x \in pool[m] : \/ provides(x) # provides(c)
                           \/ x # c /\ valid(x)'}]
    /\ UNCHANGED signed

\* The other extrinsics and the upgrades: no tag in common with a claim.
OtherBlock ==
    /\ \/ RuntimeUpgrade
       \/ \E n \in Networks :
             \/ \E to \in Accounts : set_bridge_account_elastic(n, to)
             \/ \E limit \in Limits : set_claim_limit_elastic(n, limit)
             \/ \E mint_fee, burn_fee \in Fees :
                   set_bridge_fee_elastic(n, mint_fee, burn_fee)
             \/ \E signer \in Accounts, tx \in TxHashes, who \in EthereumAddresses,
                   value \in Values : mint_claim_elastic(signer, n, tx, who, value)
             \/ \E who \in Accounts, amount \in Values : burn_elastic(who, n, amount)
    /\ UNCHANGED <<pool, signed>>

PoolNext ==
    \/ \E sig \in Signatures : Sign(sig)
    \/ \E node \in Nodes, c \in Calls : Submit(node, c) \/ Include(node, c)
    \/ \E from, to \in Nodes : \E c \in pool[from] : Gossip(from, to, c)
    \/ OtherBlock

(* Fairness.  The owner of a signed message submits it again as long as it *)
(* is refused because another claim of the owner occupies the tag: the     *)
(* tag is free again and again, not for good, so this fairness is strong.  *)
(* Authors take what stays in a pool into a block (BABE authors without    *)
(* end, and a claim has weight 0, so it always fits).                       *)
SubmitFor(n, tx) ==
    \E node \in Nodes : \E c \in Calls :
       c.network = n /\ c.tx = tx /\ Submit(node, c)
IncludeFor(n, tx) ==
    \E node \in Nodes : \E c \in pool[node] :
       c.network = n /\ c.tx = tx /\ Include(node, c)

Fairness ==
    \A n \in Networks, tx \in TxHashes :
       SF_poolVars(SubmitFor(n, tx)) /\ WF_poolVars(IncludeFor(n, tx))

PoolSpec == PoolInit /\ [][PoolNext]_poolVars
FairPoolSpec == PoolSpec /\ Fairness

-----------------------------------------------------------------------------
(* Every call in the pool of every node would succeed if it were executed  *)
(* now: including a claim on one node throws the claims it invalidates,    *)
(* those for the same transaction to another destination, out of all the   *)
(* pools, because the tag of do_validate is the signer.  So no block       *)
(* carries a failing claim, which nobody would pay for.                    *)
PoolsHoldNoDeadClaim ==
    \A node \in Nodes : \A c \in pool[node] :
       do_claim_succeeds(c.network, c.dest, c.tx, c.sig)

(* A claim is paid only to a destination its owner has signed for this     *)
(* very transaction, in any interleaving of submissions by anybody.        *)
PaidAsSigned ==
    [][\A n \in Networks, tx \in TxHashes :
          /\ ElasticClaims[n][tx] # None
          /\ ~ ElasticClaims[n][tx].claimed
          /\ ElasticClaims'[n][tx].claimed
          => \E sig \in signed :
                /\ sig.signer = ElasticClaims[n][tx].address
                /\ sig.tx = tx
                /\ free' = deposit_creating(free, sig.dest, ElasticClaims[n][tx].amount)
      ]_poolVars

(* A minted claim whose owner has signed a destination is eventually paid, *)
(* although the claims of one owner exclude each other in the pools.       *)
SignedClaimsArePaid ==
    \A n \in Networks, tx \in TxHashes :
       (/\ runtime = "elastic"
        /\ ElasticClaims[n][tx] # None
        /\ \E sig \in signed : sig.signer = ElasticClaims[n][tx].address /\ sig.tx = tx)
       ~> (ElasticClaims[n][tx] # None /\ ElasticClaims[n][tx].claimed)

=============================================================================
