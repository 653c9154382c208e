------------------------------ MODULE Genesis ------------------------------
(***************************************************************************)
(* The construction of the genesis state: the pallets build their part of  *)
(* the storage from the genesis configuration one after the other, in the  *)
(* order in which construct_runtime! lists them, and each asserts what it  *)
(* needs of the pallets before it.  A failed assertion aborts the node.    *)
(* The build functions of the pallets are external; the configuration they *)
(* are given and their order are the code's.                               *)
(***************************************************************************)
EXTENDS ChainSpec, Integers, FiniteSets, FiniteSetsExt, Functions

CONSTANT Specs   \* the chain specifications the node is started with

\* Vectors of authorities and accounts, and the balances of EVM addresses.
ASSUME SpecsAssumption ==
    \A s \in Specs :
       /\ s.authorities \in Seq(Range(s.authorities)) /\ s.endowed \in Seq(Range(s.endowed))
       /\ IsFiniteSet(DOMAIN s.evm) /\ s.evm \in [DOMAIN s.evm -> Nat]

VARIABLES
    spec,        \* the chosen specification
    next,        \* the pallet whose turn it is, an index of PALLETS
    item,        \* the entry of that pallet's list whose turn it is
    panicked,    \* an assertion has failed
    free,        \* Balances: the accounts and their free balances
    issuance,    \* Balances: the total issuance
    bonded,      \* Staking: the controller of every bonded stash
    ledger,      \* Staking: the stash and stake of every controller
    exposed,     \* Staking: the validators elected for the first era
    keys,        \* Session: the keys of every validator
    validators,  \* Session: the validators of the first session
    authorities  \* the keys each consensus pallet starts from

vars == <<spec, next, item, panicked, free, issuance, bonded, ledger, exposed, keys,
          validators, authorities>>
staking == <<bonded, ledger, exposed>>
session == <<keys, validators>>

\* Mutant: the EVM before the balances.
EvmFirst ==
    <<"System", "EVM", "Babe", "Grandpa", "Indices", "Balances", "Staking", "Session", "Sudo">>
\* Mutant: the session before the staking pallet.
SessionFirst ==
    <<"System", "Babe", "Grandpa", "Indices", "Balances", "Session", "Staking", "EVM", "Sudo">>
\* The pallets with genesis configuration or storage, in order.
PALLETS ==
    <<"System", "RandomnessCollectiveFlip", "Timestamp", "Authorship", "Babe", "Grandpa",
      "Indices", "Balances", "TransactionPayment", "Staking", "Session", "Democracy", "Council",
      "TechnicalCommittee", "ElectionsPhragmen", "TechnicalMembership", "Treasury",
      "Contracts", "EVM", "Ethereum", "Sudo", "ImOnline", "AuthorityDiscovery", "Offences",
      "Scheduler", "Identity", "Vesting", "Multisig", "Bounties", "Tips", "EvmAccounts",
      "CloverClaims", "CloverEvminterop">>

\* SessionKeys: one key for each of the pallets that handle sessions.
SessionKeys == {"grandpa", "babe", "im_online", "discovery"}

\* insert of a storage map.
Insert(map, key, value) ==
    [k \in DOMAIN map \cup {key} |-> IF k = key THEN value ELSE map[k]]

config == testnet_genesis(spec)
Done == next > Len(PALLETS)
At(pallet) == ~panicked /\ ~Done /\ PALLETS[next] = pallet
Built == next' = next + 1 /\ item' = 1 /\ UNCHANGED <<spec, panicked>>
Panic == panicked' = TRUE /\ UNCHANGED <<spec, next, item, free, issuance, staking, session, authorities>>

Init ==
    /\ spec \in Specs
    /\ next = 1 /\ item = 1 /\ panicked = FALSE
    /\ free = <<>> /\ issuance = 0
    /\ bonded = <<>> /\ ledger = <<>> /\ exposed = {}
    /\ keys = <<>> /\ validators = {}
    /\ authorities = [k \in SessionKeys |-> {}]

---------------------------------------------------------------------------
(* Balances: "duplicate balances in genesis" is an assertion. *)
balances_build ==
    /\ At("Balances")
    /\ LET balances == config.balances
           given(a) == CHOOSE i \in DOMAIN balances : balances[i][1] = a
           holders == {balances[i][1] : i \in DOMAIN balances}
       IN  IF Cardinality(holders) < Len(balances)
           THEN Panic
           ELSE /\ free' = [a \in DOMAIN free \cup holders |->
                              IF a \in holders THEN balances[given(a)][2] ELSE free[a]]
                /\ issuance' = SumFunction([i \in DOMAIN balances |-> balances[i][2]])
                /\ Built /\ UNCHANGED <<staking, session, authorities>>

\* Staking: every staker must hold its stake, and is then bonded to its
\* controller; an error of that call is ignored.
staking_build ==
    /\ At("Staking")
    /\ \/ /\ item > Len(config.stakers)
          /\ Built /\ UNCHANGED <<free, issuance, staking, session, authorities>>
       \/ /\ item =< Len(config.stakers)
          /\ LET s == config.stakers[item]
             IN  IF s.stash \notin DOMAIN free \/ (s.stash \in DOMAIN free /\ free[s.stash] < s.value)
                 THEN Panic
                 ELSE /\ IF s.stash \notin DOMAIN bonded /\ s.controller \notin DOMAIN ledger
                         THEN /\ bonded' = Insert(bonded, s.stash, s.controller)
                              /\ ledger' = Insert(ledger, s.controller, [stash |-> s.stash, active |-> s.value])
                         ELSE UNCHANGED <<bonded, ledger>>
                      /\ item' = item + 1
                      /\ UNCHANGED <<spec, next, panicked, free, issuance, exposed, session, authorities>>

\* Staking's answer to new_session(0): the elected validators, or none when
\* they are fewer than the minimum.
candidates == {ledger[c].stash : c \in DOMAIN ledger}
elections ==
    LET n == IF Cardinality(candidates) < config.validator_count
             THEN Cardinality(candidates) ELSE config.validator_count
    IN  IF n < config.minimum_validator_count THEN {} ELSE kSubset(n, candidates)

\* A key of k belongs to another validator already.
KeyTaken(validator, k) ==
    \E v \in DOMAIN keys \ {validator} : \E type \in SessionKeys : keys[v][type] = k[type]

\* Session: the keys of every authority, whose account must exist, then the
\* validators of the first session, and their keys to the consensus pallets,
\* which must not have been given authorities of their own.
session_build ==
    /\ At("Session")
    /\ \/ /\ item =< Len(config.keys)
          /\ LET k == config.keys[item]
             IN  IF KeyTaken(k.validator, k.keys) \/ k.account \notin DOMAIN free
                 THEN Panic
                 ELSE /\ keys' = Insert(keys, k.validator, k.keys)
                      /\ item' = item + 1
                      /\ UNCHANGED <<spec, next, panicked, free, issuance, staking, validators, authorities>>
       \/ /\ item > Len(config.keys)
          /\ \E elected \in (IF elections = {} THEN {{}} ELSE elections) :
                LET first == IF elections # {} THEN elected
                             ELSE {config.keys[i].validator : i \in DOMAIN config.keys}
                IN  IF first = {} \/ \E type \in SessionKeys : authorities[type] # {}
                    THEN Panic
                    ELSE /\ validators' = first /\ exposed' = elected
                         /\ authorities' = [type \in SessionKeys |-> {keys[v][type] : v \in first \cap DOMAIN keys}]
                         /\ Built /\ UNCHANGED <<free, issuance, bonded, ledger, keys>>

\* The consensus pallets: authorities of their own, if any, before or after
\* the session has handed them out.
OwnKeys == [Babe |-> "babe", Grandpa |-> "grandpa", ImOnline |-> "im_online",
            AuthorityDiscovery |-> "discovery"]
authorities_build(pallet) ==
    /\ At(pallet)
    /\ LET type == OwnKeys[pallet] IN
       IF config[type] # {} /\ authorities[type] # {}
       THEN Panic
       ELSE /\ authorities' = [authorities EXCEPT ![type] = @ \cup config[type]]
            /\ Built /\ UNCHANGED <<free, issuance, staking, session>>

\* EVM: deposit_creating to the accounts of the endowed addresses.
evm_build ==
    /\ At("EVM")
    /\ LET account(a) == <<"evm", a>>
           endowed == {account(a) : a \in DOMAIN config.evm}
           had(x) == IF x \in DOMAIN free THEN free[x] ELSE 0
       IN  free' = [x \in DOMAIN free \cup endowed |->
                       IF x \in endowed THEN had(x) + config.evm[x[2]] ELSE free[x]]
    /\ issuance' = issuance + SumFunction(config.evm)
    /\ Built /\ UNCHANGED <<staking, session, authorities>>

\* The other pallets start from defaults, or store what they are given.
other_build ==
    /\ ~panicked /\ ~Done
    /\ PALLETS[next] \notin {"Balances", "Staking", "Session", "EVM"} \cup DOMAIN OwnKeys
    /\ Built /\ UNCHANGED <<free, issuance, staking, session, authorities>>

\* The genesis block is written, or the process has died.
Finished == (Done \/ panicked) /\ UNCHANGED vars

Next ==
    \/ balances_build \/ staking_build \/ session_build \/ evm_build
    \/ \E pallet \in DOMAIN OwnKeys : authorities_build(pallet)
    \/ other_build \/ Finished

Spec == Init /\ [][Next]_vars

---------------------------------------------------------------------------
(* Properties *)

\* The chain specifications the node knows by name.
BuiltIn == {load_spec(id) : id \in {"dev", "", "local", "rose", "iris"}}

\* The state the chain is meant to start in: the validators are exactly the
\* initial authorities, each elected with a bonded stake that it owns, and each
\* consensus pallet holds their keys and no others.
Initial == {spec.authorities[i] : i \in DOMAIN spec.authorities}
Ready ==
    /\ validators = {a.stash : a \in Initial} /\ exposed = validators
    /\ \A a \in Initial :
          /\ a.stash \in DOMAIN bonded /\ bonded[a.stash] = a.controller
          /\ ledger[a.controller].stash = a.stash
          /\ ledger[a.controller].active =< free[a.stash]
    /\ \A type \in SessionKeys : authorities[type] = {a[type] : a \in Initial}

\* Every built-in chain starts.  No assertion aborts the node: testnet_genesis
\* endows the authorities' stashes itself, so no list of endowed accounts may
\* name one (the lines that did are commented out), and it leaves the
\* authorities of the consensus pallets to the session.  And the genesis state
\* has the initial authorities elected and in every consensus pallet.
BuiltInChainsStart == spec \in BuiltIn => ~panicked /\ (Done => Ready)

\* testnet_genesis on any arguments: the assertions that abort the build are
\* reached exactly when an account would be endowed twice, a session key is
\* shared, or there is no authority.
Distinct(f) == IsInjective(f)
Column(field) == [i \in DOMAIN spec.authorities |-> spec.authorities[i][field]]
WellFormed ==
    /\ spec.authorities # <<>>
    /\ Distinct(spec.endowed \o Column("stash"))
    /\ \A type \in SessionKeys : Distinct(Column(type))
BuildsWhenWellFormed == (Done => WellFormed) /\ (panicked => ~WellFormed)

\* A controller given to two stashes aborts nothing (Staking ignores the failed
\* bond) but costs the chain its elected validators, and is the only such case.
ReadyWhenPaired == Done => (Distinct(Column("controller")) <=> Ready)

\* The total issuance is what the accounts hold, the EVM accounts, which are
\* endowed by another pallet, included.
IssuanceIsBacked == issuance = SumFunction(free)

=============================================================================
