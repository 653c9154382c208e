----------------------------- MODULE ChainSpec -----------------------------
(***************************************************************************)
(* The built-in chain specifications of chain_spec.rs and the genesis      *)
(* configuration testnet_genesis makes of them.  A key or account is named *)
(* by the path it is derived from, or by the first digits of its hex form; *)
(* amounts are in DOLLARS.                                                 *)
(***************************************************************************)
EXTENDS Naturals, Sequences

ENDOWMENT == 1000
STASH == 100
\* Mutant: a balance below the stake.
SmallAuthorBalance == 50
AUTHOR_BALANCE == 200
EVM_ENDOWMENT == 1000

---------------------------------------------------------------------------
(* Keys and accounts *)

get_from_seed(kind, path) == <<kind, path>>
get_account_id_from_seed(path) == get_from_seed("account", path)
accounts(paths) == [i \in DOMAIN paths |-> get_account_id_from_seed(paths[i])]

authority_keys_from_seed(s) ==
    [stash |-> get_account_id_from_seed(<<s, "stash">>),
     controller |-> get_account_id_from_seed(<<s>>),
     babe |-> get_from_seed("babe", <<s>>), grandpa |-> get_from_seed("grandpa", <<s>>),
     im_online |-> get_from_seed("im_online", <<s>>),
     discovery |-> get_from_seed("discovery", <<s>>)]

session_keys(grandpa, babe, im_online, discovery) ==
    [grandpa |-> grandpa, babe |-> babe, im_online |-> im_online, discovery |-> discovery]

get_endowed_evm_accounts(addresses) == [a \in addresses |-> EVM_ENDOWMENT]
endowed_evm_account == get_endowed_evm_accounts({"9157f031"})
dev_endowed_evm_accounts == get_endowed_evm_accounts({"6be02d1d", "e6206C7f", "aed40f22"})

---------------------------------------------------------------------------
(* The chains *)

\* Mutant: the commented-out "Alice//stash" endowed as well.
StashEndowed ==
    [type |-> "Development",
     authorities |-> <<authority_keys_from_seed("Alice")>>,
     root |-> get_account_id_from_seed(<<"Alice">>),
     endowed |-> accounts(<<<<"Alice">>, <<"Bob">>, <<"Alice", "stash">>, <<"Bob", "stash">>>>),
     evm |-> dev_endowed_evm_accounts]
development_config ==
    [type |-> "Development",
     authorities |-> <<authority_keys_from_seed("Alice")>>,
     root |-> get_account_id_from_seed(<<"Alice">>),
     endowed |-> accounts(<<<<"Alice">>, <<"Bob">>, <<"Bob", "stash">>>>),
     evm |-> dev_endowed_evm_accounts]

local_testnet_config ==
    [type |-> "Local",
     authorities |-> <<authority_keys_from_seed("Alice"), authority_keys_from_seed("Bob")>>,
     root |-> get_account_id_from_seed(<<"Alice">>),
     endowed |-> accounts(<<<<"Alice">>, <<"Bob">>, <<"Charlie">>, <<"Dave">>, <<"Eve">>,
                            <<"Ferdie">>, <<"Charlie", "stash">>, <<"Dave", "stash">>,
                            <<"Eve", "stash">>, <<"Ferdie", "stash">>>>),
     evm |-> endowed_evm_account]

\* An authority of the public test networks: the stash is its own controller.
hex_authority(account, babe, grandpa, im_online, discovery) ==
    [stash |-> <<"account", <<account>>>>, controller |-> <<"account", <<account>>>>,
     babe |-> <<"babe", <<babe>>>>, grandpa |-> <<"grandpa", <<grandpa>>>>,
     im_online |-> <<"im_online", <<im_online>>>>, discovery |-> <<"discovery", <<discovery>>>>]

local_rose_testnet_config ==
    [type |-> "Custom rose",
     authorities |-> <<hex_authority("222c5fa2", "005b5b12", "6575c115", "f8bc696e", "64f317d4"),
                       hex_authority("9235b080", "dcb5d89f", "c7925c95", "14e2ecd1", "e404b380"),
                       hex_authority("ec0dc859", "c08908eb", "0ec2a175", "f49fda7f", "e0520566")>>,
     root |-> <<"account", <<"0e42eb6f">>>>,
     endowed |-> <<<<"account", <<"0e42eb6f">>>>>>,
     evm |-> endowed_evm_account]

\* The same keys and accounts under another name.
iris_testnet_config == [local_rose_testnet_config EXCEPT !.type = "Custom iris"]

\* Any other identifier is a file.
load_spec(id) ==
    CASE id = "dev" -> development_config
      [] id \in {"", "local"} -> local_testnet_config
      [] id = "rose" -> local_rose_testnet_config
      [] id = "iris" -> iris_testnet_config

---------------------------------------------------------------------------
(* The genesis configuration *)

testnet_genesis(spec) ==
    LET authorities == spec.authorities
        all == DOMAIN authorities
    IN  [balances |->
            [i \in DOMAIN spec.endowed |-> <<spec.endowed[i], ENDOWMENT>>]
                \o [i \in all |-> <<authorities[i].stash, AUTHOR_BALANCE>>],
         evm |-> spec.evm,
         keys |-> [i \in all |->
            [account |-> authorities[i].stash, validator |-> authorities[i].stash,
             keys |-> session_keys(authorities[i].grandpa, authorities[i].babe,
                                   authorities[i].im_online, authorities[i].discovery)]],
         validator_count |-> Len(authorities),
         minimum_validator_count |-> Len(authorities),
         stakers |-> [i \in all |->
            [stash |-> authorities[i].stash, controller |-> authorities[i].controller,
             value |-> STASH]],
         babe |-> {}, grandpa |-> {}, im_online |-> {}, discovery |-> {},
         sudo |-> spec.root]
=============================================================================
