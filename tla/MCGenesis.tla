----------------------------- MODULE MCGenesis -----------------------------
(* The chain specifications load_spec knows, and small arbitrary ones. *)
EXTENDS Genesis

MaxAuthorities == 2
MaxEndowed == 2
SeqsUpTo(S, n) == UNION {[1..k -> S] : k \in 0..n}
Authority(stash, controller, key) ==
    [hex_authority(stash, key, key, key, key) EXCEPT !.controller = <<"account", <<controller>>>>]
Arbitrary ==
    [type : {"Local"}, root : {<<"account", <<"e1">>>>},
     authorities : SeqsUpTo({Authority(s, c, k) : s \in {"s1", "s2"},
                                c \in {"s1", "c1", "c2"}, k \in {"k1", "k2"}}, MaxAuthorities),
     endowed : SeqsUpTo({<<"account", <<"s1">>>>, <<"account", <<"e1">>>>}, MaxEndowed),
     evm : {get_endowed_evm_accounts({"9157f031"})}]
BuiltInAndArbitrary == BuiltIn \cup Arbitrary
=============================================================================
