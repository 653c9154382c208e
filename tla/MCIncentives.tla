---------------------------- MODULE MCIncentives ----------------------------
(* Small instances of the incentives pallet over the reward pools. *)
EXTENDS Incentives, TLC

\* Both orders of every pair, of which PairKey names one.
MCPoolIds == {c \in CurrencyPairs : IsPair(c[1], c[2])}
MCAccounts == Users \cup {sub_account_id(p) : p \in MCPoolIds}
MCDexRewards == {<<2, 1, 3>>}
Symmetry == Permutations(Users)
=============================================================================
