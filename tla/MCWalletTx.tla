----------------------------- MODULE MCWalletTx -----------------------------
(* Transactions for TLC: two coinbases pay the wallet, one of them shared   *)
(* money; ta and tb spend the first, and tc the second and ta's change.      *)
EXTENDS WalletBranches

CONSTANTS m1, m2, m3, ta, tb, tc

MCvin == (ta :> << <<m1, 0>> >>) @@ (tb :> << <<m1, 0>> >>) @@ (tc :> << <<ta, 1>>, <<m2, 0>> >>)

(* None is ever fully spent. *)
MCSpendable == [t \in Tx |-> {0, 1}]

MCMine == {<<m1, 0>>, <<m2, 0>>, <<ta, 1>>}

(* The child's hash comes first. *)
MCHashOrder == <<tc, tb, ta, m1, m2, m3>>

WalletBlocks == {<<m1, m2>>, <<m3>>, <<m3, ta>>, <<m3, ta, tc>>, <<m3, tb>>}
=============================================================================
