---------------------------- MODULE MCTxMemPool ----------------------------
(* Transactions for TLC: tt and tx spend the same output, tu spends tt, and *)
(* ty spends tl, a coinbase that is not a block's first transaction and     *)
(* that is never fully spent.                                               *)
EXTENDS BlockTemplate

CONSTANTS m1, m2, m3, tt, tx, tu, tl, ty

MCvin == (tt :> << <<m1, 1>> >>) @@ (tx :> << <<m1, 1>> >>) @@ (tu :> << <<tt, 0>> >>) @@
         (ty :> << <<tl, 0>> >>)

MCSpendable == [a \in Tx |-> IF a \in {m1, tl} THEN {0, 1} ELSE {0}]

(* Without loose coinbases. *)
OrdinaryBlocks ==
    {<<m1>>, <<m2>>, <<m1, tt>>, <<m2, tt>>, <<m2, tt, tu>>, <<m2, tx>>, <<m3>>, <<m3, tu>>, <<m3, tx>>}

(* With them. *)
IssuingBlocks ==
    {<<m1>>, <<m1, tl>>, <<m2, tt, tu>>, <<m2, tx>>, <<m2, tl, ty>>, <<m2, ty>>, <<m3>>, <<m3, tx>>}
=============================================================================
