----------------------------- MODULE MCLedger -----------------------------
(* Transactions for TLC: tt and tx spend the same coinbase, tu both outputs *)
(* of tt, and td leaves only a provably unspendable output; tl is a coinbase *)
(* that is not the first of its block, spent by ts, and can be repeated once *)
(* it is fully spent.                                                       *)
EXTENDS CoinsCodec

CONSTANTS m1, m2, m3, tt, tx, tu, td, tl, ts

MCvin == (tt :> << <<m1, 0>> >>) @@ (tx :> << <<m1, 0>>, <<m2, 0>> >>) @@
        (tu :> << <<tt, 0>>, <<tt, 1>> >>) @@ (td :> << <<m1, 1>> >>) @@ (ts :> << <<tl, 0>> >>)

MCSpendable == [a \in Tx |-> CASE a \in {m1, tt} -> {0, 1} [] a = td -> {} [] OTHER -> {0}]

MCBlocks ==
    {<<m1>>, <<m2>>, <<m2, tt>>, <<m2, tt, tu>>, <<m2, tx>>, <<m2, tt, td>>, <<m2, tl, ts>>,
     <<m3, tu>>, <<m3, tx>>, <<m3, tl>>, <<m3, td, tl>>, <<m3, ts>>}
=============================================================================
