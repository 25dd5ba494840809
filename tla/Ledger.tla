------------------------------- MODULE Ledger -------------------------------
(***************************************************************************)
(* The unspent outputs: CCoins and CTxUndo, the cache pcoinsTip over the   *)
(* coin database, UpdateCoins, and what ConnectBlock and DisconnectBlock   *)
(* do to the coins (src/coins.h, src/coins.cpp, src/core.h, src/txdb.cpp,  *)
(* src/main.cpp).                                                          *)
(*                                                                         *)
(* Which block is connected next is ChainState's matter; here it is any    *)
(* block that ConnectBlock accepts on the present coins.                   *)
(*                                                                         *)
(* Abstracted: an output is its index; nHeight stands for all three fields *)
(* an undo record restores (nHeight, fCoinBase, nVersion); amounts and     *)
(* scripts are left out; provably unspendable outputs are not in           *)
(* Spendable; entries a cache holds unchanged are left out of it.          *)
(***************************************************************************)
EXTENDS Naturals, Sequences, SequencesExt

CONSTANTS
    Tx,         \* the transactions that pass CheckTransaction
    CoinBase,   \* those with IsCoinBase(): one input, the null outpoint
    vin,        \* the outpoints each of the others spends, in order
    Spendable,  \* the indices of the outputs that can be spent
    Blocks,     \* the vtx of the blocks that pass CheckBlock
    MaxHeight   \* a bound on the length of the chain

(* CheckTransaction: there are inputs, none of them twice.  CheckBlock: a  *)
(* coinbase first, no transaction twice; further coinbases are allowed.    *)
ASSUME TxAssumption ==
    /\ CoinBase \subseteq Tx /\ MaxHeight \in Nat
    /\ Spendable \in [Tx -> SUBSET Nat]
    /\ \A t \in Tx \ CoinBase : vin[t] # <<>> /\ IsInjective(vin[t]) /\ vin[t] \in Seq(Tx \X Nat)

ASSUME BlocksAssumption ==
    \A vtx \in Blocks :
        vtx \in Seq(Tx) /\ Len(vtx) > 0 /\ vtx[1] \in CoinBase /\ IsInjective(vtx)

VARIABLES
    chain,       \* the blocks of chainActive above genesis, each with its undo data
    cacheCoins,  \* pcoinsTip: transactions to CCoins, as changed since the last flush
    coinsdb,     \* the coin database
    flushed      \* the chain whose best block the database names

ledger == <<chain, cacheCoins, coinsdb, flushed>>

-----------------------------------------------------------------------------
(* The variants named "Slip..." are not part of the model: each is a mistake *)
(* that could be made in the definition it precedes, and that one of the    *)
(* properties below tells from the real code.                               *)

(* CCoins.  The genesis block's coinbase is never added, so no height is 0. *)
Coins(t, h) == [vout |-> Spendable[t], nHeight |-> h]

Empty == [vout |-> {}, nHeight |-> 0]

IsPruned(c) == c.vout = {}

(* operator== *)
Same(c, d) == c = d \/ (IsPruned(c) /\ IsPruned(d))

(* Whether this is the last output is looked at before it is spent. *)
SlipSpend(c, n) ==
    [coins |-> [c EXCEPT !.vout = @ \ {n}], undo |-> IF IsPruned(c) THEN c.nHeight ELSE 0]

(* Spend.  The undo record has a height if this was the last output. *)
Spend(c, n) ==
    [coins |-> [c EXCEPT !.vout = @ \ {n}],
     undo  |-> IF c.vout = {n} THEN c.nHeight ELSE 0]

(* Restoring one input from its undo record, and whether it was clean. *)
Unspend(c, n, undo) ==
    [coins |-> IF undo # 0 THEN [vout |-> {n}, nHeight |-> undo]
                           ELSE [c EXCEPT !.vout = @ \cup {n}],
     clean |-> IF undo # 0 THEN IsPruned(c) ELSE ~IsPruned(c) /\ n \notin c.vout]

(* A view is a function from the transactions it has coins for. *)
Set(view, t, c) == [u \in DOMAIN view \cup {t} |-> IF u = t THEN c ELSE view[u]]

Get(view, t) == IF t \in DOMAIN view THEN view[t] ELSE Empty

IsAvailable(view, out) == out[2] \in Get(view, out[1]).vout

HaveInputs(view, t) == t \notin CoinBase => \A i \in DOMAIN vin[t] : IsAvailable(view, vin[t][i])

-----------------------------------------------------------------------------
(* UpdateCoins spends the inputs of t in order; the coins and the undo data *)
(* after n of them.                                                         *)
SpendInput(acc, out) ==
    LET s == Spend(acc.view[out[1]], out[2])
    IN  [view |-> Set(acc.view, out[1], s.coins), undo |-> Append(acc.undo, s.undo)]

Spending(view, t) ==
    LET spending[n \in 0 .. Len(vin[t])] ==
            IF n = 0 THEN [view |-> view, undo |-> <<>>]
                     ELSE SpendInput(spending[n - 1], vin[t][n])
    IN  spending

(* UpdateCoins: what t at height h does to a view, and its undo data. *)
UpdateCoins(view, t, h) ==
    LET spent == IF t \in CoinBase THEN [view |-> view, undo |-> <<>>]
                                   ELSE Spending(view, t)[Len(vin[t])]
    IN  [spent EXCEPT !.view = Set(@, t, Coins(t, h))]

(* ConnectBlock, after i transactions: whether it accepts, the coins and    *)
(* the undo data.  The first transaction leaves none; a further coinbase an *)
(* empty one.                                                               *)
ConnectTx(acc, vtx, i, h) ==
    IF ~acc.ok \/ ~HaveInputs(acc.view, vtx[i]) THEN [acc EXCEPT !.ok = FALSE]
    ELSE LET u == UpdateCoins(acc.view, vtx[i], h)
         IN  [acc EXCEPT !.view = u.view,
                         !.vtxundo = IF i = 1 THEN @ ELSE Append(@, u.undo)]

Connecting(view, vtx, h) ==
    LET noOverwrite == \A i \in DOMAIN vtx : IsPruned(Get(view, vtx[i]))
        connecting[i \in 0 .. Len(vtx)] ==
            IF i = 0 THEN [ok |-> noOverwrite, view |-> view, vtxundo |-> <<>>]
                     ELSE ConnectTx(connecting[i - 1], vtx, i, h)
    IN  connecting

ConnectBlock(view, vtx, h) == Connecting(view, vtx, h)[Len(vtx)]

(* DisconnectBlock on a view, the last transaction first: its outputs are   *)
(* compared with the block's and removed, its inputs restored, the last     *)
(* first.  The coins, and whether all was clean, down to input j or         *)
(* transaction i.                                                           *)
RestoreInput(acc, out, undo) ==
    LET r == Unspend(Get(acc.view, out[1]), out[2], undo)
    IN  [view |-> Set(acc.view, out[1], r.coins), clean |-> acc.clean /\ r.clean]

Restoring(acc, t, undo) ==
    LET restoring[j \in 1 .. Len(vin[t]) + 1] ==
            IF j = Len(vin[t]) + 1 THEN acc
                                   ELSE RestoreInput(restoring[j + 1], vin[t][j], undo[j])
    IN  restoring

Removed(acc, t, h) ==
    [view  |-> IF t \in DOMAIN acc.view THEN Set(acc.view, t, Empty) ELSE acc.view,
     clean |-> acc.clean /\ Same(Get(acc.view, t), Coins(t, h))]

DisconnectTx(acc, block, i, h) ==
    LET t == block.vtx[i] IN
    IF i = 1 \/ t \in CoinBase THEN Removed(acc, t, h)
    ELSE Restoring(Removed(acc, t, h), t, block.vtxundo[i - 1])[1]

Disconnecting(view, block, h) ==
    LET disconnecting[i \in 1 .. Len(block.vtx) + 1] ==
            IF i = Len(block.vtx) + 1 THEN [view |-> view, clean |-> TRUE]
                                      ELSE DisconnectTx(disconnecting[i + 1], block, i, h)
    IN  disconnecting

DisconnectBlock(view, block, h) == Disconnecting(view, block, h)[1]

-----------------------------------------------------------------------------
(* The coins pcoinsTip shows: its own entries, then the database's. *)
Over(cache, base) ==
    [t \in DOMAIN cache \cup DOMAIN base |-> IF t \in DOMAIN cache THEN cache[t] ELSE base[t]]

pcoinsTip == Over(cacheCoins, coinsdb)

(* The entries of a view that differ from what pcoinsTip shows, flushed     *)
(* into it.                                                                 *)
Merge(view) ==
    LET changed == {t \in DOMAIN view : t \notin DOMAIN pcoinsTip \/ view[t] # pcoinsTip[t]}
    IN  [t \in DOMAIN cacheCoins \cup changed |-> view[t]]

(* Fully spent entries are not erased from the database. *)
SlipWritten(cache) == Over([t \in {u \in DOMAIN cache : ~IsPruned(cache[u])} |-> cache[t]], coinsdb)

(* BatchWrite on the database: pruned entries are erased. *)
Written(cache) ==
    LET all == Over(cache, coinsdb)
    IN  [t \in {u \in DOMAIN all : ~IsPruned(all[u])} |-> all[t]]

NoCoins == [t \in {} |-> Empty]

(* What pcoinsTip shows once it has taken up a view. *)
Showing(view, fFlush) == IF fFlush THEN Written(Merge(view)) ELSE Over(Merge(view), coinsdb)

(* pcoinsTip takes up a view; WriteChainState then flushes it, or does not  *)
(* (in the initial download, with room in the cache).                       *)
Apply(view, fFlush) ==
    IF fFlush
    THEN coinsdb' = Written(Merge(view)) /\ cacheCoins' = NoCoins /\ flushed' = chain'
    ELSE cacheCoins' = Merge(view) /\ UNCHANGED <<coinsdb, flushed>>

-----------------------------------------------------------------------------
LedgerInit == chain = <<>> /\ cacheCoins = NoCoins /\ coinsdb = NoCoins /\ flushed = <<>>

Height == Len(chain)

Connected(vtx) == ConnectBlock(pcoinsTip, vtx, Height + 1)

Disconnected == DisconnectBlock(pcoinsTip, chain[Height], Height)

(* ConnectTip and DisconnectTip, up to WriteChainState. *)
ConnectCoins(vtx, fFlush) ==
    /\ Height < MaxHeight
    /\ Connected(vtx).ok
    /\ chain' = Append(chain, [vtx |-> vtx, vtxundo |-> Connected(vtx).vtxundo])
    /\ Apply(Connected(vtx).view, fFlush)

DisconnectCoins(fFlush) ==
    /\ chain # <<>>
    /\ Disconnected.clean
    /\ chain' = SubSeq(chain, 1, Height - 1)
    /\ Apply(Disconnected.view, fFlush)

(* The process is killed and started again: the cache is lost, and the      *)
(* chain is the one the database names.                                     *)
RestartCoins ==
    /\ chain' = flushed
    /\ cacheCoins' = NoCoins
    /\ UNCHANGED <<coinsdb, flushed>>

(* Shutdown flushes first. *)
StopCoins ==
    /\ coinsdb' = Written(cacheCoins)
    /\ cacheCoins' = NoCoins
    /\ flushed' = chain
    /\ UNCHANGED chain

LedgerNext ==
    \/ \E fFlush \in BOOLEAN :
        DisconnectCoins(fFlush) \/ \E vtx \in Blocks : ConnectCoins(vtx, fFlush)
    \/ RestartCoins \/ StopCoins

LedgerSpec == LedgerInit /\ [][LedgerNext]_ledger

-----------------------------------------------------------------------------
(* The type invariant of the coins and their chain. *)
LedgerTypeOK ==
    /\ \A i \in DOMAIN chain : chain[i].vtx \in Blocks
    /\ Height <= MaxHeight
    /\ \A view \in {cacheCoins, coinsdb} :
        /\ DOMAIN view \subseteq Tx
        /\ \A t \in DOMAIN view :
            /\ view[t].vout \subseteq Spendable[t] /\ view[t].nHeight \in Nat
            /\ ~IsPruned(view[t]) => view[t].nHeight \in 1 .. MaxHeight

(* What a chain leaves unspent, from its transactions alone: in the order   *)
(* of the chain, the outputs of the last occurrence of t that no later      *)
(* transaction spends.                                                      *)
Places(c) == UNION {{h} \X DOMAIN c[h].vtx : h \in DOMAIN c}
TxAt(c, p) == c[p[1]].vtx[p[2]]
Before(p, q) == p[1] < q[1] \/ (p[1] = q[1] /\ p[2] < q[2])

LastPlaces(c, t) ==
    {p \in Places(c) : TxAt(c, p) = t /\ \A q \in Places(c) : TxAt(c, q) = t => ~Before(p, q)}

Spends(t, out) == t \notin CoinBase /\ out \in ToSet(vin[t])

Unspent(c, t) ==
    {n \in Spendable[t] : \E p \in LastPlaces(c, t) : \A q \in Places(c) :
                             Before(p, q) => ~Spends(TxAt(c, q), <<t, n>>)}

IsLeft(coins, c, t) ==
    /\ coins.vout = Unspent(c, t)
    /\ ~IsPruned(coins) => \E p \in LastPlaces(c, t) : coins.nHeight = p[1]

Shows(view, c) == \A t \in Tx : IsLeft(Get(view, t), c, t)

CacheIsTheChains == Shows(pcoinsTip, chain)

DatabaseIsAChains ==
    Shows(coinsdb, flushed) /\ \A t \in DOMAIN coinsdb : ~IsPruned(coinsdb[t])

(* The coins are a function of the active chain: however it was reached,    *)
(* with whatever blocks connected and disconnected on the way, pcoinsTip    *)
(* shows what the chain leaves unspent.  The same holds of the database and *)
(* the chain it names, at every moment: a killed process finds consistent   *)
(* coins, and no fully spent entries, which CCoins::Serialize could not     *)
(* write.                                                                   *)
CoinsAreTheChains == LedgerTypeOK /\ CacheIsTheChains /\ DatabaseIsAChains

(* DisconnectBlock never meets undo data that does not fit ("database       *)
(* corrupted"), and leaves exactly the coins from before the block.         *)
DisconnectIsClean ==
    chain # <<>> =>
        /\ Disconnected.clean
        /\ Shows(Disconnected.view, SubSeq(chain, 1, Height - 1))
=============================================================================
