------------------------------ MODULE WalletTx ------------------------------
(***************************************************************************)
(* The wallet's transactions: mapWallet, mapTxSpends, the signals that     *)
(* tell the wallet of the pool and the chain, depths, cached credits, and  *)
(* what the wallet offers for spending (src/wallet.cpp, src/wallet.h,      *)
(* CMerkleTx in src/main.cpp), over TxMemPool.                             *)
(*                                                                         *)
(* All of it happens under cs_main and cs_wallet, so each call is one      *)
(* step; but CreateTransaction and CommitTransaction are two, between      *)
(* which the sending dialog gives up both locks.  The chain, the coins and *)
(* the pool are TxMemPool's, for a node that has caught up: WriteChainState *)
(* flushes each time.                                                      *)
(*                                                                         *)
(* Abstracted: amounts (a credit is the set of outputs it sums), labels,   *)
(* accounts, times and their order, locked coins, the choice among the     *)
(* coins offered; keys, which are KeyPool's.  Every    *)
(* write to the wallet file succeeds, so the file is mapWallet without its *)
(* caches.                                                                 *)
(***************************************************************************)
EXTENDS TxMemPool

CONSTANTS
    Mine,       \* the outputs IsMine() is true of
    Own,        \* transactions the wallet may be asked to create
    HashOrder,  \* the transactions in the order of their hashes
    None        \* no block, and no credit in a cache

(* IsMine() is false of the scripts that cannot be spent. *)
ASSUME WalletAssumption ==
    /\ Mine \subseteq Tx \X Nat
    /\ \A out \in Mine : out[2] \in Spendable[out[1]]
    /\ Own \subseteq Tx
    /\ HashOrder \in Seq(Tx) /\ ToSet(HashOrder) = Tx /\ IsInjective(HashOrder)
    /\ None \notin Seq(Blocks)

VARIABLES
    mapWallet,  \* transactions to CWalletTx: hashBlock and nAvailableCreditCached
    prepared,   \* transactions created and not yet committed, each in its dialog
    fReaccept   \* whether ReacceptWalletTransactions is still to be called

walletVars == <<vars, mapWallet, prepared, fReaccept>>

-----------------------------------------------------------------------------
(* A block is named by the blocks up to it. *)
BlockOf(c) == [h \in DOMAIN c |-> c[h].vtx]

(* GetDepthInMainChain, of a transaction with this hashBlock. *)
GetDepthInMainChain(t, hashBlock) ==
    IF hashBlock # None /\ IsPrefix(hashBlock, BlockOf(chain)) THEN Height - Len(hashBlock) + 1
    ELSE IF t \in pool.mapTx THEN 0 ELSE -1

Depth(t) == GetDepthInMainChain(t, mapWallet[t].hashBlock)

(* COINBASE_MATURITY is 0: a coinbase is mature in the block that has it. *)
IsMature(t) == t \in CoinBase => Depth(t) >= 1

(* mapTxSpends has an entry for each input of a wallet transaction. *)
IsSpent(out) == \E t \in DOMAIN mapWallet \ CoinBase : out \in prevouts(t) /\ Depth(t) >= 0

(* GetDebit() > 0 *)
IsFromMe(w, t) == \E out \in prevouts(t) \cap Mine : out[1] \in DOMAIN w

InvolvesMe(w, t) == t \in DOMAIN w \/ IsFromMe(w, t) \/ \E out \in Mine : out[1] = t

(* The variants named "Slip..." are not part of the model: each is a mistake   *)
(* that could be made in the definition it precedes, and that one of the       *)
(* properties below tells from the real code.                                  *)

(* what the transaction spends is not marked *)
SlipAddToWallet(w, t, hashBlock) ==
    [u \in DOMAIN w \cup {t} |->
        IF u = t THEN [hashBlock |-> IF hashBlock = None /\ t \in DOMAIN w THEN w[t].hashBlock ELSE hashBlock,
                       credit    |-> None]
        ELSE w[u]]

(* the first block a transaction was seen in stays *)
SlipFirstBlock(w, t, hashBlock) ==
    [u \in DOMAIN w \cup {t} |->
        IF u = t THEN [hashBlock |-> IF t \in DOMAIN w /\ w[t].hashBlock # None THEN w[t].hashBlock ELSE hashBlock,
                       credit    |-> None]
        ELSE IF \E out \in prevouts(t) \ {Null} : out[1] = u THEN [w[u] EXCEPT !.credit = None]
        ELSE w[u]]

(* AddToWallet, and MarkDirty on the transactions whose outputs it spends, as  *)
(* SyncTransaction and CommitTransaction both do.  A hashBlock that is set is  *)
(* only ever replaced by another block's.                                      *)
AddToWallet(w, t, hashBlock) ==
    [u \in DOMAIN w \cup {t} |->
        IF u = t THEN [hashBlock |-> IF hashBlock = None /\ t \in DOMAIN w THEN w[t].hashBlock ELSE hashBlock,
                       credit    |-> None]
        ELSE IF \E out \in prevouts(t) \ {Null} : out[1] = u THEN [w[u] EXCEPT !.credit = None]
        ELSE w[u]]

SyncTransaction(w, t, hashBlock) == IF InvolvesMe(w, t) THEN AddToWallet(w, t, hashBlock) ELSE w

(* the wallet after n of these signals *)
Syncing(w, txs, hashBlock) ==
    LET syncing[n \in 0 .. Len(txs)] ==
            IF n = 0 THEN w ELSE SyncTransaction(syncing[n - 1], txs[n], hashBlock)
    IN  syncing

SyncAll(w, txs, hashBlock) == Syncing(w, txs, hashBlock)[Len(txs)]

-----------------------------------------------------------------------------
(* the conflicts are not signalled *)
SlipConflictsUntold(vtx) == SyncAll(mapWallet, vtx, BlockOf(chain'))

(* What the signals of ConnectTip come to: ConnectBlock's, the conflicts', *)
(* and again those of the block's transactions.                            *)
ConnectSignals(vtx) ==
    LET block == BlockOf(chain')
        txConflicted == (pool.mapTx \ pool'.mapTx) \ ToSet(vtx)
    IN  SyncAll(SyncAll(mapWallet, vtx, block), SetToSeq(txConflicted), None)

(* ScanForWalletTransactions, from the block above height h: after n blocks. *)
Rescanning(w, c, h) ==
    LET rescanning[n \in 0 .. Len(c) - h] ==
            IF n = 0 THEN w
                     ELSE SyncAll(rescanning[n - 1], c[h + n].vtx, BlockOf(SubSeq(c, 1, h + n)))
    IN  rescanning

Rescanned(w, c, h) == Rescanning(w, c, h)[Len(c) - h]

(* LoadWallet: the caches are not on file. *)
Loaded(w) == [t \in DOMAIN w |-> [w[t] EXCEPT !.credit = None]]

Accept(t) ==
    /\ AcceptToMemoryPool(t)
    /\ mapWallet' = SyncTransaction(mapWallet, t, None)
    /\ UNCHANGED <<prepared, fReaccept>>

Connect(vtx) ==
    /\ ConnectTip(vtx, TRUE)
    /\ mapWallet' = ConnectSignals(vtx)
    /\ UNCHANGED <<prepared, fReaccept>>

(* The transactions that the block's leave behind in the pool, and that remove *)
(* takes out with those that are refused, are not told of.                     *)
Disconnect ==
    /\ DisconnectTip(TRUE)
    /\ mapWallet' = SyncAll(mapWallet, chain[Height].vtx, None)
    /\ UNCHANGED <<prepared, fReaccept>>

(* AppInit2, up to StartNode.  The rescan begins at the fork with the wallet's *)
(* best block, which may be as old as the last SetBestChain, or at genesis.    *)
Start(w) ==
    /\ Restart
    /\ \E h \in 0 .. Len(chain') : mapWallet' = Rescanned(Loaded(w), chain', h)
    /\ prepared' = {}
    /\ fReaccept' = TRUE

Killed == Start(mapWallet)

(* Killed in ConnectTip: the wallet was told, and the coins were not flushed. *)
KilledConnecting(vtx) ==
    /\ Height < MaxHeight /\ Connected(vtx).ok
    /\ Start(SyncAll(mapWallet, vtx, Append(BlockOf(chain), vtx)))

ChangeSeason == Calendar /\ UNCHANGED <<mapWallet, prepared, fReaccept>>

-----------------------------------------------------------------------------
(* conflicted transactions are not told apart *)
SlipIsTrusted(t) ==
    Depth(t) >= 1 \/ (t \notin CoinBase /\ prevouts(t) \subseteq {out \in Mine : out[1] \in DOMAIN mapWallet})

(* IsTrusted, with bSpendZeroConfChange. *)
IsTrusted(t) ==
    \/ Depth(t) >= 1
    \/ Depth(t) = 0 /\ t \notin CoinBase /\ prevouts(t) \subseteq {out \in Mine : out[1] \in DOMAIN mapWallet}

(* GetAvailableCredit, computed. *)
AvailableCredit(t) == {out \in Mine : out[1] = t /\ ~IsSpent(out)}

(* GetBalance, or GetUnconfirmedBalance. *)
GetBalance(fTrusted) ==
    LET counted == {t \in DOMAIN mapWallet : IsMature(t) /\ IF fTrusted THEN IsTrusted(t)
                                                            ELSE ~IsTrusted(t) /\ Depth(t) = 0}
    IN  /\ mapWallet' = [t \in DOMAIN mapWallet |->
               IF t \in counted /\ mapWallet[t].credit = None
               THEN [mapWallet[t] EXCEPT !.credit = AvailableCredit(t)] ELSE mapWallet[t]]
        /\ UNCHANGED <<vars, prepared, fReaccept>>

(* AvailableCoins with fOnlyConfirmed. *)
AvailableCoins ==
    UNION {AvailableCredit(t) : t \in {u \in DOMAIN mapWallet : IsTrusted(u) /\ IsMature(u)}}

CreateTransaction(t) ==
    /\ t \notin DOMAIN mapWallet
    /\ prevouts(t) \subseteq AvailableCoins
    /\ prepared' = prepared \cup {t}
    /\ UNCHANGED <<vars, mapWallet, fReaccept>>

(* It is recorded, then offered to the pool, which may refuse it. *)
CommitTransaction(t) ==
    /\ t \in prepared
    /\ prepared' = prepared \ {t}
    /\ mapWallet' = AddToWallet(mapWallet, t, None)
    /\ pool' = IF Acceptable(pool, pcoinsTip, t) THEN addUnchecked(pool, t) ELSE pool
    /\ UNCHANGED <<ledger, bShareMoney, fReaccept>>

(* Each transaction that has left chain and pool, in the order of the map. *)
Reaccept(acc, t) ==
    IF t \in DOMAIN mapWallet \ CoinBase /\ Depth(t) < 0 /\ Acceptable(acc.pool, pcoinsTip, t)
    THEN [pool |-> addUnchecked(acc.pool, t), wallet |-> SyncTransaction(acc.wallet, t, None)]
    ELSE acc

Reaccepting ==
    LET reaccepting[n \in 0 .. Len(HashOrder)] ==
            IF n = 0 THEN [pool |-> pool, wallet |-> mapWallet]
                     ELSE Reaccept(reaccepting[n - 1], HashOrder[n])
    IN  reaccepting

ReacceptWalletTransactions ==
    /\ fReaccept
    /\ fReaccept' = FALSE
    /\ pool' = Reaccepting[Len(HashOrder)].pool
    /\ mapWallet' = Reaccepting[Len(HashOrder)].wallet
    /\ UNCHANGED <<ledger, bShareMoney, prepared>>

-----------------------------------------------------------------------------
WalletInit ==
    /\ Init
    /\ mapWallet = [t \in {} |-> None]
    /\ prepared = {}
    /\ fReaccept = FALSE

WalletNext ==
    \/ \E t \in Tx : Accept(t)
    \/ \E vtx \in Blocks : Connect(vtx) \/ KilledConnecting(vtx)
    \/ Disconnect \/ Killed \/ ChangeSeason
    \/ \E fTrusted \in BOOLEAN : GetBalance(fTrusted)
    \/ \E t \in Own : CreateTransaction(t) \/ CommitTransaction(t)
    \/ ReacceptWalletTransactions

WalletSpec == WalletInit /\ [][WalletNext]_walletVars

-----------------------------------------------------------------------------
Confirmed == UNION {ToSet(chain[h].vtx) : h \in DOMAIN chain}

(* The type invariant of the wallet's transactions. *)
WalletTypeOK ==
    /\ DOMAIN mapWallet \subseteq Tx
    /\ \A t \in DOMAIN mapWallet :
        /\ mapWallet[t].hashBlock = None \/ t \in ToSet(Last(mapWallet[t].hashBlock))
        /\ mapWallet[t].credit = None \/ mapWallet[t].credit \subseteq Mine
    /\ prepared \subseteq Own /\ fReaccept \in BOOLEAN

(* The wallet learns of every transaction of the chain and of the pool that    *)
(* pays it or spends what is its own, in whatever order they come and however  *)
(* often the process was killed between the signals and the flush.             *)
OwnAreKnown ==
    \A t \in Confirmed \cup pool.mapTx : InvolvesMe(mapWallet, t) => t \in DOMAIN mapWallet

(* "Let wallets know transactions went from 1-confirmed to 0-confirmed or      *)
(* conflicted": the depth of a wallet transaction is the depth of the block of *)
(* the active chain that has it, whichever blocks had it before.               *)
DepthsAreExact ==
    \A t \in DOMAIN mapWallet :
        IF t \in Confirmed
        THEN \E h \in DOMAIN chain : t \in ToSet(chain[h].vtx) /\ Depth(t) = Height - h + 1
        ELSE Depth(t) <= 0

(* The wallet's view of its own transactions is the chain's and the pool's.    *)
WalletIsExact == WalletTypeOK /\ OwnAreKnown /\ DepthsAreExact

(* A balance that is read from the caches never counts an output that is spent *)
(* in the chain or in the pool.                                                *)
Counted(t) == IF mapWallet[t].credit = None THEN AvailableCredit(t) ELSE mapWallet[t].credit

SpentOutputs == UNION {prevouts(t) : t \in (Confirmed \cup pool.mapTx) \ CoinBase}

BalanceIsUnspent ==
    \A t \in DOMAIN mapWallet : Counted(t) \cap SpentOutputs = {}

(* "If a transaction changes 'conflicted' state, that changes the balance      *)
(* available of the outputs it spends.  So force those to be recomputed": no   *)
(* step makes a cached credit wrong, but DisconnectTip when it drops pool      *)
(* transactions that are not the block's.                                      *)
CreditsAreExact ==
    \A t \in DOMAIN mapWallet : mapWallet[t].credit \in {None, AvailableCredit(t)}

DropsUntold == Disconnect /\ ~(pool.mapTx \subseteq pool'.mapTx)

CreditsStayExact == [][CreditsAreExact => CreditsAreExact' \/ DropsUntold]_walletVars

(* What the wallet offers can be spent: a transaction made of it, of those the *)
(* season admits, is accepted.                                                 *)
OffersAreAcceptable ==
    \A t \in Own \ DOMAIN mapWallet :
        prevouts(t) \subseteq AvailableCoins /\ Admissible(t) => Acceptable(pool, pcoinsTip, t)

-----------------------------------------------------------------------------
(* Claims of the source that do not hold. *)

(* "This must not fail.  The transaction has already been signed and           *)
(* recorded": but in the two periods of the year it does.                      *)
CommitsSucceed ==
    \A t \in Own \ DOMAIN mapWallet :
        prevouts(t) \subseteq AvailableCoins => Acceptable(pool, pcoinsTip, t)

(* "Add wallet transactions that aren't already in a block to mapTransactions": *)
(* a child whose hash comes before its parent's is left out.                    *)
ReacceptsAll ==
    [][ReacceptWalletTransactions =>
        \A t \in DOMAIN mapWallet \ CoinBase :
            Depth(t) < 0 => ~Acceptable(pool', pcoinsTip, t)]_walletVars
=============================================================================
