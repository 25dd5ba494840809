----------------------------- MODULE TxMemPool -----------------------------
(***************************************************************************)
(* The memory pool: CTxMemPool (src/txmempool.h, src/txmempool.cpp),       *)
(* AcceptToMemoryPool, and what ConnectTip and DisconnectTip do to the     *)
(* pool (src/main.cpp), over the coins of Ledger.                          *)
(*                                                                         *)
(* This node accepts coinbases as loose transactions: always those that    *)
(* pay the server's address, and any in the first nine days of January and *)
(* June, when all other transactions but those to the server are refused.  *)
(* They all spend the null outpoint.  Since a coinbase's fee is negative,  *)
(* it is refused when relayed (fLimitFree); it comes from this node's own  *)
(* RPC interface or wallet.                                                *)
(*                                                                         *)
(* Abstracted: fees, priorities and scripts (every transaction of Tx would *)
(* pass); AcceptToMemoryPool runs under cs_main, as do the callers of      *)
(* ConnectTip, so each is one step; a failed WriteChainState, after which  *)
(* the node shuts down, is ChainState's.                                   *)
(***************************************************************************)
EXTENDS Ledger

CONSTANTS
    Null,         \* the null outpoint
    ToServer,     \* transactions whose first output pays the server's address
    Message,      \* transactions with a single output of value zero
    Nonstandard,  \* transactions IsStandardTx or AreInputsStandard refuses
    Seasons       \* the values bShareMoney takes

ASSUME PoolAssumption ==
    /\ Null \notin Tx \X Nat
    /\ ToServer \cup Message \cup Nonstandard \subseteq Tx
    /\ Seasons \subseteq BOOLEAN /\ Seasons # {}

VARIABLES
    pool,         \* mapTx and mapNextTx
    bShareMoney   \* whether the calendar is in one of the two periods

vars == <<ledger, pool, bShareMoney>>

prevouts(t) == IF t \in CoinBase THEN {Null} ELSE ToSet(vin[t])

EmptyPool == [mapTx |-> {}, mapNextTx |-> [out \in {} |-> Null]]

-----------------------------------------------------------------------------
(* The variants named "Slip..." are not part of the model: each is a mistake *)
(* that could be made in the definition it precedes, and that one of the    *)
(* properties below tells from the real code.                               *)

addUnchecked(p, t) ==
    [mapTx     |-> p.mapTx \cup {t},
     mapNextTx |-> [out \in DOMAIN p.mapNextTx \cup prevouts(t) |->
                        IF out \in prevouts(t) THEN t ELSE p.mapNextTx[out]]]

(* remove, of a set of transactions; those not in the pool are ignored. *)
remove(p, S) ==
    LET gone == S \cap p.mapTx
        kept == DOMAIN p.mapNextTx \ UNION {prevouts(t) : t \in gone}
    IN  [mapTx |-> p.mapTx \ gone, mapNextTx |-> [out \in kept |-> p.mapNextTx[out]]]

Spenders(p, t) ==
    {p.mapNextTx[out] : out \in {o \in DOMAIN p.mapNextTx \ {Null} : o[1] = t}}

(* fRecursive is forgotten. *)
SlipWithDescendants(p, S) == S

(* What remove with fRecursive reaches from S: the smallest set that holds  *)
(* S and the spender of each output of a member.                            *)
WithDescendants(p, S) ==
    {d \in p.mapTx \cup S :
        \A C \in SUBSET (p.mapTx \cup S) :
            S \subseteq C /\ (\A c \in C : Spenders(p, c) \subseteq C) => d \in C}

removeConflicts(p, t) ==
    LET conflicts == {p.mapNextTx[out] : out \in prevouts(t) \cap DOMAIN p.mapNextTx} \ {t}
    IN  remove(p, WithDescendants(p, conflicts))

(* CCoinsViewMemPool over the coins; MEMPOOL_HEIGHT is no block's. *)
PoolCoins(p) == [t \in p.mapTx |-> Coins(t, MaxHeight + 1)]

-----------------------------------------------------------------------------
(* AcceptToMemoryPool: what is refused whatever the coins and the pool are. *)
Admissible(t) ==
    /\ \/ t \in Message
       \/ bShareMoney /\ t \in CoinBase \cup ToServer
       \/ ~bShareMoney /\ (t \in CoinBase => t \in ToServer)
    /\ t \notin Nonstandard

(* CheckInputs: a coinbase needs no depth in the chain (COINBASE_MATURITY is *)
(* 0), but MEMPOOL_HEIGHT lies above every block.                           *)
SpendsMature(view, t) ==
    t \notin CoinBase => \A out \in prevouts(t) : out[1] \in CoinBase => out[1] \in DOMAIN view

Acceptable(p, view, t) ==
    /\ Admissible(t)
    /\ t \notin p.mapTx
    /\ t \notin CoinBase => prevouts(t) \cap DOMAIN p.mapNextTx = {}
    /\ t \notin DOMAIN view                 \* "do we already have it?"
    /\ HaveInputs(Over(view, PoolCoins(p)), t)
    /\ SpendsMature(view, t)

AcceptToMemoryPool(t) ==
    /\ Acceptable(pool, pcoinsTip, t)
    /\ pool' = addUnchecked(pool, t)
    /\ UNCHANGED <<ledger, bShareMoney>>

(* Only the conflicts are removed; the transactions are removed with what   *)
(* depends on them.                                                         *)
SlipOnlyConflicts(vtx) == FoldLeft(removeConflicts, pool, vtx)
SlipRecursive(vtx) ==
    LET Drop(p, t) == removeConflicts(remove(p, WithDescendants(p, {t})), t)
    IN  FoldLeft(Drop, pool, vtx)

(* ConnectTip, after WriteChainState: the pool after n of the block's       *)
(* transactions.                                                            *)
Confirm(p, t) == removeConflicts(remove(p, {t}), t)

Confirming(vtx) ==
    LET confirming[n \in 0 .. Len(vtx)] ==
            IF n = 0 THEN pool ELSE Confirm(confirming[n - 1], vtx[n])
    IN  confirming

PoolConnected(vtx) == Confirming(vtx)[Len(vtx)]

(* DisconnectTip, after WriteChainState has left pcoinsTip showing view: in *)
(* the order of the block, a transaction is accepted again, or removed with *)
(* what depends on it.                                                      *)
Resurrect(p, view, t) ==
    IF t \in CoinBase THEN p
    ELSE IF Acceptable(p, view, t) THEN addUnchecked(p, t)
    ELSE remove(p, WithDescendants(p, {t}))

(* The transactions are resurrected last to first. *)
SlipBackwards(view, vtx) == FoldRight(LAMBDA t, p : Resurrect(p, view, t), vtx, pool)

Resurrecting(view, vtx) ==
    LET resurrecting[n \in 0 .. Len(vtx)] ==
            IF n = 0 THEN pool ELSE Resurrect(resurrecting[n - 1], view, vtx[n])
    IN  resurrecting

PoolDisconnected(view, vtx) == Resurrecting(view, vtx)[Len(vtx)]

ConnectTip(vtx, fFlush) ==
    /\ ConnectCoins(vtx, fFlush)
    /\ pool' = PoolConnected(vtx)
    /\ UNCHANGED bShareMoney

DisconnectTip(fFlush) ==
    /\ DisconnectCoins(fFlush)
    /\ pool' = PoolDisconnected(Showing(Disconnected.view, fFlush), chain[Height].vtx)
    /\ UNCHANGED bShareMoney

(* The pool is not kept on disk. *)
Restart ==
    /\ RestartCoins \/ StopCoins
    /\ pool' = EmptyPool
    /\ UNCHANGED bShareMoney

Calendar ==
    /\ bShareMoney' \in Seasons \ {bShareMoney}
    /\ UNCHANGED <<ledger, pool>>

Init == LedgerInit /\ pool = EmptyPool /\ bShareMoney \in Seasons

Next ==
    \/ \E t \in Tx : AcceptToMemoryPool(t)
    \/ \E fFlush \in BOOLEAN :
        DisconnectTip(fFlush) \/ \E vtx \in Blocks : ConnectTip(vtx, fFlush)
    \/ Restart \/ Calendar

Spec == Init /\ [][Next]_vars

-----------------------------------------------------------------------------
(* The type invariant of the memory pool. *)
PoolTypeOK ==
    /\ pool.mapTx \subseteq Tx
    /\ DOMAIN pool.mapNextTx \subseteq UNION {prevouts(t) : t \in Tx}
    /\ \A out \in DOMAIN pool.mapNextTx : pool.mapNextTx[out] \in pool.mapTx
    /\ bShareMoney \in Seasons

(* Two transactions of the pool never spend the same output, and mapNextTx  *)
(* knows the one that spends it: what AcceptToMemoryPool and                *)
(* removeConflicts look conflicts up in is exact, the null outpoint apart.  *)
SpendsAreExact ==
    \A t \in pool.mapTx \ CoinBase : \A out \in prevouts(t) :
        out \in DOMAIN pool.mapNextTx /\ pool.mapNextTx[out] = t

(* Every input of a transaction in the pool is an unspent output of the     *)
(* chain or of another transaction in the pool, across reorganisations,     *)
(* unless it is the output of a coinbase that has left the chain.  It holds *)
(* as long as no coinbase is at two places of the chain.                    *)
InputsExist ==
    \A t \in pool.mapTx \ CoinBase : \A out \in prevouts(t) :
        \/ IsAvailable(pcoinsTip, out)
        \/ out[1] \in pool.mapTx /\ out[2] \in Spendable[out[1]]
        \/ out[1] \in CoinBase /\ \A h \in DOMAIN chain : out[1] \notin ToSet(chain[h].vtx)

(* What CTxMemPool::check asserts, in both directions: the pool is free of   *)
(* conflicts, its index is exact and its transactions have their inputs,     *)
(* over any mixture of arrivals, blocks and reorganisations; what was set    *)
(* apart above is what makes check fail.                                     *)
PoolIsConsistent == PoolTypeOK /\ SpendsAreExact /\ InputsExist

(* "This logic is not necessary for memory pool transactions, as            *)
(* AcceptToMemoryPool already refuses previously-known transaction ids      *)
(* entirely": no transaction of the pool has unspent outputs in the chain,  *)
(* so a block made from the pool passes the BIP30 rule.  It holds as long   *)
(* as no coinbase is seen again after all its outputs are spent.            *)
NoneIsConfirmed == \A t \in pool.mapTx : IsPruned(Get(pcoinsTip, t))

(* What a step lost: it was in the set before, is not in the pool after,    *)
(* and could still be mined there.                                          *)
Lost(before, after, view) ==
    {t \in before \ after.mapTx : HaveInputs(Over(view, PoolCoins(after)), t)}

(* What connecting a block with these transactions would lose from the pool. *)
LostTo(vtx) ==
    LET view == Connected(vtx).view
        live == [t \in {u \in DOMAIN view : ~IsPruned(view[u])} |-> view[t]]
    IN  Lost(pool.mapTx \ ToSet(vtx), PoolConnected(vtx), live)

(* "Remove conflicting transactions from the mempool": connecting a block   *)
(* drops from the pool what is in the block, what the block makes invalid,  *)
(* and nothing else, loose coinbases and what descends from them apart.     *)
OnlyConflictsAreRemoved ==
    \A vtx \in Blocks :
        Connected(vtx).ok => LostTo(vtx) \subseteq WithDescendants(pool, pool.mapTx \cap CoinBase)

(* "Resurrect mempool transactions from the disconnected block": after the  *)
(* block is disconnected the pool has all of its transactions that can      *)
(* still be mined, and has lost none of its own.                            *)
Resurrects(fFlush) ==
    chain # <<>> =>
        LET vtx == chain[Height].vtx
            view == Disconnected.view
            live == [t \in {u \in DOMAIN view : ~IsPruned(view[u])} |-> view[t]]
            after == PoolDisconnected(Showing(view, fFlush), vtx)
            returning == {t \in ToSet(vtx) \ CoinBase : Admissible(t)}
        IN  Lost(pool.mapTx \cup returning, after, live) = {}

(* It does if WriteChainState has flushed the coins... *)
FlushedBlocksAreResurrected == Resurrects(TRUE)

-----------------------------------------------------------------------------
(* Claims of the source that do not hold. *)

(* ...and does not while the coin cache still has the block's transactions, *)
(* as spent: they are taken for known.                                      *)
BlocksAreResurrected == \A fFlush \in BOOLEAN : Resurrects(fFlush)

(* "All transactions in the memory pool should connect to either            *)
(* transactions in the chain or other transactions in the memory pool".     *)
PoolConnects ==
    \A t \in pool.mapTx \ CoinBase : \A out \in prevouts(t) :
        out[1] \in DOMAIN pcoinsTip \/ out[1] \in pool.mapTx

(* Loose coinbases are not apart: each block's own coinbase is a conflict.  *)
BlocksSparePending == \A vtx \in Blocks : Connected(vtx).ok => LostTo(vtx) = {}
=============================================================================
