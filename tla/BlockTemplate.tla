--------------------------- MODULE BlockTemplate ---------------------------
(***************************************************************************)
(* What CreateNewBlock (src/miner.cpp) can make of the memory pool: which  *)
(* transactions wait for others of the pool, which are in the priority     *)
(* queue, and which blocks may come out.  It holds cs_main and the pool's  *)
(* lock throughout, so a template is a function of the state.              *)
(*                                                                         *)
(* Abstracted: priorities, fees and limits, which may let any transaction  *)
(* of the queue come next and any be left out.                             *)
(***************************************************************************)
EXTENDS TxMemPool

(* The coins of a transaction are looked for; fully spent ones that pcoinsTip  *)
(* still has are found too.                                                    *)
HaveCoins(out) == out[1] \in DOMAIN pcoinsTip

(* fMissingInputs *)
Missing(t) == \E out \in prevouts(t) \ {Null} : ~HaveCoins(out) /\ out[1] \notin pool.mapTx

(* what is not in the chain is not waited for *)
SlipsetDependsOn(t) == {}

setDependsOn(t) == {out[1] : out \in {o \in prevouts(t) \ {Null} : ~HaveCoins(o)}}

(* vecPriority has t once those of S are in the block. *)
Queued(t, S) == t \in pool.mapTx \ S /\ ~Missing(t) /\ setDependsOn(t) \subseteq S

(* the view after n of the transactions of s were added *)
Views(s) ==
    LET views[n \in 0 .. Len(s)] ==
            IF n = 0 THEN pcoinsTip ELSE UpdateCoins(views[n - 1], s[n], Height + 1).view
    IN  views

ViewAfter(s) == Views(s)[Len(s)]

(* The next of the queue is added. *)
Taken(s, t) == Queued(t, ToSet(s)) /\ HaveInputs(ViewAfter(s), t)

(* The transactions of the blocks it may build, without the coinbase: those  *)
(* with up to n of the pool.                                                 *)
Longer(T) == T \cup UNION {{Append(s, t) : t \in {u \in pool.mapTx : Taken(s, u)}} : s \in T}

Building ==
    LET building[n \in 0 .. Cardinality(pool.mapTx)] ==
            IF n = 0 THEN {<<>>} ELSE Longer(building[n - 1])
    IN  building

Templates == Building[Cardinality(pool.mapTx)]

-----------------------------------------------------------------------------
SpendsLost(t) ==
    \E out \in prevouts(t) \ {Null} :
        out[1] \in CoinBase \ pool.mapTx /\ \A h \in DOMAIN chain : out[1] \notin ToSet(chain[h].vtx)

(* Whatever was taken so far, the transactions in the queue are those of the   *)
(* pool whose inputs are there: none waits for ever, and none is taken out and *)
(* thrown away before its parent is in.  Those that spend a coinbase which has *)
(* left the chain are apart: they have no inputs, and may be in the queue.     *)
QueueIsExact ==
    \A s \in Templates : \A t \in pool.mapTx \ ToSet(s) :
        /\ HaveInputs(ViewAfter(s), t) => Queued(t, ToSet(s))
        /\ Queued(t, ToSet(s)) /\ ~SpendsLost(t) => HaveInputs(ViewAfter(s), t)

(* Whatever has been taken when the queue is empty connects to the tip, after  *)
(* a coinbase that is not in the chain.                                        *)
FinishedConnect ==
    \A s \in Templates :
        (\A t \in pool.mapTx : ~Taken(s, t)) =>
            \A c \in CoinBase \ pool.mapTx :
                IsPruned(Get(pcoinsTip, c)) => ConnectBlock(pcoinsTip, <<c>> \o s, Height + 1).ok

(* The exception that CreateNewBlock throws if ConnectBlock refuses its block  *)
(* is never thrown, and no transaction that could be mined is kept from the    *)
(* queue by what it waits for.                                                 *)
TemplatesConnect == QueueIsExact /\ FinishedConnect
=============================================================================
