----------------------------- MODULE ChainState -----------------------------
(***************************************************************************)
(* How the node chooses, connects and persists its block chain:            *)
(* AcceptBlock and AddToBlockIndex, ActivateBestChain with                 *)
(* FindMostWorkChain, ConnectTip, DisconnectTip and WriteChainState, start *)
(* and shutdown (src/main.cpp, src/init.cpp).                              *)
(*                                                                         *)
(* Everything runs under cs_main, so the steps never interleave with each  *)
(* other; they interleave with failures.  The process may be killed        *)
(* between any two steps: what it wrote to its databases stays, what it    *)
(* held in memory is lost.  Reads of block files and writes of the coin    *)
(* database may fail.                                                      *)
(*                                                                         *)
(* Abstracted: a coin view is the block whose effects it contains; a CChain*)
(* is its tip; BLOCK_VALID_SCRIPTS is not told from BLOCK_HAVE_UNDO, which *)
(* ConnectBlock sets with it; the fork warnings, notifications and the     *)
(* wallet's view are left out; writes of the block index do not fail.      *)
(***************************************************************************)
EXTENDS BlockTree

CONSTANT Addresses   \* possible heap addresses of the CBlockIndex objects

ASSUME AddressAssumption ==
    /\ Addresses # {}
    /\ \A a \in Addresses :
        /\ a \in [Block -> Nat]
        /\ \A b, c \in Block : a[b] = a[c] => b = c

Flag == {"DATA", "UNDO", "FAILED_VALID", "FAILED_CHILD"}

VARIABLES
    \* memory
    pc,            \* where the thread holding cs_main stands, see PC
    nStatus,       \* CBlockIndex::nStatus; {} for a block not in mapBlockIndex
    nSequenceId,   \* CBlockIndex::nSequenceId
    address,       \* the CBlockIndex pointers, which break ties
    nBlockSequenceId,
    setBlockIndexValid,
    chainActive, chainMostWork,
    pcoinsTip,     \* the best block of the coin cache
    nLastWrite,    \* whether WriteChainState has written since the start
    started,       \* AppInit2's call of ActivateBestChain has returned
    returned,      \* what the last ActivateBestChain returned
    \* disk
    blocktree,     \* the block index database: the nStatus last written
    coinsdb        \* the best block of the coin database

memory == <<nStatus, nSequenceId, address, nBlockSequenceId, setBlockIndexValid,
            chainActive, chainMostWork, pcoinsTip, nLastWrite, started, returned>>
disk == <<blocktree, coinsdb>>
vars == <<pc, memory, disk>>

(***************************************************************************)
(* "down": no process.  "broken": start-up gave up and asks for -reindex.  *)
(* "idle": between blocks.  "find": at the top of ActivateBestChain's      *)
(* loop.  "switch": chainMostWork is chosen and chainActive on its way to  *)
(* it.  "write": ConnectTip or DisconnectTip has changed pcoinsTip and     *)
(* calls WriteChainState.                                                  *)
(***************************************************************************)
PC == {"down", "broken", "idle", "find", "switch", "write"}

Running == pc \notin {"down", "broken"}

mapBlockIndex == {b \in Block : nStatus[b] # {}}

Failed(b) == nStatus[b] \cap {"FAILED_VALID", "FAILED_CHILD"} # {}

(* CBlockIndexWorkComparator: a sorts after c. *)
Better(a, c) ==
    \/ ChainWork[a] > ChainWork[c]
    \/ /\ ChainWork[a] = ChainWork[c]
       /\ \/ nSequenceId[a] < nSequenceId[c]
          \/ nSequenceId[a] = nSequenceId[c] /\ address[a] < address[c]

-----------------------------------------------------------------------------
Init ==
    /\ pc = "down"
    /\ nStatus = [b \in Block |-> {}]
    /\ nSequenceId = [b \in Block |-> 0]
    /\ address \in Addresses
    /\ nBlockSequenceId = 1
    /\ setBlockIndexValid = {}
    /\ chainActive = None /\ chainMostWork = None /\ pcoinsTip = None
    /\ nLastWrite = FALSE
    /\ started = FALSE
    /\ returned = TRUE
    /\ blocktree = [b \in Block |-> {}]
    /\ coinsdb = None

(* The variants named "Slip..." are not part of the model: each is a mistake *)
(* that could be made in the definition it precedes, and that one of the    *)
(* properties below tells from the real code.                               *)

(* The new block is not made a candidate. *)
SlipAcceptBlock(b) ==
    /\ pc = "idle" /\ started
    /\ b \notin mapBlockIndex /\ Parent[b] \in mapBlockIndex
    /\ nStatus' = [nStatus EXCEPT ![b] = {"DATA"}]
    /\ nSequenceId' = [nSequenceId EXCEPT ![b] = nBlockSequenceId]
    /\ nBlockSequenceId' = nBlockSequenceId + 1
    /\ blocktree' = [blocktree EXCEPT ![b] = {"DATA"}]
    /\ pc' = "find"
    /\ UNCHANGED <<address, setBlockIndexValid, chainActive, chainMostWork, pcoinsTip,
                   nLastWrite, started, returned, coinsdb>>

(* AcceptBlock, with AddToBlockIndex up to its call of ActivateBestChain.  *)
(* The parent is known, valid or not.                                      *)
AcceptBlock(b) ==
    /\ pc = "idle" /\ started
    /\ b \notin mapBlockIndex /\ Parent[b] \in mapBlockIndex
    /\ nStatus' = [nStatus EXCEPT ![b] = {"DATA"}]
    /\ nSequenceId' = [nSequenceId EXCEPT ![b] = nBlockSequenceId]
    /\ nBlockSequenceId' = nBlockSequenceId + 1
    /\ setBlockIndexValid' = setBlockIndexValid \cup {b}
    /\ blocktree' = [blocktree EXCEPT ![b] = {"DATA"}]
    /\ pc' = "find"
    /\ UNCHANGED <<address, chainActive, chainMostWork, pcoinsTip, nLastWrite, started, returned, coinsdb>>

-----------------------------------------------------------------------------
(* ActivateBestChain returns.  A system error asks the node to shut down.  *)
ReturnTrue == pc' = "idle" /\ returned' = TRUE /\ started' = TRUE

ReturnError == pc' = "idle" /\ returned' = FALSE /\ UNCHANGED started

(* The failed blocks stay. *)
SlipPopped(m) == m = chainMostWork

(* FindMostWorkChain.  First, failed blocks are popped off chainMostWork:   *)
(* m is what remains of it.                                                 *)
Popped(m) ==
    /\ m \in ChainTo(chainMostWork) \cup {None}
    /\ \A b \in ChainTo(chainMostWork) \ ChainTo(m) : Failed(b)
    /\ m # None => ~Failed(m)

(* The walk from b to the active chain meets a failed block. *)
Doomed(b) == \E f \in Path[b] \ ChainTo(chainActive) : Failed(f)

(* Then the candidates are examined from the best down, to the first that  *)
(* is not doomed...                                                        *)
Examined(C) == {c \in C : Doomed(c) /\ \A d \in C : ~Doomed(d) => Better(c, d)}

(* ...and what lies between one of them and the failed block is marked.    *)
Children(E) ==
    {b \in Block : /\ Doomed(b)
                   /\ \E c \in E : b \in Path[c] /\ \A d \in Path[c] : b \in Path[d] => ~Failed(d)}

(* A candidate that is marked itself would be examined for ever.           *)
FindMostWorkChain ==
    /\ pc = "find"
    /\ \E m \in Block \cup {None} :
        /\ Popped(m)
        /\ LET C == setBlockIndexValid \ (ChainTo(chainMostWork) \ ChainTo(m))
               E == Examined(C)
               F == Children(E)
           IN  /\ \A c \in E : ~Failed(c)
               /\ setBlockIndexValid' = C \ F
               /\ nStatus' = [b \in Block |-> IF b \in F THEN nStatus[b] \cup {"FAILED_CHILD"}
                                                         ELSE nStatus[b]]
               /\ IF C \ F = {} THEN chainMostWork' = m
                  ELSE \E best \in C \ F :
                        /\ \A c \in C \ F : c = best \/ Better(best, c)
                        /\ chainMostWork' = IF m = None \/ Better(best, m) THEN best ELSE m
    /\ IF chainMostWork' = None THEN ReturnTrue ELSE pc' = "switch" /\ UNCHANGED <<started, returned>>
    /\ UNCHANGED <<nSequenceId, address, nBlockSequenceId, chainActive, pcoinsTip, nLastWrite, disk>>

-----------------------------------------------------------------------------
MustDisconnect ==
    /\ pc = "switch"
    /\ chainActive # None /\ chainActive \notin ChainTo(chainMostWork)

MustConnect(b) ==
    /\ pc = "switch"
    /\ chainActive \in ChainTo(chainMostWork) \cup {None}
    /\ b \in ChainTo(chainMostWork) /\ Parent[b] = chainActive

DisconnectTip ==
    /\ MustDisconnect
    /\ pcoinsTip = chainActive             \* asserted by DisconnectBlock
    /\ "UNDO" \in nStatus[chainActive]
    /\ pcoinsTip' = Parent[chainActive]
    /\ pc' = "write"
    /\ UNCHANGED <<nStatus, nSequenceId, address, nBlockSequenceId, setBlockIndexValid,
                   chainActive, chainMostWork, nLastWrite, started, returned, disk>>

(* The new flags stay in memory. *)
SlipConnectTip(b) ==
    /\ MustConnect(b) /\ Connectable(b)
    /\ pcoinsTip = chainActive
    /\ nStatus' = [nStatus EXCEPT ![b] = @ \cup {"UNDO"}]
    /\ pcoinsTip' = b
    /\ pc' = "write"
    /\ UNCHANGED <<nSequenceId, address, nBlockSequenceId, setBlockIndexValid,
                   chainActive, chainMostWork, nLastWrite, started, returned, disk>>

(* ConnectBlock succeeds; all but the genesis block leave undo data.       *)
ConnectTip(b) ==
    /\ MustConnect(b) /\ Connectable(b)
    /\ pcoinsTip = chainActive             \* asserted by ConnectBlock
    /\ IF b = Genesis THEN UNCHANGED <<nStatus, blocktree>>
       ELSE /\ nStatus' = [nStatus EXCEPT ![b] = @ \cup {"UNDO"}]
            /\ blocktree' = IF "UNDO" \in nStatus[b] THEN blocktree
                            ELSE [blocktree EXCEPT ![b] = nStatus'[b]]
    /\ pcoinsTip' = b
    /\ pc' = "write"
    /\ UNCHANGED <<nSequenceId, address, nBlockSequenceId, setBlockIndexValid,
                   chainActive, chainMostWork, nLastWrite, started, returned, coinsdb>>

(* The block stays a candidate. *)
SlipRejectTip(b) ==
    /\ MustConnect(b) /\ b \in Invalid \ Corrupt
    /\ pcoinsTip = chainActive
    /\ nStatus' = [nStatus EXCEPT ![b] = @ \cup {"FAILED_VALID"}]
    /\ blocktree' = [blocktree EXCEPT ![b] = nStatus'[b]]
    /\ pc' = "find"
    /\ UNCHANGED <<nSequenceId, address, nBlockSequenceId, setBlockIndexValid, chainActive,
                   chainMostWork, pcoinsTip, nLastWrite, started, returned, coinsdb>>

(* ConnectBlock fails and InvalidBlockFound marks the block. *)
RejectTip(b) ==
    /\ MustConnect(b) /\ b \in Invalid \ Corrupt
    /\ pcoinsTip = chainActive
    /\ nStatus' = [nStatus EXCEPT ![b] = @ \cup {"FAILED_VALID"}]
    /\ blocktree' = [blocktree EXCEPT ![b] = nStatus'[b]]
    /\ setBlockIndexValid' = setBlockIndexValid \ {b}
    /\ pc' = "find"
    /\ UNCHANGED <<nSequenceId, address, nBlockSequenceId, chainActive, chainMostWork,
                   pcoinsTip, nLastWrite, started, returned, coinsdb>>

(* CorruptionPossible is not looked at. *)
SlipRejectCorruptTip(b) ==
    /\ MustConnect(b) /\ b \in Corrupt
    /\ nStatus' = [nStatus EXCEPT ![b] = @ \cup {"FAILED_VALID"}]
    /\ blocktree' = [blocktree EXCEPT ![b] = nStatus'[b]]
    /\ setBlockIndexValid' = setBlockIndexValid \ {b}
    /\ pc' = "find"
    /\ UNCHANGED <<nSequenceId, address, nBlockSequenceId, chainActive, chainMostWork,
                   pcoinsTip, nLastWrite, started, returned, coinsdb>>

(* The same with CorruptionPossible: CheckBlock comes before the assertion *)
(* and nothing is marked.                                                  *)
RejectCorruptTip(b) ==
    /\ MustConnect(b) /\ b \in Corrupt
    /\ pc' = "find"
    /\ UNCHANGED <<memory, disk>>

(* The connecting loop is left early. *)
SlipActivated ==
    /\ pc = "switch"
    /\ chainActive # None /\ chainActive \in ChainTo(chainMostWork)
    /\ ReturnTrue
    /\ UNCHANGED <<nStatus, nSequenceId, address, nBlockSequenceId, setBlockIndexValid,
                   chainActive, chainMostWork, pcoinsTip, nLastWrite, disk>>

(* The loops are done. *)
Activated ==
    /\ pc = "switch"
    /\ chainActive # None /\ chainMostWork \in ChainTo(chainActive)
    /\ chainActive \in ChainTo(chainMostWork)
    /\ ReturnTrue
    /\ UNCHANGED <<nStatus, nSequenceId, address, nBlockSequenceId, setBlockIndexValid,
                   chainActive, chainMostWork, pcoinsTip, nLastWrite, disk>>

(* A block or its undo data cannot be read. *)
ReadFails ==
    /\ MustDisconnect \/ \E b \in Block : MustConnect(b)
    /\ ReturnError
    /\ UNCHANGED <<nStatus, nSequenceId, address, nBlockSequenceId, setBlockIndexValid,
                   chainActive, chainMostWork, pcoinsTip, nLastWrite, disk>>

(* WriteChainState, then UpdateTip.  The write is due at the first call, and *)
(* afterwards whenever the node is up to date, the cache is full or ten      *)
(* minutes have passed: at any call.                                         *)
WriteChainState ==
    /\ pc = "write"
    /\ \/ coinsdb' = pcoinsTip /\ nLastWrite' = TRUE
       \/ nLastWrite /\ UNCHANGED <<coinsdb, nLastWrite>>
    /\ chainActive' = pcoinsTip
    /\ pc' = "switch"
    /\ UNCHANGED <<nStatus, nSequenceId, address, nBlockSequenceId, setBlockIndexValid,
                   chainMostWork, pcoinsTip, started, returned, blocktree>>

(* The disk is full or the coin database fails: UpdateTip is not reached. *)
WriteFails ==
    /\ pc = "write"
    /\ ReturnError
    /\ UNCHANGED <<nStatus, nSequenceId, address, nBlockSequenceId, setBlockIndexValid,
                   chainActive, chainMostWork, pcoinsTip, nLastWrite, disk>>

-----------------------------------------------------------------------------
(* Memory without a process, in a canonical form. *)
Forget ==
    /\ pc' = "down"
    /\ nStatus' = [b \in Block |-> {}]
    /\ nSequenceId' = [b \in Block |-> 0]
    /\ nBlockSequenceId' = 1
    /\ setBlockIndexValid' = {}
    /\ chainActive' = None /\ chainMostWork' = None /\ pcoinsTip' = None
    /\ nLastWrite' = FALSE
    /\ started' = FALSE
    /\ returned' = TRUE
    /\ UNCHANGED address

Crash == Running /\ Forget /\ UNCHANGED disk

(* assert(hashPrevBlock == view.GetBestBlock()), and its like in            *)
(* DisconnectBlock.                                                         *)
AssertionFails ==
    /\ MustDisconnect \/ \E b \in Block \ Corrupt : MustConnect(b)
    /\ pcoinsTip # chainActive
    /\ Forget
    /\ UNCHANGED disk

(* Shutdown() flushes the coin cache, whether or not chainActive agrees. *)
Shutdown ==
    /\ pc = "idle"
    /\ coinsdb' = pcoinsTip
    /\ Forget
    /\ UNCHANGED blocktree

(* Blocks that are not in the index become candidates. *)
SlipLoadedValid(status) == {b \in Block : status[b] \cap {"FAILED_VALID", "FAILED_CHILD"} = {}}

(* The candidates LoadBlockIndexDB finds in what it has read. *)
LoadedValid(status) ==
    {b \in Block : status[b] # {} /\ status[b] \cap {"FAILED_VALID", "FAILED_CHILD"} = {}}

(* AppInit2: LoadBlockIndexDB, InitBlockIndex when there is no chain yet,   *)
(* ActivateBestChain.  A block index without a chain is taken for another  *)
(* network's: "Incorrect or no genesis block found".                       *)
Start ==
    /\ pc = "down"
    /\ \/ /\ coinsdb # None \/ blocktree[Genesis] = {}
          /\ pc' = "find"
       \/ /\ coinsdb = None /\ blocktree[Genesis] # {}
          /\ pc' = "broken"
    /\ LET loaded == [b \in Block |->
                        IF b = Genesis /\ coinsdb = None THEN {"DATA"} ELSE blocktree[b]]
       IN  /\ nStatus' = loaded
           /\ blocktree' = loaded
           /\ setBlockIndexValid' = LoadedValid(loaded)
    /\ nSequenceId' = [b \in Block |-> IF b = Genesis /\ coinsdb = None THEN 1 ELSE 0]
    /\ nBlockSequenceId' = IF coinsdb = None THEN 2 ELSE 1
    /\ address' \in Addresses
    /\ chainActive' = coinsdb /\ pcoinsTip' = coinsdb
    /\ chainMostWork' = None
    /\ UNCHANGED <<nLastWrite, started, returned, coinsdb>>

-----------------------------------------------------------------------------
Activate ==
    \/ FindMostWorkChain \/ DisconnectTip \/ WriteChainState \/ Activated
    \/ \E b \in Block : ConnectTip(b) \/ RejectTip(b) \/ RejectCorruptTip(b)

Next ==
    \/ Activate
    \/ \E b \in Block : AcceptBlock(b)
    \/ ReadFails \/ WriteFails \/ AssertionFails
    \/ Crash \/ Shutdown \/ Start

Spec == Init /\ [][Next]_vars

(* The thread that holds cs_main runs; nothing else has to happen. *)
FairSpec == Spec /\ WF_vars(Activate \/ AssertionFails)

-----------------------------------------------------------------------------
TypeOK ==
    /\ pc \in PC
    /\ nStatus \in [Block -> SUBSET Flag]
    /\ nSequenceId \in [Block -> Nat] /\ nBlockSequenceId \in Nat
    /\ address \in Addresses
    /\ setBlockIndexValid \subseteq mapBlockIndex
    /\ {chainActive, chainMostWork, pcoinsTip} \subseteq mapBlockIndex \cup {None}
    /\ {nLastWrite, started, returned} \subseteq BOOLEAN
    /\ blocktree \in [Block -> SUBSET Flag]
    /\ coinsdb \in Block \cup {None}

(* "Find the best known block, and make it the tip of the block chain":     *)
(* whenever ActivateBestChain has returned true, no connectable chain of    *)
(* known blocks is better than the active one, by work, then by order of    *)
(* arrival, and the active chain is connectable.                            *)
BestChainIsActive ==
    pc = "idle" /\ returned =>
        /\ chainActive # None /\ Valid(chainActive)
        /\ \A b \in mapBlockIndex : Valid(b) => ~Better(b, chainActive)

(* "may contain all CBlockIndex*'s that have validness >=                   *)
(* BLOCK_VALID_TRANSACTIONS, and must contain those who aren't failed"; and *)
(* a failed one in it would keep FindMostWorkChain in its loop for ever.    *)
CandidatesAreTheNotFailed ==
    Running => setBlockIndexValid = {b \in mapBlockIndex : ~Failed(b)}

(* Only blocks that break a rule, or descend from one that does, are marked *)
(* failed, in memory or on disk; damage to a block's data on disk is not    *)
(* held against it.  None of them is ever part of the active chain.         *)
FailedAreInvalid ==
    \A b \in Block :
        (nStatus[b] \cup blocktree[b]) \cap {"FAILED_VALID", "FAILED_CHILD"} # {} =>
            Path[b] \cap Invalid # {} /\ b \notin ChainTo(chainActive)

(* Whenever the process dies, the best block of the coin database is known  *)
(* to the block index, together with all its ancestors, none of them marked *)
(* failed and each of them with the undo data a reorganisation needs.       *)
CoinsRecoverable ==
    \A b \in ChainTo(coinsdb) :
        /\ "DATA" \in blocktree[b] /\ blocktree[b] \cap {"FAILED_VALID", "FAILED_CHILD"} = {}
        /\ b # Genesis => "UNDO" \in blocktree[b]

(* The promise of BestChain is kept: the index never forgets a block, the   *)
(* tip moves along the tree over valid chains only, and ActivateBestChain   *)
(* returns true only on a chain with the most work.                         *)
Promise == INSTANCE BestChain WITH
    known <- {b \in Block : blocktree[b] # {}},
    tip <- chainActive,
    resting <- pc = "idle" /\ returned

ImplementsBestChain == Promise!Spec

(* ActivateBestChain is at a block that is damaged on disk.                 *)
TriesDamaged == \E b \in Corrupt : MustConnect(b)

(* Every block that arrives is acted upon: ActivateBestChain returns unless *)
(* the process dies, or it comes to a damaged block: whatever it tried      *)
(* before, and however often, it is not kept by anything else.              *)
ActivationReturns ==
    pc \in {"find", "switch", "write"} ~> (pc \in {"idle", "down"} \/ TriesDamaged)

-----------------------------------------------------------------------------
(* Claims of the source that do not hold. *)

(* "verify that the view's current state corresponds to the previous        *)
(* block": assert(hashPrevBlock == view.GetBestBlock()).                    *)
ViewCorrespondsToPrevious ==
    \A b \in Block : MustConnect(b) => pcoinsTip = Parent[b]

(* "Try to activate to the most-work chain (thereby connecting it)": it      *)
(* returns whatever is damaged.                                             *)
DamagedAreGivenUp == pc \in {"find", "switch", "write"} ~> pc \in {"idle", "down"}

(* "If the loaded chain has a wrong genesis, bail out": with the right one, *)
(* the node starts.                                                         *)
RightGenesisIsAccepted == pc # "broken"
=============================================================================
