-------------------------- MODULE ChainStateProofs --------------------------
(***************************************************************************)
(* Proofs about ChainState, for every tree of blocks, every layout of the  *)
(* heap and every set of invalid and of damaged blocks.                    *)
(***************************************************************************)
EXTENDS ChainState, TLAPS

-----------------------------------------------------------------------------
(* Paths of the block tree: a path is closed under Parent, grows by one     *)
(* block at a time, and is ordered by ChainWork.                            *)

(* A block's path holds the block, and blocks only. *)
LEMMA PathHolds ==
    ASSUME NEW b \in Block
    PROVE  b \in Path[b] /\ Path[b] \subseteq Block
BY DEF Path

(* To show that a path lies in a set it is enough that the set is closed. *)
LEMMA PathLeast ==
    ASSUME NEW b \in Block, NEW S \in SUBSET Block, b \in S, Closed(S)
    PROVE  Path[b] \subseteq S
BY DEF Path

(* SetTip's walk never leaves the path before it has reached the genesis. *)
LEMMA PathClosed ==
    ASSUME NEW b \in Block
    PROVE  Closed(Path[b])
<1> SUFFICES ASSUME NEW c \in Path[b], Parent[c] # None
             PROVE  Parent[c] \in Path[b]
    BY DEF Closed
<1>1. c \in Block
    BY PathHolds
<1>2. Parent[c] \in Block
    BY <1>1, ParentAssumption
<1>3. ASSUME NEW S \in SUBSET Block, b \in S, Closed(S)
      PROVE  Parent[c] \in S
    <2>1. c \in S
        BY <1>3, PathLeast
    <2> QED
        BY <2>1, <1>3 DEF Closed
<1> QED
    BY <1>2, <1>3 DEF Path

(* The path of an ancestor is part of the path. *)
LEMMA PathTransitive ==
    ASSUME NEW b \in Block, NEW c \in Path[b]
    PROVE  c \in Block /\ Path[c] \subseteq Path[b]
<1>1. c \in Block /\ Path[b] \in SUBSET Block
    BY PathHolds
<1>2. Closed(Path[b])
    BY PathClosed
<1> QED
    BY <1>1, <1>2, PathLeast

(* A path is its block and the path of the parent. *)
LEMMA PathStep ==
    ASSUME NEW b \in Block
    PROVE  Path[b] = {b} \cup ChainTo(Parent[b])
<1> DEFINE S == {b} \cup ChainTo(Parent[b])
<1>1. CASE Parent[b] = None
    <2>1. S = {b} /\ S \in SUBSET Block
        BY <1>1 DEF ChainTo
    <2>2. Closed(S)
        BY <1>1, <2>1 DEF Closed
    <2>3. Path[b] \subseteq S
        BY <2>1, <2>2, PathLeast
    <2> QED
        BY <2>1, <2>3, PathHolds
<1>2. CASE Parent[b] # None
    <2>1. Parent[b] \in Block
        BY <1>2, ParentAssumption
    <2>2. S = {b} \cup Path[Parent[b]]
        BY <1>2 DEF ChainTo
    <2>3. S \in SUBSET Block /\ Parent[b] \in Path[Parent[b]]
        BY <2>1, <2>2, PathHolds
    <2>4. Closed(Path[Parent[b]])
        BY <2>1, PathClosed
    <2>5. Closed(S)
        BY <2>2, <2>3, <2>4 DEF Closed
    <2>6. Path[b] \subseteq S
        BY <2>3, <2>5, PathLeast
    <2>7. Parent[b] \in Path[b]
        BY <1>2, PathHolds, PathClosed DEF Closed
    <2>8. Path[Parent[b]] \subseteq Path[b]
        BY <2>7, PathTransitive
    <2> QED
        BY <2>2, <2>6, <2>8, PathHolds
<1> QED
    BY <1>1, <1>2

(* Every other block of a path has less work. *)
LEMMA PathWork ==
    ASSUME NEW b \in Block, NEW c \in Path[b]
    PROVE  c = b \/ ChainWork[c] < ChainWork[b]
<1> DEFINE S == {d \in Block : d = b \/ ChainWork[d] < ChainWork[b]}
<1>1. ASSUME NEW d \in S
      PROVE  Parent[d] \in S \cup {None}
    <2> SUFFICES ASSUME Parent[d] # None
                 PROVE  Parent[d] \in S
        OBVIOUS
    <2>1. Parent[d] \in Block /\ d \in Block \ {Genesis}
        BY ParentAssumption
    <2>2. ChainWork[d] > ChainWork[Parent[d]]
        BY <2>1, WorkAssumption
    <2>3. ChainWork[d] \in Nat /\ ChainWork[Parent[d]] \in Nat /\ ChainWork[b] \in Nat
        BY <2>1, WorkAssumption
    <2> QED
        BY <2>1, <2>2, <2>3
<1>2. Closed(S)
    BY <1>1 DEF Closed
<1>3. Path[b] \subseteq S
    BY <1>2, PathLeast
<1> QED
    BY <1>3

(* Two blocks that lie on each other's path are the same. *)
LEMMA PathAntisymmetric ==
    ASSUME NEW b \in Block, NEW c \in Block, b \in Path[c], c \in Path[b]
    PROVE  b = c
<1>1. ChainWork[b] \in Nat /\ ChainWork[c] \in Nat
    BY WorkAssumption
<1>2. c = b \/ ChainWork[c] < ChainWork[b]
    BY PathWork
<1>3. b = c \/ ChainWork[b] < ChainWork[c]
    BY PathWork
<1> QED
    BY <1>1, <1>2, <1>3

(* A closed set holds the path of each of its blocks. *)
LEMMA ClosedHoldsPaths ==
    ASSUME NEW S \in SUBSET Block, Closed(S), NEW b \in S
    PROVE  Path[b] \subseteq S
BY PathLeast

(* A chain of known blocks consists of known blocks. *)
LEMMA ClosedHoldsChains ==
    ASSUME NEW S \in SUBSET Block, Closed(S), NEW b \in S \cup {None}
    PROVE  ChainTo(b) \subseteq S
BY ClosedHoldsPaths DEF ChainTo

(* The genesis block is its own path, and ConnectBlock accepts it. *)
LEMMA GenesisValid == Path[Genesis] = {Genesis} /\ Valid(Genesis)
<1>1. Genesis \in Block /\ Parent[Genesis] = None
    BY BlockAssumption, ParentAssumption
<1>2. Path[Genesis] = {Genesis}
    BY <1>1, PathStep DEF ChainTo
<1> QED
    BY <1>2, BlockAssumption DEF Valid, Connectable

(* A valid chain is valid up to each of its blocks, and free of Invalid. *)
LEMMA ValidPrefix ==
    ASSUME NEW b \in Block, Valid(b)
    PROVE  /\ Path[b] \cap Invalid = {}
           /\ \A c \in Path[b] : Valid(c)
           /\ Parent[b] # None => Parent[b] \in Block /\ Valid(Parent[b])
<1>1. Path[b] \cap Invalid = {}
    BY DEF Valid, Connectable
<1>2. \A c \in Path[b] : Valid(c)
    BY PathTransitive DEF Valid
<1>3. Parent[b] # None => Parent[b] \in Block /\ Parent[b] \in Path[b]
    BY PathHolds, PathClosed, ParentAssumption DEF Closed
<1> QED
    BY <1>1, <1>2, <1>3

(* A block that ConnectBlock accepts extends a valid chain to a valid one. *)
LEMMA ValidExtension ==
    ASSUME NEW b \in Block, Connectable(b), Parent[b] # None => Valid(Parent[b])
    PROVE  Valid(b)
<1>1. Path[b] = {b} \cup ChainTo(Parent[b])
    BY PathStep
<1> QED
    BY <1>1 DEF Valid, ChainTo

-----------------------------------------------------------------------------
(* The inductive invariant *)

(* The blocks on record. *)
OnRecord == {b \in Block : blocktree[b] # {}}

(* The index in memory is the one on disk, but for marks of failure; both   *)
(* hold every block's ancestors.                                            *)
IndexSound ==
    /\ Closed(OnRecord)
    /\ OnRecord # {} => Genesis \in OnRecord
    /\ \A b \in OnRecord : "DATA" \in blocktree[b]
    /\ Running =>
        /\ mapBlockIndex = OnRecord /\ Genesis \in OnRecord
        /\ \A b \in mapBlockIndex : "DATA" \in nStatus[b]
        /\ \A b \in Block : "UNDO" \in nStatus[b] <=> "UNDO" \in blocktree[b]

Fails == {"FAILED_VALID", "FAILED_CHILD"}

(* Marks of failure are deserved. *)
MarksSound ==
    \A b \in Block : (nStatus[b] \cup blocktree[b]) \cap Fails # {} => Path[b] \cap Invalid # {}

(* The chain, the cache and the database stand on valid blocks on record... *)
TipsSound ==
    \A b \in {chainActive, pcoinsTip, coinsdb} : b # None => b \in OnRecord /\ Valid(b)

(* ...whose undo data is on record. *)
UndoSound ==
    \A b \in ChainTo(pcoinsTip) \cup ChainTo(coinsdb) :
        b # Genesis => "UNDO" \in blocktree[b]

(* chainMostWork is at least as good as any valid chain while it is acted   *)
(* upon.                                                                    *)
MostWorkSound ==
    pc \in {"switch", "write"} =>
        /\ chainMostWork # None
        /\ \A b \in mapBlockIndex : Valid(b) => ~Better(b, chainMostWork)

(* Between a change of pcoinsTip and that of chainActive they are a block   *)
(* apart.  Without a process there is no chain.                             *)
StepSound ==
    /\ pc = "write" =>
        \/ chainActive # None /\ pcoinsTip = Parent[chainActive]
        \/ pcoinsTip # None /\ Parent[pcoinsTip] = chainActive
    /\ ~Running => chainActive = None

(* The inductive invariant. *)
IInv ==
    /\ TypeOK /\ IndexSound /\ MarksSound /\ TipsSound /\ UndoSound
    /\ CandidatesAreTheNotFailed /\ MostWorkSound /\ StepSound /\ BestChainIsActive

-----------------------------------------------------------------------------
(* CBlockIndexWorkComparator is a strict order. *)
LEMMA BetterOrder ==
    ASSUME TypeOK
    PROVE  /\ \A a \in Block : ~Better(a, a)
           /\ \A a, b, c \in Block : Better(a, b) /\ Better(b, c) => Better(a, c)
<1>1. \A a \in Block : ChainWork[a] \in Nat /\ nSequenceId[a] \in Nat /\ address[a] \in Nat
    BY WorkAssumption, AddressAssumption DEF TypeOK
<1> QED
    BY <1>1 DEF Better

(* A block whose path meets a failed block is not valid. *)
LEMMA DoomedInvalid ==
    ASSUME MarksSound, NEW b \in Block, NEW f \in Path[b], Failed(f)
    PROVE  Path[b] \cap Invalid # {} /\ ~Valid(b)
<1>1. f \in Block /\ Path[f] \subseteq Path[b]
    BY PathTransitive
<1>2. Path[f] \cap Invalid # {}
    BY <1>1 DEF MarksSound, Failed, Fails
<1> QED
    BY <1>1, <1>2 DEF Valid, Connectable

(* The chains in memory consist of blocks of the index. *)
LEMMA ChainsOfIndex ==
    ASSUME IInv, Running
    PROVE  /\ Closed(mapBlockIndex) /\ mapBlockIndex \subseteq Block
           /\ \A b \in mapBlockIndex : Path[b] \subseteq mapBlockIndex
           /\ ChainTo(chainActive) \subseteq mapBlockIndex
           /\ ChainTo(chainMostWork) \subseteq mapBlockIndex
           /\ ChainTo(pcoinsTip) \subseteq mapBlockIndex
<1>1. Closed(mapBlockIndex) /\ mapBlockIndex \in SUBSET Block
    BY DEF IInv, IndexSound, mapBlockIndex
<1>2. \A b \in mapBlockIndex : Path[b] \subseteq mapBlockIndex
    BY <1>1, ClosedHoldsPaths
<1>3. \A b \in mapBlockIndex \cup {None} : ChainTo(b) \subseteq mapBlockIndex
    BY <1>1, ClosedHoldsChains
<1>4. /\ chainActive \in mapBlockIndex \cup {None} /\ chainMostWork \in mapBlockIndex \cup {None}
      /\ pcoinsTip \in mapBlockIndex \cup {None}
    BY DEF IInv, TypeOK
<1> QED
    BY <1>1, <1>2, <1>3, <1>4

-----------------------------------------------------------------------------
(* What FindMostWorkChain does: it marks some blocks, all of them invalid,  *)
(* removes them from the candidates, and chooses a chain that no valid      *)
(* chain is better than.                                                    *)
LEMMA FindStep ==
    ASSUME IInv, FindMostWorkChain
    PROVE  /\ \E F \in SUBSET mapBlockIndex :
                /\ \A b \in F : Path[b] \cap Invalid # {}
                /\ setBlockIndexValid' = setBlockIndexValid \ F
                /\ nStatus' = [b \in Block |-> IF b \in F THEN nStatus[b] \cup {"FAILED_CHILD"}
                                                          ELSE nStatus[b]]
           /\ chainMostWork' \in mapBlockIndex
           /\ \A b \in mapBlockIndex : Valid(b) => ~Better(b, chainMostWork')
           /\ pc = "find" /\ pc' = "switch"
           /\ UNCHANGED <<nSequenceId, address, nBlockSequenceId, chainActive, pcoinsTip,
                          nLastWrite, started, returned, disk>>
<1>1. PICK m \in Block \cup {None} :
        /\ Popped(m)
        /\ LET C == setBlockIndexValid \ (ChainTo(chainMostWork) \ ChainTo(m))
               E == Examined(C)
               F == Children(E)
           IN  /\ \A c \in E : ~Failed(c)
               /\ setBlockIndexValid' = C \ F
               /\ nStatus' = [b \in Block |-> IF b \in F THEN nStatus[b] \cup {"FAILED_CHILD"}
                                                         ELSE nStatus[b]]
               /\ IF C \ F = {} THEN chainMostWork' = m
                  ELSE \E best \in C \ F :
                        /\ \A c \in C \ F : c = best \/ Better(best, c)
                        /\ chainMostWork' = IF m = None \/ Better(best, m) THEN best ELSE m
    BY DEF FindMostWorkChain
<1> DEFINE C == setBlockIndexValid \ (ChainTo(chainMostWork) \ ChainTo(m))
           F == Children(Examined(C))
<1>2. pc = "find" /\ Running
    BY DEF FindMostWorkChain, Running
<1>3. setBlockIndexValid = {b \in mapBlockIndex : ~Failed(b)}
    BY <1>2 DEF IInv, CandidatesAreTheNotFailed
<1>4. C = setBlockIndexValid
    BY <1>1, <1>3 DEF Popped
<1>5. F \subseteq mapBlockIndex
    <2> SUFFICES ASSUME NEW b \in F
                 PROVE  b \in mapBlockIndex
        OBVIOUS
    <2>1. PICK c \in Examined(C) : b \in Path[c]
        BY DEF Children
    <2>2. c \in mapBlockIndex
        BY <2>1, <1>3, <1>4 DEF Examined
    <2> QED
        BY <2>1, <2>2, <1>2, ChainsOfIndex
<1>6. \A b \in Block : Doomed(b) => Path[b] \cap Invalid # {} /\ ~Valid(b)
    BY DoomedInvalid DEF Doomed, IInv
<1>7. \A b \in F : b \in Block /\ Doomed(b)
    BY DEF Children
<1>8. \A b \in F : Path[b] \cap Invalid # {}
    BY <1>6, <1>7
<1>9. \A b \in mapBlockIndex : Valid(b) => b \in C \ F
    <2> SUFFICES ASSUME NEW b \in mapBlockIndex, Valid(b)
                 PROVE  b \in C \ F
        OBVIOUS
    <2>1. b \in Block /\ b \in Path[b]
        BY PathHolds DEF mapBlockIndex
    <2>2. ~Failed(b)
        BY <2>1, DoomedInvalid DEF IInv
    <2>3. b \notin F
        BY <2>1, <1>6, <1>7
    <2> QED
        BY <2>2, <2>3, <1>3, <1>4
<1>10. Genesis \in C \ F
    BY <1>2, <1>9, GenesisValid DEF IInv, IndexSound
<1>11. PICK best \in C \ F :
        /\ \A c \in C \ F : c = best \/ Better(best, c)
        /\ chainMostWork' = IF m = None \/ Better(best, m) THEN best ELSE m
    BY <1>1, <1>10
<1>12. best \in mapBlockIndex
    BY <1>3, <1>4
<1>13. m \in mapBlockIndex \cup {None}
    BY <1>1, <1>2, ChainsOfIndex DEF Popped
<1>14. chainMostWork' \in mapBlockIndex /\ chainMostWork' # None
    BY <1>11, <1>12, <1>13, BlockAssumption DEF mapBlockIndex
<1>15. \A b \in mapBlockIndex : Valid(b) => ~Better(b, chainMostWork')
    <2> SUFFICES ASSUME NEW b \in mapBlockIndex, Valid(b), Better(b, chainMostWork')
                 PROVE  FALSE
        OBVIOUS
    <2>1. TypeOK /\ mapBlockIndex \subseteq Block
        BY DEF IInv, mapBlockIndex
    <2>2. b = best \/ Better(best, b)
        BY <1>9, <1>11
    <2>3. Better(best, chainMostWork')
        BY <2>1, <2>2, <1>12, <1>14, BetterOrder
    <2>4. chainMostWork' # best
        BY <2>1, <2>3, <1>12, BetterOrder
    <2> QED
        BY <2>3, <2>4, <1>11
<1>16. /\ pc' = "switch"
       /\ UNCHANGED <<nSequenceId, address, nBlockSequenceId, chainActive, pcoinsTip,
                      nLastWrite, started, returned, disk>>
    BY <1>14 DEF FindMostWorkChain
<1>17. /\ setBlockIndexValid' = setBlockIndexValid \ F
       /\ nStatus' = [b \in Block |-> IF b \in F THEN nStatus[b] \cup {"FAILED_CHILD"}
                                                 ELSE nStatus[b]]
    BY <1>1, <1>4
<1> QED
    BY <1>2, <1>5, <1>8, <1>14, <1>15, <1>16, <1>17

-----------------------------------------------------------------------------
(* A block to be connected is in the index, above the tip. *)
LEMMA ToConnect ==
    ASSUME IInv, NEW b \in Block, MustConnect(b)
    PROVE  /\ pc = "switch" /\ Running
           /\ b \in mapBlockIndex /\ b \in OnRecord /\ b # None /\ Parent[b] = chainActive
           /\ pcoinsTip = chainActive /\ Connectable(b) => Valid(b)
<1>1. pc = "switch" /\ Running /\ Parent[b] = chainActive /\ b \in ChainTo(chainMostWork)
    BY DEF MustConnect, Running
<1>2. b \in mapBlockIndex
    BY <1>1, ChainsOfIndex
<1>3. b \in OnRecord /\ b # None
    BY <1>1, <1>2, BlockAssumption DEF IInv, IndexSound
<1>4. Connectable(b) => Valid(b)
    BY <1>1, ValidExtension DEF IInv, TipsSound
<1> QED
    BY <1>1, <1>2, <1>3, <1>4

(* The initial state. *)
LEMMA InitInv ==
    ASSUME Init
    PROVE  IInv
<1>1. TypeOK
    BY BlockAssumption DEF Init, TypeOK, PC, Flag, mapBlockIndex
<1>2. IndexSound /\ MarksSound /\ TipsSound /\ UndoSound
    BY DEF Init, IndexSound, MarksSound, TipsSound, UndoSound, OnRecord, Closed, Running, ChainTo
<1>3. CandidatesAreTheNotFailed /\ MostWorkSound /\ StepSound /\ BestChainIsActive
    BY DEF Init, CandidatesAreTheNotFailed, MostWorkSound, StepSound, BestChainIsActive, Running
<1> QED
    BY <1>1, <1>2, <1>3 DEF IInv

-----------------------------------------------------------------------------
(* Type correctness is preserved. *)
LEMMA TypeStep ==
    ASSUME IInv, [Next]_vars
    PROVE  TypeOK'
<1> USE DEF PC, mapBlockIndex
<1>0. TypeOK
    BY DEF IInv
<1>1. CASE UNCHANGED vars
    BY <1>0, <1>1 DEF TypeOK, vars, memory, disk
<1>2. ASSUME NEW b \in Block, AcceptBlock(b)
      PROVE  TypeOK'
    BY <1>0, <1>2 DEF TypeOK, AcceptBlock, Flag
<1>3. CASE FindMostWorkChain
    BY <1>0, <1>3, FindStep DEF TypeOK, disk, Flag
<1>4. CASE DisconnectTip
    <2>1. chainActive \in mapBlockIndex /\ Closed(mapBlockIndex)
        BY <1>0, <1>4, ChainsOfIndex DEF TypeOK, DisconnectTip, MustDisconnect, Running
    <2>2. Parent[chainActive] \in mapBlockIndex \cup {None}
        BY <2>1 DEF Closed
    <2> QED
        BY <1>0, <1>4, <2>2 DEF TypeOK, DisconnectTip, disk
<1>5. ASSUME NEW b \in Block, ConnectTip(b)
      PROVE  TypeOK'
    <2>1. b \in mapBlockIndex
        BY <1>5, ToConnect DEF ConnectTip
    <2> QED
        BY <1>0, <1>5, <2>1 DEF TypeOK, ConnectTip, Flag
<1>6. ASSUME NEW b \in Block, RejectTip(b)
      PROVE  TypeOK'
    BY <1>0, <1>6 DEF TypeOK, RejectTip, Flag
<1>7. ASSUME NEW b \in Block, RejectCorruptTip(b)
      PROVE  TypeOK'
    BY <1>0, <1>7 DEF TypeOK, RejectCorruptTip, memory, disk
<1>8. CASE Activated \/ ReadFails \/ WriteFails \/ WriteChainState
    BY <1>0, <1>8 DEF TypeOK, Activated, ReadFails, WriteFails, WriteChainState,
                      ReturnTrue, ReturnError, disk
<1>9. CASE Crash \/ AssertionFails \/ Shutdown
    <2>1. Forget
        BY <1>9 DEF Crash, AssertionFails, Shutdown
    <2>2. blocktree' = blocktree /\ coinsdb' \in {coinsdb, pcoinsTip}
        BY <1>9 DEF Crash, AssertionFails, Shutdown, disk
    <2>3. coinsdb' \in Block \cup {None}
        BY <1>0, <2>2 DEF TypeOK
    <2>4. /\ nStatus' \in [Block -> SUBSET Flag] /\ nSequenceId' \in [Block -> Nat]
          /\ nBlockSequenceId' \in Nat
        BY <2>1 DEF Forget
    <2> QED
        BY <1>0, <2>1, <2>2, <2>3, <2>4 DEF TypeOK, Forget
<1>10. CASE Start
    <2> DEFINE loaded == [b \in Block |->
                            IF b = Genesis /\ coinsdb = None THEN {"DATA"} ELSE blocktree[b]]
    <2>1. loaded \in [Block -> SUBSET Flag]
        BY <1>0 DEF TypeOK, Flag
    <2>2. nStatus' = loaded /\ blocktree' = loaded /\ setBlockIndexValid' = LoadedValid(loaded)
        BY <1>10 DEF Start
    <2>3. setBlockIndexValid' \subseteq mapBlockIndex'
        BY <2>2 DEF LoadedValid
    <2>4. coinsdb # None => coinsdb \in mapBlockIndex'
        BY <2>2 DEF IInv, TipsSound, OnRecord
    <2>5. /\ pc' \in PC
          /\ nSequenceId' \in [Block -> Nat] /\ nBlockSequenceId' \in Nat
          /\ address' \in Addresses
          /\ chainActive' = coinsdb /\ pcoinsTip' = coinsdb /\ chainMostWork' = None
          /\ UNCHANGED <<nLastWrite, started, returned, coinsdb>>
        BY <1>10 DEF Start
    <2> QED
        BY <1>0, <2>1, <2>2, <2>3, <2>4, <2>5 DEF TypeOK
<1> QED
    BY <1>1, <1>2, <1>3, <1>4, <1>5, <1>6, <1>7, <1>8, <1>9, <1>10 DEF Next, Activate

(* So is the agreement of the index in memory with that on disk. *)
LEMMA IndexStep ==
    ASSUME IInv, [Next]_vars
    PROVE  IndexSound'
<1> USE DEF mapBlockIndex, OnRecord, Running
<1>0. TypeOK /\ IndexSound
    BY DEF IInv
<1>1. CASE UNCHANGED vars
    BY <1>0, <1>1 DEF IndexSound, Closed, vars, memory, disk
<1>2. ASSUME NEW b \in Block, AcceptBlock(b)
      PROVE  IndexSound'
    <2>1. /\ nStatus' = [nStatus EXCEPT ![b] = {"DATA"}]
          /\ blocktree' = [blocktree EXCEPT ![b] = {"DATA"}]
          /\ nStatus[b] = {} /\ Parent[b] \in mapBlockIndex
          /\ pc = "idle" /\ pc' = "find"
        BY <1>2 DEF AcceptBlock
    <2>2. mapBlockIndex = OnRecord /\ mapBlockIndex' = OnRecord'
        BY <1>0, <2>1 DEF IndexSound, TypeOK
    <2>3. OnRecord' = OnRecord \cup {b} /\ Parent[b] \in OnRecord
        BY <1>0, <2>1, <2>2 DEF TypeOK
    <2>4. Closed(OnRecord)'
        BY <1>0, <2>3 DEF IndexSound, Closed
    <2> QED
        BY <1>0, <2>1, <2>2, <2>3, <2>4 DEF IndexSound, TypeOK
<1>3. CASE FindMostWorkChain
    <2>1. PICK F \in SUBSET mapBlockIndex :
            nStatus' = [b \in Block |-> IF b \in F THEN nStatus[b] \cup {"FAILED_CHILD"}
                                                    ELSE nStatus[b]]
        BY <1>3, FindStep
    <2>2. blocktree' = blocktree /\ pc = "find" /\ pc' = "switch"
        BY <1>3, FindStep DEF disk
    <2>3. mapBlockIndex' = mapBlockIndex
        BY <2>1
    <2> QED
        BY <1>0, <2>1, <2>2, <2>3 DEF IndexSound, Closed
<1>4. CASE DisconnectTip \/ Activated \/ ReadFails \/ WriteFails \/ WriteChainState
    <2>1. nStatus' = nStatus /\ blocktree' = blocktree /\ Running
        BY <1>4 DEF DisconnectTip, Activated, ReadFails, WriteFails, WriteChainState,
                    MustDisconnect, MustConnect, disk
    <2> QED
        BY <1>0, <2>1 DEF IndexSound, Closed
<1>5. ASSUME NEW b \in Block, ConnectTip(b) \/ RejectTip(b) \/ RejectCorruptTip(b)
      PROVE  IndexSound'
    <2>1. b \in mapBlockIndex /\ Running
        BY <1>5, ToConnect DEF ConnectTip, RejectTip, RejectCorruptTip
    <2>2. CASE ConnectTip(b)
        <3>1. /\ "DATA" \in nStatus'[b] /\ "DATA" \in blocktree'[b]
              /\ \A c \in Block \ {b} : nStatus'[c] = nStatus[c] /\ blocktree'[c] = blocktree[c]
              /\ "UNDO" \in nStatus'[b] <=> "UNDO" \in blocktree'[b]
            <4>1. CASE b = Genesis
                BY <1>0, <2>1, <2>2, <4>1 DEF IndexSound, ConnectTip
            <4>2. CASE b # Genesis /\ "UNDO" \in nStatus[b]
                BY <1>0, <2>1, <2>2, <4>2 DEF IndexSound, TypeOK, ConnectTip
            <4>3. CASE b # Genesis /\ "UNDO" \notin nStatus[b]
                <5>1. /\ nStatus' = [nStatus EXCEPT ![b] = @ \cup {"UNDO"}]
                      /\ blocktree' = [blocktree EXCEPT ![b] = nStatus[b] \cup {"UNDO"}]
                    BY <1>0, <2>2, <4>3 DEF TypeOK, ConnectTip
                <5> QED
                    BY <1>0, <2>1, <5>1 DEF IndexSound, TypeOK
            <4> QED
                BY <4>1, <4>2, <4>3
        <3>2. mapBlockIndex' = mapBlockIndex /\ OnRecord' = OnRecord
            BY <1>0, <2>1, <3>1 DEF IndexSound
        <3> QED
            BY <1>0, <2>1, <3>1, <3>2 DEF IndexSound, Closed
    <2>3. CASE RejectTip(b)
        <3>1. /\ nStatus' = [nStatus EXCEPT ![b] = @ \cup {"FAILED_VALID"}]
              /\ blocktree' = [blocktree EXCEPT ![b] = nStatus[b] \cup {"FAILED_VALID"}]
            BY <1>0, <2>3 DEF RejectTip, TypeOK
        <3>2. mapBlockIndex' = mapBlockIndex /\ OnRecord' = OnRecord
            BY <1>0, <2>1, <3>1 DEF IndexSound, TypeOK
        <3> QED
            BY <1>0, <2>1, <3>1, <3>2 DEF IndexSound, Closed, TypeOK
    <2>4. CASE RejectCorruptTip(b)
        BY <1>0, <2>1, <2>4 DEF IndexSound, Closed, RejectCorruptTip, memory, disk
    <2> QED
        BY <1>5, <2>2, <2>3, <2>4
<1>6. CASE Crash \/ AssertionFails \/ Shutdown
    BY <1>0, <1>6 DEF IndexSound, Closed, Crash, AssertionFails, Shutdown, Forget, disk
<1>7. CASE Start
    <2>1. CASE coinsdb # None
        <3>1. nStatus' = blocktree /\ blocktree' = blocktree
            BY <1>0, <1>7, <2>1 DEF Start, TypeOK
        <3>2. coinsdb \in OnRecord
            BY <2>1 DEF IInv, TipsSound
        <3> QED
            BY <1>0, <3>1, <3>2 DEF IndexSound, Closed
    <2>2. CASE coinsdb = None
        <3>1. /\ \A b \in Block \ {Genesis} : nStatus'[b] = blocktree[b] /\ blocktree'[b] = blocktree[b]
              /\ nStatus'[Genesis] = {"DATA"} /\ blocktree'[Genesis] = {"DATA"}
            BY <1>7, <2>2, BlockAssumption DEF Start
        <3>2. OnRecord' = OnRecord \cup {Genesis} /\ mapBlockIndex' = OnRecord'
            BY <3>1, BlockAssumption
        <3>3. Closed(OnRecord)'
            BY <1>0, <3>2, BlockAssumption, ParentAssumption DEF IndexSound, Closed
        <3>4. /\ \A b \in OnRecord' : "DATA" \in blocktree'[b]
              /\ \A b \in Block : nStatus'[b] = blocktree'[b]
            BY <1>0, <3>1, <3>2 DEF IndexSound
        <3> QED
            BY <3>2, <3>3, <3>4 DEF IndexSound
    <2> QED
        BY <2>1, <2>2
<1> QED
    BY <1>1, <1>2, <1>3, <1>4, <1>5, <1>6, <1>7 DEF Next, Activate

(* What each step adds to the record. *)
LEMMA RecordStep ==
    ASSUME IInv, [Next]_vars
    PROVE  /\ OnRecord \subseteq OnRecord'
           /\ \A b \in Block : AcceptBlock(b) => b \notin OnRecord /\ OnRecord' = OnRecord \cup {b}
           /\ Start => OnRecord' = OnRecord \cup (IF coinsdb = None THEN {Genesis} ELSE {})
           /\ Start \/ OnRecord' = OnRecord \/ \E b \in Block : AcceptBlock(b)
<1> USE DEF OnRecord
<1>0. TypeOK /\ IndexSound
    BY DEF IInv
<1>1. ASSUME NEW b \in Block, AcceptBlock(b)
      PROVE  b \notin OnRecord /\ OnRecord' = OnRecord \cup {b}
    <2>1. b \notin OnRecord
        BY <1>0, <1>1 DEF AcceptBlock, IndexSound, Running
    <2>2. blocktree' = [blocktree EXCEPT ![b] = {"DATA"}]
        BY <1>1 DEF AcceptBlock
    <2> QED
        BY <1>0, <2>1, <2>2 DEF TypeOK
<1>2. ASSUME Start
      PROVE  OnRecord' = OnRecord \cup (IF coinsdb = None THEN {Genesis} ELSE {})
    <2>1. blocktree' = [b \in Block |->
                          IF b = Genesis /\ coinsdb = None THEN {"DATA"} ELSE blocktree[b]]
        BY <1>2 DEF Start
    <2> QED
        BY <2>1, BlockAssumption
<1>3. ASSUME NEW b \in Block, ConnectTip(b) \/ RejectTip(b) \/ RejectCorruptTip(b)
      PROVE  OnRecord' = OnRecord
    <2>1. b \in OnRecord
        BY <1>3, ToConnect DEF ConnectTip, RejectTip, RejectCorruptTip
    <2>2. \A c \in Block \ {b} : blocktree'[c] = blocktree[c]
        BY <1>0, <1>3 DEF ConnectTip, RejectTip, RejectCorruptTip, disk, TypeOK
    <2>3. blocktree'[b] # {}
        BY <1>0, <1>3, <2>1 DEF ConnectTip, RejectTip, RejectCorruptTip, disk, TypeOK
    <2> QED
        BY <2>1, <2>2, <2>3
<1>4. ASSUME FindMostWorkChain
      PROVE  OnRecord' = OnRecord
    BY <1>4, FindStep DEF disk
<1>5. ASSUME DisconnectTip \/ Activated \/ ReadFails \/ WriteFails \/ WriteChainState
      PROVE  OnRecord' = OnRecord
    BY <1>5 DEF DisconnectTip, Activated, ReadFails, WriteFails, WriteChainState, disk
<1>6. ASSUME Crash \/ AssertionFails \/ Shutdown
      PROVE  OnRecord' = OnRecord
    BY <1>6 DEF Crash, AssertionFails, Shutdown, disk
<1>7. ASSUME UNCHANGED vars
      PROVE  OnRecord' = OnRecord
    BY <1>7 DEF vars, disk
<1>8. \/ Start \/ OnRecord' = OnRecord
      \/ \E b \in Block : AcceptBlock(b)
    BY <1>3, <1>4, <1>5, <1>6, <1>7 DEF Next, Activate
<1> QED
    BY <1>1, <1>2, <1>8

(* Only blocks that break a rule, or stand on one that does, are marked. *)
LEMMA MarksStep ==
    ASSUME IInv, [Next]_vars
    PROVE  MarksSound'
<1> USE DEF Fails
<1>0. TypeOK /\ MarksSound
    BY DEF IInv
<1>1. CASE UNCHANGED vars
    BY <1>0, <1>1 DEF MarksSound, vars, memory, disk
<1>2. ASSUME NEW b \in Block, AcceptBlock(b)
      PROVE  MarksSound'
    BY <1>0, <1>2 DEF MarksSound, AcceptBlock, TypeOK
<1>3. CASE FindMostWorkChain
    <2>1. PICK F \in SUBSET mapBlockIndex :
            /\ \A b \in F : Path[b] \cap Invalid # {}
            /\ nStatus' = [b \in Block |-> IF b \in F THEN nStatus[b] \cup {"FAILED_CHILD"}
                                                    ELSE nStatus[b]]
        BY <1>3, FindStep
    <2>2. blocktree' = blocktree
        BY <1>3, FindStep DEF disk
    <2> QED
        BY <1>0, <2>1, <2>2 DEF MarksSound
<1>4. CASE DisconnectTip \/ Activated \/ ReadFails \/ WriteFails \/ WriteChainState
    BY <1>0, <1>4 DEF MarksSound, DisconnectTip, Activated, ReadFails, WriteFails, WriteChainState, disk
<1>5. ASSUME NEW b \in Block, ConnectTip(b)
      PROVE  MarksSound'
    <2>1. \A c \in Block \ {b} : nStatus'[c] = nStatus[c] /\ blocktree'[c] = blocktree[c]
        BY <1>0, <1>5 DEF ConnectTip, TypeOK
    <2>2. /\ nStatus'[b] \subseteq nStatus[b] \cup {"UNDO"}
          /\ blocktree'[b] \subseteq blocktree[b] \cup nStatus[b] \cup {"UNDO"}
        BY <1>0, <1>5 DEF ConnectTip, TypeOK
    <2> QED
        BY <1>0, <2>1, <2>2 DEF MarksSound
<1>6. ASSUME NEW b \in Block, RejectTip(b)
      PROVE  MarksSound'
    <2>1. \A c \in Block \ {b} : nStatus'[c] = nStatus[c] /\ blocktree'[c] = blocktree[c]
        BY <1>0, <1>6 DEF RejectTip, TypeOK
    <2>2. b \in Path[b] /\ b \in Invalid
        BY <1>6, PathHolds DEF RejectTip
    <2> QED
        BY <1>0, <2>1, <2>2 DEF MarksSound
<1>7. ASSUME NEW b \in Block, RejectCorruptTip(b)
      PROVE  MarksSound'
    BY <1>0, <1>7 DEF MarksSound, RejectCorruptTip, memory, disk
<1>8. CASE Crash \/ AssertionFails \/ Shutdown
    <2>1. blocktree' = blocktree /\ \A b \in Block : nStatus'[b] = {}
        BY <1>8 DEF Crash, AssertionFails, Shutdown, Forget, disk
    <2> QED
        BY <1>0, <2>1 DEF MarksSound
<1>9. CASE Start
    <2>1. \A b \in Block : /\ nStatus'[b] \subseteq blocktree[b] \cup {"DATA"}
                           /\ blocktree'[b] \subseteq blocktree[b] \cup {"DATA"}
        BY <1>9 DEF Start
    <2> QED
        BY <1>0, <2>1 DEF MarksSound
<1> QED
    BY <1>1, <1>2, <1>3, <1>4, <1>5, <1>6, <1>7, <1>8, <1>9 DEF Next, Activate

(* The tips stay on valid blocks. *)
LEMMA TipsStep ==
    ASSUME IInv, [Next]_vars
    PROVE  TipsSound'
<1>0. TipsSound /\ OnRecord \subseteq OnRecord'
    BY RecordStep DEF IInv
<1>1. ASSUME /\ chainActive' \in {chainActive, pcoinsTip, coinsdb, None}
             /\ pcoinsTip' \in {chainActive, pcoinsTip, coinsdb, None}
             /\ coinsdb' \in {chainActive, pcoinsTip, coinsdb, None}
      PROVE  TipsSound'
    BY <1>0, <1>1 DEF TipsSound
<1>2. CASE UNCHANGED vars
    BY <1>1, <1>2 DEF vars, memory, disk
<1>3. ASSUME NEW b \in Block, AcceptBlock(b) \/ RejectTip(b) \/ RejectCorruptTip(b)
      PROVE  TipsSound'
    BY <1>1, <1>3 DEF AcceptBlock, RejectTip, RejectCorruptTip, memory, disk
<1>4. CASE FindMostWorkChain
    BY <1>1, <1>4, FindStep DEF disk
<1>5. CASE Activated \/ ReadFails \/ WriteFails \/ WriteChainState
    BY <1>1, <1>5 DEF Activated, ReadFails, WriteFails, WriteChainState, disk
<1>6. CASE Crash \/ AssertionFails \/ Shutdown \/ Start
    BY <1>1, <1>6 DEF Crash, AssertionFails, Shutdown, Start, Forget, disk
<1>7. CASE DisconnectTip
    <2>1. /\ pcoinsTip = chainActive /\ chainActive # None /\ pc = "switch"
          /\ pcoinsTip' = Parent[chainActive] /\ UNCHANGED <<chainActive, coinsdb>>
        BY <1>7 DEF DisconnectTip, MustDisconnect, disk
    <2>2. chainActive \in OnRecord /\ chainActive \in Block /\ Valid(chainActive)
        BY <1>0, <2>1 DEF TipsSound, OnRecord
    <2>3. Parent[chainActive] # None => Parent[chainActive] \in OnRecord /\ Valid(Parent[chainActive])
        BY <2>2, ValidPrefix DEF IInv, IndexSound, Closed
    <2> QED
        BY <1>0, <2>1, <2>3 DEF TipsSound
<1>8. ASSUME NEW b \in Block, ConnectTip(b)
      PROVE  TipsSound'
    <2>1. b \in OnRecord /\ Valid(b)
        BY <1>8, ToConnect DEF ConnectTip
    <2>2. pcoinsTip' = b /\ UNCHANGED <<chainActive, coinsdb>>
        BY <1>8 DEF ConnectTip
    <2> QED
        BY <1>0, <2>1, <2>2 DEF TipsSound
<1> QED
    BY <1>2, <1>3, <1>4, <1>5, <1>6, <1>7, <1>8 DEF Next, Activate

(* Undo data, once on record, stays there. *)
LEMMA UndoStays ==
    ASSUME IInv, [Next]_vars, NEW c \in Block \ {Genesis}, "UNDO" \in blocktree[c]
    PROVE  "UNDO" \in blocktree'[c]
<1>0. TypeOK /\ IndexSound
    BY DEF IInv
<1>1. CASE blocktree' = blocktree
    BY <1>1
<1>2. ASSUME NEW b \in Block, AcceptBlock(b)
      PROVE  "UNDO" \in blocktree'[c]
    <2>1. c # b
        BY <1>2, RecordStep DEF OnRecord
    <2> QED
        BY <1>2, <2>1 DEF AcceptBlock
<1>3. ASSUME NEW b \in Block, ConnectTip(b) \/ RejectTip(b)
      PROVE  "UNDO" \in blocktree'[c]
    <2>1. Running
        BY <1>3, ToConnect DEF ConnectTip, RejectTip
    <2>2. "UNDO" \in nStatus[c]
        BY <1>0, <2>1 DEF IndexSound
    <2> QED
        BY <1>0, <1>3, <2>2 DEF ConnectTip, RejectTip, TypeOK
<1>4. CASE Start
    BY <1>4 DEF Start
<1>5. ASSUME \/ FindMostWorkChain \/ DisconnectTip \/ Activated \/ ReadFails \/ WriteFails
             \/ WriteChainState \/ Crash \/ AssertionFails \/ Shutdown \/ UNCHANGED vars
             \/ \E b \in Block : RejectCorruptTip(b)
      PROVE  blocktree' = blocktree
    BY <1>5 DEF FindMostWorkChain, DisconnectTip, Activated, ReadFails, WriteFails, WriteChainState,
                Crash, AssertionFails, Shutdown, RejectCorruptTip, vars, disk
<1> QED
    BY <1>1, <1>2, <1>3, <1>4, <1>5 DEF Next, Activate

(* The chains of the cache and of the database keep their undo data. *)
LEMMA UndoStep ==
    ASSUME IInv, [Next]_vars
    PROVE  UndoSound'
<1>0. TypeOK /\ TipsSound /\ UndoSound
    BY DEF IInv
<1> DEFINE Kept(b) == \A c \in ChainTo(b) : c # Genesis => "UNDO" \in blocktree'[c]
<1>1. \A b \in {pcoinsTip, coinsdb} : ChainTo(b) \subseteq Block
    BY <1>0, PathHolds DEF ChainTo, TipsSound, OnRecord
<1>2. Kept(pcoinsTip) /\ Kept(coinsdb) /\ Kept(None)
    BY <1>0, <1>1, UndoStays DEF UndoSound, ChainTo
<1>3. ASSUME Kept(pcoinsTip'), Kept(coinsdb')
      PROVE  UndoSound'
    BY <1>3 DEF UndoSound
<1>4. ASSUME pcoinsTip' \in {pcoinsTip, coinsdb, None}, coinsdb' \in {pcoinsTip, coinsdb, None}
      PROVE  UndoSound'
    <2>1. Kept(pcoinsTip') /\ Kept(coinsdb')
        BY <1>2, <1>4
    <2> QED
        BY <1>3, <2>1
<1>5. CASE UNCHANGED vars
    BY <1>4, <1>5 DEF vars, memory, disk
<1>6. ASSUME NEW b \in Block, AcceptBlock(b) \/ RejectTip(b) \/ RejectCorruptTip(b)
      PROVE  UndoSound'
    BY <1>4, <1>6 DEF AcceptBlock, RejectTip, RejectCorruptTip, memory, disk
<1>7. CASE FindMostWorkChain \/ Activated \/ ReadFails \/ WriteFails \/ WriteChainState
    BY <1>4, <1>7 DEF FindMostWorkChain, Activated, ReadFails, WriteFails, WriteChainState, disk
<1>8. CASE Crash \/ AssertionFails \/ Shutdown \/ Start
    BY <1>4, <1>8 DEF Crash, AssertionFails, Shutdown, Start, Forget, disk
<1>9. CASE DisconnectTip
    <2>1. /\ pcoinsTip = chainActive /\ chainActive # None
          /\ pcoinsTip' = Parent[pcoinsTip] /\ coinsdb' = coinsdb
        BY <1>9 DEF DisconnectTip, MustDisconnect, disk
    <2>2. pcoinsTip \in Block /\ pcoinsTip # None
        BY <1>0, <2>1 DEF TipsSound, OnRecord
    <2>3. ChainTo(pcoinsTip) = {pcoinsTip} \cup ChainTo(Parent[pcoinsTip])
        BY <2>2, PathStep DEF ChainTo
    <2>4. Kept(pcoinsTip') /\ Kept(coinsdb')
        BY <1>2, <2>1, <2>3
    <2> QED
        BY <1>3, <2>4
<1>10. ASSUME NEW b \in Block, ConnectTip(b)
       PROVE  UndoSound'
    <2>1. /\ b # None /\ Running /\ Parent[b] = pcoinsTip
          /\ pcoinsTip' = b /\ coinsdb' = coinsdb
        BY <1>10, ToConnect DEF ConnectTip
    <2>2. ChainTo(b) = {b} \cup ChainTo(pcoinsTip)
        BY <2>1, PathStep DEF ChainTo
    <2>3. b # Genesis => "UNDO" \in blocktree'[b]
        <3>1. "UNDO" \in nStatus[b] => "UNDO" \in blocktree[b]
            BY <2>1 DEF IInv, IndexSound
        <3> QED
            BY <1>0, <1>10, <3>1 DEF ConnectTip, TypeOK
    <2>4. Kept(pcoinsTip') /\ Kept(coinsdb')
        BY <1>2, <2>1, <2>2, <2>3
    <2> QED
        BY <1>3, <2>4
<1> QED
    BY <1>5, <1>6, <1>7, <1>8, <1>9, <1>10 DEF Next, Activate

(* The candidates stay exactly the blocks that are not marked. *)
LEMMA CandidatesStep ==
    ASSUME IInv, [Next]_vars
    PROVE  CandidatesAreTheNotFailed'
<1> USE DEF mapBlockIndex, Failed
<1>0. TypeOK /\ CandidatesAreTheNotFailed
    BY DEF IInv
<1>1. ASSUME Running, UNCHANGED <<nStatus, setBlockIndexValid>>
      PROVE  CandidatesAreTheNotFailed'
    BY <1>0, <1>1 DEF CandidatesAreTheNotFailed
<1>2. CASE UNCHANGED vars
    BY <1>0, <1>2 DEF CandidatesAreTheNotFailed, Running, vars, memory
<1>3. ASSUME NEW b \in Block, AcceptBlock(b)
      PROVE  CandidatesAreTheNotFailed'
    <2>1. nStatus' = [nStatus EXCEPT ![b] = {"DATA"}] /\ setBlockIndexValid' = setBlockIndexValid \cup {b}
        BY <1>3 DEF AcceptBlock
    <2>2. setBlockIndexValid = {c \in mapBlockIndex : ~Failed(c)}
        BY <1>0, <1>3 DEF CandidatesAreTheNotFailed, AcceptBlock, Running
    <2> QED
        BY <1>0, <2>1, <2>2 DEF CandidatesAreTheNotFailed, TypeOK
<1>4. CASE FindMostWorkChain
    <2>1. PICK F \in SUBSET mapBlockIndex :
            /\ setBlockIndexValid' = setBlockIndexValid \ F
            /\ nStatus' = [b \in Block |-> IF b \in F THEN nStatus[b] \cup {"FAILED_CHILD"}
                                                    ELSE nStatus[b]]
        BY <1>4, FindStep
    <2>2. setBlockIndexValid = {c \in mapBlockIndex : ~Failed(c)}
        BY <1>0, <1>4 DEF CandidatesAreTheNotFailed, FindMostWorkChain, Running
    <2> QED
        BY <2>1, <2>2 DEF CandidatesAreTheNotFailed
<1>5. CASE DisconnectTip \/ Activated \/ ReadFails \/ WriteFails \/ WriteChainState
    BY <1>1, <1>5 DEF DisconnectTip, Activated, ReadFails, WriteFails, WriteChainState,
                      MustDisconnect, MustConnect, Running
<1>6. ASSUME NEW b \in Block, ConnectTip(b)
      PROVE  CandidatesAreTheNotFailed'
    <2>1. b \in mapBlockIndex /\ Running
        BY <1>6, ToConnect DEF ConnectTip
    <2>2. /\ \A c \in Block \ {b} : nStatus'[c] = nStatus[c]
          /\ nStatus'[b] \in {nStatus[b], nStatus[b] \cup {"UNDO"}}
          /\ setBlockIndexValid' = setBlockIndexValid
        BY <1>0, <1>6 DEF ConnectTip, TypeOK
    <2>3. setBlockIndexValid = {c \in mapBlockIndex : ~Failed(c)}
        BY <1>0, <2>1 DEF CandidatesAreTheNotFailed
    <2>4. \A c \in Block : Failed(c)' <=> Failed(c)
        BY <2>2
    <2>5. mapBlockIndex' = mapBlockIndex
        BY <2>1, <2>2
    <2> QED
        BY <2>2, <2>3, <2>4, <2>5 DEF CandidatesAreTheNotFailed
<1>7. ASSUME NEW b \in Block, RejectTip(b)
      PROVE  CandidatesAreTheNotFailed'
    <2>1. /\ nStatus' = [nStatus EXCEPT ![b] = @ \cup {"FAILED_VALID"}]
          /\ setBlockIndexValid' = setBlockIndexValid \ {b}
        BY <1>7 DEF RejectTip
    <2>2. setBlockIndexValid = {c \in mapBlockIndex : ~Failed(c)}
        BY <1>0, <1>7 DEF CandidatesAreTheNotFailed, RejectTip, MustConnect, Running
    <2> QED
        BY <1>0, <2>1, <2>2 DEF CandidatesAreTheNotFailed, TypeOK
<1>8. ASSUME NEW b \in Block, RejectCorruptTip(b)
      PROVE  CandidatesAreTheNotFailed'
    BY <1>1, <1>8 DEF RejectCorruptTip, MustConnect, Running, memory
<1>9. CASE Crash \/ AssertionFails \/ Shutdown
    BY <1>9 DEF CandidatesAreTheNotFailed, Crash, AssertionFails, Shutdown, Forget, Running
<1>10. CASE Start
    <2> DEFINE loaded == [b \in Block |->
                            IF b = Genesis /\ coinsdb = None THEN {"DATA"} ELSE blocktree[b]]
    <2>1. nStatus' = loaded /\ setBlockIndexValid' = LoadedValid(loaded)
        BY <1>10 DEF Start
    <2> QED
        BY <2>1 DEF CandidatesAreTheNotFailed, LoadedValid
<1> QED
    BY <1>2, <1>3, <1>4, <1>5, <1>6, <1>7, <1>8, <1>9, <1>10 DEF Next, Activate

(* chainMostWork stays as good as any valid chain. *)
LEMMA MostWorkStep ==
    ASSUME IInv, [Next]_vars
    PROVE  MostWorkSound'
<1>0. TypeOK /\ MostWorkSound
    BY DEF IInv
<1>1. ASSUME pc \in {"switch", "write"}, mapBlockIndex' = mapBlockIndex,
             UNCHANGED <<chainMostWork, nSequenceId, address>>
      PROVE  MostWorkSound'
    BY <1>0, <1>1 DEF MostWorkSound, Better
<1>2. ASSUME pc' \notin {"switch", "write"}
      PROVE  MostWorkSound'
    BY <1>2 DEF MostWorkSound
<1>3. CASE UNCHANGED vars
    BY <1>0, <1>3 DEF MostWorkSound, Better, mapBlockIndex, vars, memory
<1>4. CASE FindMostWorkChain
    <2>1. PICK F \in SUBSET mapBlockIndex :
            nStatus' = [b \in Block |-> IF b \in F THEN nStatus[b] \cup {"FAILED_CHILD"}
                                                    ELSE nStatus[b]]
        BY <1>4, FindStep
    <2>2. mapBlockIndex' = mapBlockIndex
        BY <2>1 DEF mapBlockIndex
    <2>3. /\ chainMostWork' \in mapBlockIndex
          /\ \A b \in mapBlockIndex : Valid(b) => ~Better(b, chainMostWork')
          /\ UNCHANGED <<nSequenceId, address>>
        BY <1>4, FindStep
    <2>4. chainMostWork' # None
        BY <2>3, BlockAssumption DEF mapBlockIndex
    <2> QED
        BY <2>2, <2>3, <2>4 DEF MostWorkSound, Better
<1>5. CASE DisconnectTip \/ WriteChainState
    BY <1>1, <1>5 DEF DisconnectTip, WriteChainState, MustDisconnect, mapBlockIndex
<1>6. ASSUME NEW b \in Block, ConnectTip(b)
      PROVE  MostWorkSound'
    <2>1. b \in mapBlockIndex /\ pc = "switch"
        BY <1>6, ToConnect DEF ConnectTip
    <2>2. /\ nStatus' \in {nStatus, [nStatus EXCEPT ![b] = @ \cup {"UNDO"}]}
          /\ UNCHANGED <<chainMostWork, nSequenceId, address>>
        BY <1>6 DEF ConnectTip
    <2>3. mapBlockIndex' = mapBlockIndex
        BY <1>0, <2>1, <2>2 DEF TypeOK, mapBlockIndex
    <2> QED
        BY <1>1, <2>1, <2>2, <2>3
<1>7. ASSUME NEW b \in Block, AcceptBlock(b) \/ RejectTip(b) \/ RejectCorruptTip(b)
      PROVE  MostWorkSound'
    BY <1>2, <1>7 DEF AcceptBlock, RejectTip, RejectCorruptTip
<1>8. CASE Activated \/ ReadFails \/ WriteFails
    BY <1>2, <1>8 DEF Activated, ReadFails, WriteFails, ReturnTrue, ReturnError
<1>9. CASE Crash \/ AssertionFails \/ Shutdown \/ Start
    BY <1>2, <1>9 DEF Crash, AssertionFails, Shutdown, Start, Forget
<1> QED
    BY <1>3, <1>4, <1>5, <1>6, <1>7, <1>8, <1>9 DEF Next, Activate

(* pcoinsTip and chainActive part by one block, and only until the write. *)
LEMMA StepStep ==
    ASSUME IInv, [Next]_vars
    PROVE  StepSound'
<1>0. TypeOK /\ StepSound /\ IndexSound /\ TipsSound
    BY DEF IInv
<1>1. ASSUME pc' \notin {"write", "down", "broken"}
      PROVE  StepSound'
    BY <1>1 DEF StepSound, Running
<1>2. ASSUME pc' = "down" \/ pc' = "broken", chainActive' = None
      PROVE  StepSound'
    BY <1>2 DEF StepSound, Running
<1>3. CASE UNCHANGED vars
    BY <1>0, <1>3 DEF StepSound, Running, vars, memory
<1>4. CASE DisconnectTip
    <2>1. /\ chainActive' # None /\ pcoinsTip' = Parent[chainActive'] /\ pc' = "write"
        BY <1>4 DEF DisconnectTip, MustDisconnect
    <2> QED
        BY <2>1 DEF StepSound, Running
<1>5. ASSUME NEW b \in Block, ConnectTip(b)
      PROVE  StepSound'
    <2>1. b # None /\ Parent[b] = chainActive
        BY <1>5, ToConnect DEF ConnectTip
    <2>2. pcoinsTip' = b /\ chainActive' = chainActive /\ pc' = "write"
        BY <1>5 DEF ConnectTip
    <2> QED
        BY <2>1, <2>2 DEF StepSound, Running
<1>6. CASE Crash \/ AssertionFails \/ Shutdown
    BY <1>2, <1>6 DEF Crash, AssertionFails, Shutdown, Forget
<1>7. CASE Start
    <2>1. pc' = "find" \/ (pc' = "broken" /\ chainActive' = None)
        BY <1>7 DEF Start
    <2> QED
        BY <1>1, <1>2, <2>1
<1>8. ASSUME NEW b \in Block, AcceptBlock(b) \/ RejectTip(b) \/ RejectCorruptTip(b)
      PROVE  StepSound'
    BY <1>1, <1>8 DEF AcceptBlock, RejectTip, RejectCorruptTip
<1>9. CASE FindMostWorkChain
    BY <1>1, <1>9, FindStep
<1>10. CASE Activated \/ ReadFails \/ WriteFails \/ WriteChainState
    BY <1>1, <1>10 DEF Activated, ReadFails, WriteFails, WriteChainState, ReturnTrue, ReturnError
<1> QED
    BY <1>3, <1>4, <1>5, <1>6, <1>7, <1>8, <1>9, <1>10 DEF Next, Activate

(* When ActivateBestChain returns, chainActive is chainMostWork. *)
LEMMA BestChainStep ==
    ASSUME IInv, [Next]_vars
    PROVE  BestChainIsActive'
<1>0. TypeOK /\ TipsSound /\ MostWorkSound /\ BestChainIsActive
    BY DEF IInv
<1>1. ASSUME pc' # "idle" \/ ~returned'
      PROVE  BestChainIsActive'
    BY <1>1 DEF BestChainIsActive
<1>2. CASE UNCHANGED vars
    BY <1>0, <1>2 DEF BestChainIsActive, Better, mapBlockIndex, vars, memory
<1>3. CASE Activated
    <2>1. /\ pc = "switch" /\ chainActive # None
          /\ chainMostWork \in ChainTo(chainActive) /\ chainActive \in ChainTo(chainMostWork)
          /\ UNCHANGED <<nStatus, nSequenceId, address, chainActive>>
        BY <1>3 DEF Activated
    <2>2. chainMostWork # None /\ \A b \in mapBlockIndex : Valid(b) => ~Better(b, chainMostWork)
        BY <1>0, <2>1 DEF MostWorkSound
    <2>3. chainActive \in Block /\ chainMostWork \in Block
        BY <1>0, <2>1, <2>2 DEF TypeOK, mapBlockIndex
    <2>4. chainActive = chainMostWork
        BY <2>1, <2>2, <2>3, PathAntisymmetric DEF ChainTo
    <2>5. Valid(chainActive)
        BY <1>0, <2>1 DEF TipsSound
    <2>6. \A b \in mapBlockIndex : Valid(b) => ~Better(b, chainActive)
        BY <2>2, <2>4
    <2>7. mapBlockIndex' = mapBlockIndex /\ \A b \in Block : Better(b, chainActive)' <=> Better(b, chainActive)
        BY <2>1 DEF Better, mapBlockIndex
    <2> QED
        BY <2>1, <2>5, <2>6, <2>7 DEF BestChainIsActive, mapBlockIndex
<1>4. ASSUME NEW b \in Block, AcceptBlock(b) \/ ConnectTip(b) \/ RejectTip(b) \/ RejectCorruptTip(b)
      PROVE  BestChainIsActive'
    BY <1>1, <1>4 DEF AcceptBlock, ConnectTip, RejectTip, RejectCorruptTip
<1>5. CASE FindMostWorkChain
    BY <1>1, <1>5, FindStep
<1>6. CASE DisconnectTip \/ ReadFails \/ WriteFails \/ WriteChainState
    BY <1>1, <1>6 DEF DisconnectTip, ReadFails, WriteFails, WriteChainState, ReturnError
<1>7. CASE Crash \/ AssertionFails \/ Shutdown \/ Start
    BY <1>1, <1>7 DEF Crash, AssertionFails, Shutdown, Start, Forget
<1> QED
    BY <1>2, <1>3, <1>4, <1>5, <1>6, <1>7 DEF Next, Activate

-----------------------------------------------------------------------------
(* The invariant holds in every state the node reaches, whatever fails and  *)
(* whenever it is killed.                                                   *)
THEOREM Invariance == Spec => []IInv
<1>1. Init => IInv
    BY InitInv
<1>2. IInv /\ [Next]_vars => IInv'
    <2> SUFFICES ASSUME IInv, [Next]_vars
                 PROVE  IInv'
        OBVIOUS
    <2>1. TypeOK' /\ IndexSound' /\ MarksSound'
        BY TypeStep, IndexStep, MarksStep
    <2>2. TipsSound' /\ UndoSound' /\ CandidatesAreTheNotFailed'
        BY TipsStep, UndoStep, CandidatesStep
    <2>3. MostWorkSound' /\ StepSound' /\ BestChainIsActive'
        BY MostWorkStep, StepStep, BestChainStep
    <2> QED
        BY <2>1, <2>2, <2>3 DEF IInv
<1> QED
    BY <1>1, <1>2, PTL DEF Spec

(* What the state holds is of the right type: the candidates and the tips   *)
(* are blocks of the index.                                                 *)
THEOREM TypeCorrect == Spec => []TypeOK
<1>1. IInv => TypeOK
    BY DEF IInv
<1> QED
    BY <1>1, Invariance, PTL

(* When ActivateBestChain has returned true, the active chain is valid and  *)
(* no valid chain of known blocks is better.                                *)
THEOREM BestChainCorrect == Spec => []BestChainIsActive
<1>1. IInv => BestChainIsActive
    BY DEF IInv
<1> QED
    BY <1>1, Invariance, PTL

(* setBlockIndexValid is exactly the set of known blocks that are not       *)
(* marked failed, after every step and after every start.                   *)
THEOREM CandidatesCorrect == Spec => []CandidatesAreTheNotFailed
<1>1. IInv => CandidatesAreTheNotFailed
    BY DEF IInv
<1> QED
    BY <1>1, Invariance, PTL

(* InvalidBlockFound and FindMostWorkChain only ever mark blocks that break *)
(* a rule or stand on one that does, and none of the active chain.          *)
THEOREM FailedCorrect == Spec => []FailedAreInvalid
<1>1. IInv => FailedAreInvalid
    <2> SUFFICES ASSUME IInv, NEW b \in Block,
                        (nStatus[b] \cup blocktree[b]) \cap Fails # {}
                 PROVE  Path[b] \cap Invalid # {} /\ b \notin ChainTo(chainActive)
        BY DEF FailedAreInvalid, Fails
    <2>1. Path[b] \cap Invalid # {}
        BY DEF IInv, MarksSound
    <2>2. b \notin ChainTo(chainActive)
        <3> SUFFICES ASSUME chainActive # None, b \in Path[chainActive]
                     PROVE  FALSE
            BY DEF ChainTo
        <3>1. chainActive \in Block /\ Valid(chainActive)
            BY DEF IInv, TipsSound, OnRecord
        <3>2. Valid(b)
            BY <3>1, ValidPrefix
        <3> QED
            BY <2>1, <3>2, ValidPrefix
    <2> QED
        BY <2>1, <2>2
<1> QED
    BY <1>1, Invariance, PTL

(* Whenever the process dies, the block index on disk holds the whole chain *)
(* of the coin database, unmarked, with the undo data that DisconnectTip    *)
(* will ask for.                                                            *)
THEOREM RecoverableCorrect == Spec => []CoinsRecoverable
<1>1. IInv => CoinsRecoverable
    <2> SUFFICES ASSUME IInv, NEW b \in ChainTo(coinsdb)
                 PROVE  /\ "DATA" \in blocktree[b] /\ blocktree[b] \cap Fails = {}
                        /\ b # Genesis => "UNDO" \in blocktree[b]
        BY DEF CoinsRecoverable, Fails
    <2>1. coinsdb # None /\ b \in Path[coinsdb]
        BY DEF ChainTo
    <2>2. coinsdb \in OnRecord /\ coinsdb \in Block /\ Valid(coinsdb)
        BY <2>1 DEF IInv, TipsSound, OnRecord
    <2>3. b \in OnRecord
        BY <2>1, <2>2, ClosedHoldsPaths DEF IInv, IndexSound, OnRecord
    <2>4. Path[b] \cap Invalid = {}
        BY <2>1, <2>2, ValidPrefix, PathHolds
    <2>5. blocktree[b] \cap Fails = {}
        BY <2>3, <2>4 DEF IInv, MarksSound, OnRecord
    <2> QED
        BY <2>3, <2>5 DEF IInv, IndexSound, UndoSound
<1> QED
    BY <1>1, Invariance, PTL

-----------------------------------------------------------------------------
(* BestChain sees the same tree. *)
LEMMA SameTree == \A b \in Block : Promise!Valid(b) <=> Valid(b)
BY DEF Promise!Valid, Promise!Path, Promise!Connectable, Promise!Closed,
       Valid, Path, Connectable, Closed

(* Every step of the node is a step of BestChain, or none. *)
LEMMA PromiseStep ==
    ASSUME IInv, IInv', [Next]_vars
    PROVE  [Promise!Next]_(Promise!vars)
<1> DEFINE resting == pc = "idle" /\ returned
           Stutters == OnRecord' = OnRecord /\ chainActive' = chainActive /\ resting' = resting
<1>0. TypeOK /\ IndexSound /\ TipsSound /\ StepSound
    BY DEF IInv
<1>1. ASSUME Stutters
      PROVE  [Promise!Next]_(Promise!vars)
    BY <1>1 DEF Promise!vars, OnRecord
<1>2. CASE UNCHANGED vars
    BY <1>1, <1>2 DEF OnRecord, vars, memory, disk
<1>3. ASSUME NEW b \in Block, AcceptBlock(b)
      PROVE  Promise!Learn(b)
    <2>1. Parent[b] \in OnRecord
        BY <1>0, <1>3 DEF AcceptBlock, IndexSound, Running
    <2>2. b \notin OnRecord /\ OnRecord' = OnRecord \cup {b}
        BY <1>3, RecordStep
    <2>3. pc' = "find" /\ chainActive' = chainActive
        BY <1>3 DEF AcceptBlock
    <2> QED
        BY <2>1, <2>2, <2>3 DEF Promise!Learn, OnRecord
<1>4. ASSUME \/ FindMostWorkChain \/ DisconnectTip
             \/ \E b \in Block : ConnectTip(b) \/ RejectTip(b) \/ RejectCorruptTip(b)
      PROVE  Stutters
    <2>1. OnRecord' = OnRecord
        <3>1. pc \in {"find", "switch"}
            BY <1>4, ToConnect
               DEF FindMostWorkChain, DisconnectTip, MustDisconnect, ConnectTip, RejectTip, RejectCorruptTip
        <3> QED
            BY <3>1, RecordStep DEF Start, AcceptBlock
    <2>2. chainActive' = chainActive /\ pc # "idle" /\ pc' # "idle"
        BY <1>4, FindStep
           DEF DisconnectTip, MustDisconnect, MustConnect, ConnectTip, RejectTip, RejectCorruptTip, memory
    <2> QED
        BY <2>1, <2>2
<1>5. CASE WriteChainState
    <2>1. /\ OnRecord' = OnRecord /\ chainActive' = pcoinsTip /\ pc = "write" /\ pc' = "switch"
        BY <1>5 DEF WriteChainState, OnRecord
    <2>2. CASE chainActive # None /\ pcoinsTip = Parent[chainActive]
        <3>1. Promise!Retreat
            BY <2>1, <2>2 DEF Promise!Retreat, OnRecord
        <3> QED
            BY <3>1 DEF Promise!Next
    <2>3. CASE pcoinsTip # None /\ Parent[pcoinsTip] = chainActive
        <3>1. pcoinsTip \in OnRecord /\ pcoinsTip \in Block /\ Promise!Valid(pcoinsTip)
            BY <1>0, <2>3, SameTree DEF TipsSound, OnRecord
        <3>2. Promise!Extend(pcoinsTip)
            BY <2>1, <2>3, <3>1 DEF Promise!Extend, OnRecord
        <3> QED
            BY <3>1, <3>2 DEF Promise!Next
    <2> QED
        BY <1>0, <2>1, <2>2, <2>3 DEF StepSound
<1>6. ASSUME Activated
      PROVE  Promise!Rest
    <2>1. /\ OnRecord' = OnRecord /\ chainActive' = chainActive /\ pc' = "idle" /\ returned' = TRUE
          /\ Running /\ nStatus' = nStatus
        BY <1>6 DEF Activated, ReturnTrue, OnRecord, Running, disk
    <2>2. /\ chainActive # None /\ Valid(chainActive)
          /\ \A b \in mapBlockIndex' : Valid(b) => ~Better(b, chainActive)'
        BY <2>1 DEF IInv, BestChainIsActive
    <2>3. mapBlockIndex' = OnRecord
        BY <1>0, <2>1 DEF IndexSound, mapBlockIndex
    <2>4. chainActive \in Block
        BY <1>0, <2>2 DEF TipsSound, OnRecord
    <2>5. \A b \in OnRecord : Promise!Valid(b) => ChainWork[b] <= ChainWork[chainActive]
        <3>1. \A b \in OnRecord : Valid(b) => ~(ChainWork[b] > ChainWork[chainActive])
            BY <2>1, <2>2, <2>3 DEF Better
        <3>2. \A b \in Block : ChainWork[b] \in Nat
            BY WorkAssumption
        <3> QED
            BY <2>4, <3>1, <3>2, SameTree DEF OnRecord
    <2>6. Promise!Valid(chainActive)
        BY <2>2, <2>4, SameTree
    <2> QED
        BY <2>1, <2>2, <2>5, <2>6 DEF Promise!Rest, OnRecord
<1>7. ASSUME ReadFails \/ WriteFails
      PROVE  Promise!GiveUp
    BY <1>7 DEF ReadFails, WriteFails, ReturnError, disk, Promise!GiveUp
<1>8. ASSUME Crash \/ AssertionFails \/ Shutdown
      PROVE  Promise!Stop
    BY <1>8 DEF Crash, AssertionFails, Shutdown, Forget, disk, Promise!Stop
<1>9. CASE Start
    <2>1. /\ pc = "down" /\ pc' \in {"find", "broken"} /\ chainActive = None /\ chainActive' = coinsdb
          /\ OnRecord' = OnRecord \cup (IF coinsdb = None THEN {Genesis} ELSE {})
        BY <1>0, <1>9, RecordStep DEF Start, StepSound, Running
    <2>2. CASE coinsdb # None
        <3>1. coinsdb \in OnRecord /\ coinsdb \in Block /\ Promise!Valid(coinsdb)
            BY <1>0, <2>2, SameTree DEF TipsSound, OnRecord
        <3>2. Promise!Start(coinsdb)
            BY <2>1, <2>2, <3>1 DEF Promise!Start, OnRecord
        <3> QED
            BY <3>1, <3>2 DEF Promise!Next
    <2>3. CASE coinsdb = None /\ Genesis \notin OnRecord
        <3>1. Promise!Learn(Genesis)
            BY <2>1, <2>3, BlockAssumption, ParentAssumption DEF Promise!Learn, OnRecord
        <3> QED
            BY <3>1, BlockAssumption DEF Promise!Next
    <2>4. CASE coinsdb = None /\ Genesis \in OnRecord
        BY <1>1, <2>1, <2>4
    <2> QED
        BY <2>2, <2>3, <2>4
<1> QED
    BY <1>1, <1>2, <1>3, <1>4, <1>5, <1>6, <1>7, <1>8, <1>9 DEF Next, Activate, Promise!Next

(* The node keeps the promise of BestChain: it forgets no block, moves the  *)
(* tip along the tree and over valid chains only, and rests only on a chain *)
(* with the most work.                                                      *)
THEOREM ImplementsCorrect == Spec => ImplementsBestChain
<1>1. Init => Promise!Init
    BY DEF Init, Promise!Init
<1>2. IInv /\ IInv' /\ [Next]_vars => [Promise!Next]_(Promise!vars)
    BY PromiseStep
<1> QED
    BY <1>1, <1>2, Invariance, PTL DEF Spec, ImplementsBestChain, Promise!Spec
=============================================================================
