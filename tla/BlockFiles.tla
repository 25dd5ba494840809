----------------------------- MODULE BlockFiles -----------------------------
(***************************************************************************)
(* Where blocks and their undo data are kept (src/main.cpp): the numbered  *)
(* blk and rev files, the block index with the sizes of the files, and the *)
(* coin database's best block, under kills of the process and losses of    *)
(* power.                                                                  *)
(*                                                                         *)
(* A kill loses memory only.  A loss of power also loses what was written  *)
(* and not synced: any part of the files that was not committed, and any   *)
(* number of the last writes to either LevelDB database since its last     *)
(* synced write.  The coin database is never synced by this code.  What a  *)
(* database shows when it is opened again is on disk: recovery writes and  *)
(* syncs a table.                                                          *)
(*                                                                         *)
(* Abstracted: which chain is best (ChainState) is a choice, so any child  *)
(* of the tip may be connected and the tip disconnected; sizes are small   *)
(* numbers; pre-allocation only matters by failing for lack of space.      *)
(***************************************************************************)
EXTENDS Naturals, FiniteSets

CONSTANTS
    Block, Genesis, Parent,
    Size,           \* what FindBlockPos is asked for, of each block
    UndoSize,       \* likewise FindUndoPos
    MAX_BLOCKFILE_SIZE,
    MaxFile,        \* the last file a behaviour may come to
    MaxFailures,    \* the failures and stops in a behaviour, for each set of
                    \* blocks that may be stored in it
    None

Known == Block \cup {Genesis}

ASSUME FilesTreeAssumption ==
    /\ IsFiniteSet(Block) /\ Genesis \notin Block
    /\ Parent \in [Block -> Block \cup {Genesis}]
ASSUME FilesSizeAssumption ==
    /\ Size \in [Block \cup {Genesis} -> Nat \ {0}] /\ UndoSize \in [Block -> Nat \ {0}]
    /\ MAX_BLOCKFILE_SIZE \in Nat /\ MaxFile \in Nat /\ MaxFailures \in [SUBSET Known -> Nat]
    /\ \A b \in Block \cup {Genesis} : Size[b] < MAX_BLOCKFILE_SIZE
    /\ None \notin Nat

File == 0..MaxFile

VARIABLES
    memory,     \* nLastBlockFile, infoLastBlockFile, mapBlockIndex, chainActive's tip
    step,       \* how far the operation in hand is
    tree,       \* the block tree database: LastBlockFile, BlockFileInfo, BlockIndex
    treeOld,    \* what it was since it was last synced
    coinTip,    \* the best block of the coin database
    coinTipOld, \* what it was before
    written,    \* the stretches of blk and rev files that hold a block's data
    durable,    \* those that are on the disk
    gaps,       \* blocks with undo data on record that nothing brings to the disk
    broken,     \* a write of the block index has failed, Shutdown flushed the coins,
                \* or the number of the last file was not on record at a stop
    failures    \* failures and stops so far

disk == <<tree, treeOld, coinTip, coinTipOld, written, durable, gaps, broken>>
vars == <<memory, step, disk, failures>>

Idle == [at |-> "idle", block |-> Genesis]
Off == [at |-> "off", block |-> Genesis]

Stored == DOMAIN memory.index \cup DOMAIN tree.index

Fail ==
    /\ failures < MaxFailures[Stored]
    /\ failures' = failures + 1

(* the blocks mapBlockIndex has: InsertBlockIndex makes up a parent that is    *)
(* not on record                                                               *)
Mentioned(index) == DOMAIN index \cup {Parent[b] : b \in DOMAIN index \ {Genesis}}

Entry(file, pos) == [nFile |-> file, nDataPos |-> pos, nUndoPos |-> None]
Data(b, e) == [kind |-> "blk", file |-> e.nFile, pos |-> e.nDataPos, size |-> Size[b], block |-> b]
Undo(b, e) == [kind |-> "rev", file |-> e.nFile, pos |-> e.nUndoPos, size |-> UndoSize[b], block |-> b]
NoInfo == [nSize |-> 0, nUndoSize |-> 0]

(* The genesis block is stored and its coins are on disk. *)
Init ==
    LET e == Entry(0, 0)
        info == [nSize |-> Size[Genesis], nUndoSize |-> 0]
    IN /\ tree = [last |-> 0, info |-> [f \in File |-> IF f = 0 THEN info ELSE NoInfo],
                  index |-> [b \in {Genesis} |-> e]]
       /\ treeOld = {}
       /\ coinTip = Genesis /\ coinTipOld = {}
       /\ memory = [last |-> 0, info |-> info, index |-> tree.index, tip |-> Genesis]
       /\ step = Idle
       /\ written = {Data(Genesis, e)} /\ durable = written
       /\ failures = 0
       /\ gaps = {} /\ broken = FALSE

Overlap(x, y) ==
    /\ x.kind = y.kind /\ x.file = y.file
    /\ x.pos < y.pos + y.size /\ y.pos < x.pos + x.size

Put(x, S) == {y \in S : ~Overlap(x, y)} \cup {x}

(* Writing x to files of which S is on the disk leaves "now" written and what  *)
(* WriteTo gives on the disk.  The file is synced outside the initial download *)
(* (ibd); IsInitialBlockDownload goes by the clock and may change at any time. *)
WriteTo(x, S, now, ibd) ==
    (S \cap now) \cup (IF ibd THEN {} ELSE {y \in now : y.kind = x.kind /\ y.file = x.file})

(* WriteBlockFileInfo *)
InfoWritten(f, info) == [tree EXCEPT !.info[f] = info]

-----------------------------------------------------------------------------
(* The variants named "Slip..." are not part of the model: each is a mistake *)
(* that the property it is paired with in PROJECT.json would notice.         *)

(* the sizes are cleared before the files are cut off *)
SlipCutOff(S, F) == {x \in S : x.file \notin F}

(* What is known of a file: infoLastBlockFile, or its entry in the database. *)
Info(f) == IF f = memory.last THEN memory.info ELSE tree.info[f]

(* FlushBlockFile, of the files F one after the other: both files of the       *)
(* number are synced, and cut off at their sizes when it is left for the next. *)
SizeOf(x) == IF x.kind = "blk" THEN Info(x.file).nSize ELSE Info(x.file).nUndoSize
CutOff(S, F) == {x \in S : x.file \in F => x.pos + x.size <= SizeOf(x)}
Synced(F) == durable \cup {x \in written : x.file \in F}

(* FindBlockPos goes on to the first file that has room.  That may be several  *)
(* numbers ahead: when the number on record is an old one, the files behind it *)
(* are in use already.                                                         *)
HasRoom(b, f) == Info(f).nSize + Size[b] < MAX_BLOCKFILE_SIZE
Left(f) == memory.last..(f - 1)

PosIn(f) == Entry(f, Info(f).nSize)
InfoWith(b, f) == [Info(f) EXCEPT !.nSize = @ + Size[b]]

(* AcceptBlock finds a place for a new block in file f. *)
FindBlockPos(b, f) ==
    /\ step = Idle
    /\ b \notin Mentioned(memory.index) /\ Parent[b] \in Mentioned(memory.index)
    /\ f >= memory.last /\ HasRoom(b, f) /\ \A g \in Left(f) : ~HasRoom(b, g)
    /\ memory' = [memory EXCEPT !.last = f, !.info = InfoWith(b, f)]

(* WriteBlockFileInfo, then WriteLastBlockFile if a file was left *)
PosWritten(b, f) ==
    LET t == InfoWritten(f, InfoWith(b, f))
    IN IF Left(f) = {} THEN t ELSE [t EXCEPT !.last = f]

(* AcceptBlock as far as WriteBlockToDisk.  Leaving a file flushes it; the     *)
(* file's info and, if it is another, its number are written, then the block.  *)
StoreBlock(b, f) ==
    LET x == Data(b, PosIn(f)) IN
    /\ FindBlockPos(b, f)
    /\ failures <= MaxFailures[Stored \cup {b}]
    /\ tree' = PosWritten(b, f)
    /\ treeOld' = treeOld \cup {tree, InfoWritten(f, InfoWith(b, f))}
    /\ written' = Put(x, CutOff(written, Left(f)))
    /\ \E ibd \in BOOLEAN : durable' = WriteTo(x, Synced(Left(f)), written', ibd)
    /\ step' = [at |-> "stored", block |-> b]
    /\ UNCHANGED <<coinTip, coinTipOld, failures, gaps, broken>>

(* It fails: no space on the disk or no write of the file's info, no write of  *)
(* the file's number, or the block's own, which may spoil what was there.      *)
(* What FindBlockPos has done in memory stays; as the next block that finds    *)
(* room leaves no file, the number then is not written for it either.          *)
FailToStore(b, f) ==
    LET left == CutOff(written, Left(f)) IN
    /\ FindBlockPos(b, f)
    /\ Fail
    /\ tree' \in {tree, InfoWritten(f, InfoWith(b, f)), PosWritten(b, f)}
    /\ treeOld' = treeOld \cup {tree} \cup (IF tree' = tree THEN {} ELSE {InfoWritten(f, InfoWith(b, f))})
    /\ written' \in {left, {y \in left : ~Overlap(Data(b, PosIn(f)), y)}}
    /\ durable' = Synced(Left(f)) \cap written'
    /\ UNCHANGED <<step, coinTip, coinTipOld, gaps, broken>>

(* AddToBlockIndex as far as WriteBlockIndex, which may fail *)
AddToBlockIndex ==
    LET b == step.block
        e == Entry(memory.last, memory.info.nSize - Size[b])
        index == [k \in DOMAIN memory.index \cup {b} |-> IF k = b THEN e ELSE memory.index[k]]
    IN /\ step.at = "stored"
       /\ memory' = [memory EXCEPT !.index = index]
       /\ \/ /\ tree' = [tree EXCEPT !.index = [k \in DOMAIN @ \cup {b} |-> IF k = b THEN e ELSE @[k]]]
             /\ treeOld' = treeOld \cup {tree}
             /\ UNCHANGED broken
             /\ UNCHANGED failures
          \/ /\ Fail /\ broken' = TRUE
             /\ UNCHANGED <<tree, treeOld>>
       /\ step' = Idle
       /\ UNCHANGED <<coinTip, coinTipOld, written, durable, gaps>>

-----------------------------------------------------------------------------
(* ConnectBlock's undo data *)

IsReadable(x) == x \in written

(* the size of the last undo file is taken for that of the block's file *)
SlipUndoInfo(f) == memory.info

UndoInfo(f) == Info(f)

(* FindUndoPos and CBlockUndo::WriteToDisk *)
FindUndoPos(b) ==
    LET e == memory.index[b] IN
    /\ step = Idle
    /\ b \in DOMAIN memory.index /\ Parent[b] = memory.tip
    /\ IsReadable(Data(b, e))
    /\ e.nUndoPos = None

UndoInfoFor(b) == [UndoInfo(memory.index[b].nFile) EXCEPT !.nUndoSize = @ + UndoSize[b]]
UndoFor(b) == Undo(b, [memory.index[b] EXCEPT !.nUndoPos = UndoInfo(memory.index[b].nFile).nUndoSize])
InfoGrown(b) == IF memory.index[b].nFile = memory.last THEN UndoInfoFor(b) ELSE memory.info

StoreUndo(b) ==
    LET f == memory.index[b].nFile IN
    /\ FindUndoPos(b)
    /\ memory' = [memory EXCEPT !.info = InfoGrown(b), !.index[b].nUndoPos = UndoFor(b).pos]
    /\ tree' = InfoWritten(f, UndoInfoFor(b))
    /\ treeOld' = treeOld \cup {tree}
    /\ written' = Put(UndoFor(b), written)
    /\ \E ibd \in BOOLEAN :
           /\ durable' = WriteTo(UndoFor(b), durable, written', ibd)
           /\ gaps' = IF ibd /\ f # memory.last THEN gaps \cup {b} ELSE gaps
    /\ step' = [at |-> "undone", block |-> b]
    /\ UNCHANGED <<coinTip, coinTipOld, failures, broken>>

(* It fails: in the write of the file's info, for want of space, or in the     *)
(* write of the undo data.                                                     *)
FailToStoreUndo(b) ==
    /\ FindUndoPos(b)
    /\ Fail
    /\ memory' = [memory EXCEPT !.info = InfoGrown(b)]
    /\ tree' \in {tree, InfoWritten(memory.index[b].nFile, UndoInfoFor(b))}
    /\ treeOld' = treeOld \cup {tree}
    /\ written' \in {written, {y \in written : ~Overlap(UndoFor(b), y)}}
    /\ durable' = durable \cap written'
    /\ UNCHANGED <<step, coinTip, coinTipOld, gaps, broken>>

(* WriteBlockIndex, and the end of ConnectTip.  If the write fails the block   *)
(* is not connected, but memory has its undo data on record.                   *)
IndexUndo ==
    LET b == step.block IN
    /\ step.at = "undone"
    /\ \/ /\ tree' = [tree EXCEPT !.index = [k \in DOMAIN @ \cup {b} |-> IF k = b THEN memory.index[b] ELSE @[k]]]
          /\ treeOld' = treeOld \cup {tree}
          /\ memory' = [memory EXCEPT !.tip = b]
          /\ step' = [at |-> "moved", block |-> b]
          /\ UNCHANGED <<broken, failures>>
       \/ /\ Fail /\ broken' = TRUE
          /\ step' = Idle
          /\ UNCHANGED <<memory, tree, treeOld>>
    /\ UNCHANGED <<coinTip, coinTipOld, written, durable, gaps>>

(* A block whose undo data is there is connected without a write. *)
Reconnect(b) ==
    /\ step = Idle
    /\ b \in DOMAIN memory.index /\ Parent[b] = memory.tip
    /\ IsReadable(Data(b, memory.index[b]))
    /\ memory.index[b].nUndoPos # None
    /\ memory' = [memory EXCEPT !.tip = b]
    /\ step' = [at |-> "moved", block |-> b]
    /\ UNCHANGED <<disk, failures>>

(* DisconnectTip *)
Disconnect ==
    LET b == memory.tip IN
    /\ step = Idle
    /\ b \in DOMAIN memory.index \ {Genesis}
    /\ IsReadable(Data(b, memory.index[b])) /\ IsReadable(Undo(b, memory.index[b]))
    /\ memory' = [memory EXCEPT !.tip = Parent[b]]
    /\ step' = [at |-> "moved", block |-> Parent[b]]
    /\ UNCHANGED <<disk, failures>>

(* the block index is not synced *)
SlipFlushed == durable' = Synced({memory.last}) /\ UNCHANGED treeOld

(* FlushBlockFile and the Sync of the block tree *)
Flushed == durable' = Synced({memory.last}) /\ treeOld' = {}

(* WriteChainState, always outside the initial download and now and then in    *)
(* it; the coins' Flush is not synced.                                         *)
WriteChainState ==
    /\ step.at = "moved"
    /\ \/ /\ Flushed
          /\ coinTip' = memory.tip
          /\ coinTipOld' = coinTipOld \cup {coinTip}
       \/ UNCHANGED <<durable, treeOld, coinTip, coinTipOld>>
    /\ step' = Idle
    /\ UNCHANGED <<memory, tree, written, failures, gaps, broken>>

-----------------------------------------------------------------------------
(* Failures *)

Nothing == [last |-> 0, info |-> NoInfo, index |-> [b \in {} |-> Entry(0, 0)], tip |-> Genesis]

Stop == Fail /\ step' = Off /\ memory' = Nothing

NumberIsOnRecord == memory.last = tree.last

Kill ==
    /\ step # Off /\ Stop
    /\ broken' = (broken \/ ~NumberIsOnRecord)
    /\ UNCHANGED <<tree, treeOld, coinTip, coinTipOld, written, durable, gaps>>

(* Shutdown.  CBlockTreeDB::Flush does nothing and the block files are not     *)
(* flushed, so the coins go ahead of what they rest on.                        *)
Shutdown ==
    /\ step = Idle /\ Stop
    /\ coinTip' = memory.tip
    /\ coinTipOld' = coinTipOld \cup {coinTip}
    /\ broken' = (broken \/ coinTip # memory.tip \/ ~NumberIsOnRecord)
    /\ UNCHANGED <<tree, treeOld, written, durable, gaps>>

PowerLoss ==
    /\ Stop
    /\ tree' \in treeOld \cup {tree} /\ treeOld' = {}
    /\ coinTip' \in coinTipOld \cup {coinTip} /\ coinTipOld' = {}
    /\ \E S \in SUBSET (written \ durable) : written' = durable \cup S
    /\ durable' = written'
    /\ gaps' = gaps \cup {b \in DOMAIN tree'.index \ {Genesis} :
                             tree'.index[b].nUndoPos # None /\ Undo(b, tree'.index[b]) \notin written'}
    /\ UNCHANGED broken

HasTip == coinTip \in Mentioned(tree.index)

(* LoadBlockIndexDB.  It comes to nothing if the index does not have the coin  *)
(* database's best block.                                                      *)
Start ==
    /\ step = Off
    /\ HasTip
    /\ memory' = [last |-> tree.last, info |-> tree.info[tree.last], index |-> tree.index, tip |-> coinTip]
    /\ step' = Idle
    /\ treeOld' = {} /\ coinTipOld' = {}
    /\ UNCHANGED <<tree, coinTip, written, durable, gaps, broken, failures>>

Next ==
    \/ \E b \in Block, f \in File : StoreBlock(b, f) \/ FailToStore(b, f)
    \/ \E b \in Block : StoreUndo(b) \/ FailToStoreUndo(b) \/ Reconnect(b)
    \/ AddToBlockIndex \/ IndexUndo \/ Disconnect \/ WriteChainState
    \/ Kill \/ Shutdown \/ PowerLoss \/ Start

Spec == Init /\ [][Next]_vars

-----------------------------------------------------------------------------
IsIndex(f) ==
    /\ DOMAIN f \subseteq Known
    /\ \A b \in DOMAIN f : f[b] \in [nFile : File, nDataPos : Nat, nUndoPos : Nat \cup {None}]
InfoSet == [nSize : Nat, nUndoSize : Nat]

(* The type invariant of the block files and their index. *)
BlockFilesTypeOK ==
    /\ IsIndex(memory.index) /\ memory.last \in File /\ memory.info \in InfoSet
    /\ memory.tip \in Mentioned(memory.index) \/ step = Off
    /\ \A t \in treeOld \cup {tree} : IsIndex(t.index) /\ t.last \in File /\ t.info \in [File -> InfoSet]
    /\ coinTip \in Known /\ coinTipOld \subseteq Known
    /\ durable \subseteq written
    /\ step.at \in {"idle", "off", "stored", "undone", "moved"}
    /\ broken \in BOOLEAN /\ gaps \subseteq Block /\ failures \in Nat

Apart(p, n, q, m) == p + n <= q \/ q + m <= p

(* No two blocks that the index can name after any failure share a stretch of  *)
(* a file, and the next block or undo data of a file goes behind them all.     *)
ExtentsAreDisjoint ==
    \A t \in treeOld \cup {tree} : \A b \in DOMAIN t.index :
        LET e == t.index[b] IN
        /\ e.nDataPos + Size[b] <= t.info[e.nFile].nSize
        /\ e.nUndoPos # None => e.nUndoPos + UndoSize[b] <= t.info[e.nFile].nUndoSize
        /\ \A k \in {j \in DOMAIN t.index \ {b} : t.index[j].nFile = e.nFile} :
              LET o == t.index[k] IN
              /\ Apart(e.nDataPos, Size[b], o.nDataPos, Size[k])
              /\ None \notin {e.nUndoPos, o.nUndoPos} => Apart(e.nUndoPos, UndoSize[b], o.nUndoPos, UndoSize[k])

(* Memory, database and files agree on what is where.                          *)
FilesAreConsistent == BlockFilesTypeOK /\ ExtentsAreDisjoint

(* What is on record stays readable as long as the power holds: nothing that   *)
(* is stored later, and no cutting off of a file that is left, destroys it;    *)
(* what is on the disk stays there even when it does not hold.                 *)
RecordsStay ==
    [][\A b \in DOMAIN tree.index \cap DOMAIN tree'.index :
          LET e == tree.index[b]
              recorded == {Data(b, e)} \cup (IF e.nUndoPos = None THEN {} ELSE {Undo(b, e)})
          IN /\ recorded \cap durable \subseteq durable'
             /\ step'.at # "off" => recorded \cap written \subseteq written']_vars

Parent0(b) == IF b = Genesis THEN Genesis ELSE Parent[b]
IsClosed(S) == \A b \in S : Parent0(b) \in S
OnChain == [c \in Known |-> {b \in Known : \A S \in SUBSET Known : (c \in S /\ IsClosed(S)) => b \in S}]

(* After any loss of power the chain of the coin database is on record: each   *)
(* of its blocks is in the index and its data on the disk.  Three things break *)
(* it: a block that is tried again after a write of the index failed is        *)
(* connected without a record; a stop in the initial download flushes the      *)
(* coins over a block tree and files that were not synced; and when a block    *)
(* could not be stored after a file was left, and the node is stopped before   *)
(* the next file is left, the old file is taken for the last again, and        *)
(* FlushBlockFile does not sync the one that was begun.                        *)
BlocksAreRecoverable ==
    ~broken => \A c \in coinTipOld \cup {coinTip} : \A t \in treeOld \cup {tree} : \A b \in OnChain[c] :
        b \in DOMAIN t.index /\ Data(b, t.index[b]) \in durable

(* And its undo data, so that it can be disconnected, with two gaps, both of   *)
(* the initial download: undo data that goes to a file that had been left is   *)
(* never synced, and when power is lost while the index has a record of undo   *)
(* data that is not on the disk yet, the record is believed for ever.          *)
UndoIsRecoverable ==
    ~broken => \A c \in coinTipOld \cup {coinTip} : \A t \in treeOld \cup {tree} :
        \A b \in OnChain[c] \ (gaps \cup {Genesis}) :
            t.index[b].nUndoPos # None /\ Undo(b, t.index[b]) \in durable

(* A node that lost its power at any moment can start from its coin database,  *)
(* and leave its chain for a better one.                                       *)
ChainIsRecoverable == BlocksAreRecoverable /\ UndoIsRecoverable
=============================================================================
