--------------------------- MODULE BlockFilesProofs ---------------------------
(***************************************************************************)
(* The block files and their index (BlockFiles): FilesAreConsistent,       *)
(* RecordsStay and ChainIsRecoverable hold in every behaviour, for any     *)
(* tree of blocks, any sizes, and any number of kills, losses of power and *)
(* failures.                                                               *)
(*                                                                         *)
(* The properties are about the trees that a loss of power can leave       *)
(* (Trees).  The invariant adds what memory must be for the next one of    *)
(* them to be sound: its records extend the database's (Extends) and keep  *)
(* apart within sizes that the database already has; and what the flush    *)
(* before a write of the coins relies on: whatever is in the files is on   *)
(* the disk, or in the file that the flush syncs, or undo data in a gap    *)
(* (OnlyLastIsOpen), and the active chain can be read (ChainInv).          *)
(***************************************************************************)
EXTENDS BlockFiles, TLAPS

up == step.at # "off"

Trees == treeOld \cup {tree}

EntrySet == [nFile : File, nDataPos : Nat, nUndoPos : Nat \cup {None}]

IndexOK(ix) ==
    /\ DOMAIN ix \subseteq Known
    /\ \A b \in DOMAIN ix : ix[b] \in EntrySet /\ (b = Genesis => ix[b].nUndoPos = None)

(* The stretches of an index lie within the sizes of the files *)
Covered(ix, info) ==
    \A b \in DOMAIN ix :
        /\ ix[b].nDataPos + Size[b] <= info[ix[b].nFile].nSize
        /\ ix[b].nUndoPos # None => ix[b].nUndoPos + UndoSize[b] <= info[ix[b].nFile].nUndoSize

(* and apart from each other. *)
ApartIn(ix) ==
    \A b, k \in DOMAIN ix :
        b # k /\ ix[b].nFile = ix[k].nFile =>
            /\ Apart(ix[b].nDataPos, Size[b], ix[k].nDataPos, Size[k])
            /\ None \notin {ix[b].nUndoPos, ix[k].nUndoPos} =>
                   Apart(ix[b].nUndoPos, UndoSize[b], ix[k].nUndoPos, UndoSize[k])

(* What is on record in one index is so in the other. *)
Extends(ix, older) ==
    \A b \in DOMAIN older :
        /\ b \in DOMAIN ix
        /\ ix[b].nFile = older[b].nFile /\ ix[b].nDataPos = older[b].nDataPos
        /\ older[b].nUndoPos \in {None, ix[b].nUndoPos}

TreeOK(t) ==
    /\ t = [last |-> t.last, info |-> t.info, index |-> t.index]
    /\ t.last \in File /\ t.info \in [File -> InfoSet] /\ IndexOK(t.index)
    /\ Covered(t.index, t.info) /\ ApartIn(t.index)

TreesInv == \A t \in Trees : TreeOK(t) /\ Extends(tree.index, t.index)

MemoryInv ==
    /\ memory = [last |-> memory.last, info |-> memory.info, index |-> memory.index, tip |-> memory.tip]
    /\ memory.last \in File /\ memory.info \in InfoSet /\ IndexOK(memory.index)
    /\ Covered(memory.index, tree.info) /\ ApartIn(memory.index)
    /\ up => /\ tree.info[memory.last].nSize <= memory.info.nSize
             /\ tree.info[memory.last].nUndoSize <= memory.info.nUndoSize
             /\ Extends(memory.index, tree.index)
             /\ memory.tip \in Mentioned(memory.index)

(* The block that an operation has in hand: its data is behind all others of *)
(* the file, or its undo data is on record in memory.                        *)
StepInv ==
    /\ step \in [at : {"idle", "off", "stored", "undone", "moved"}, block : Known]
    /\ step.at = "off" => step = Off
    /\ step.at = "stored" =>
        /\ step.block \in Block /\ step.block \notin DOMAIN memory.index
        /\ tree.info[memory.last] = memory.info /\ Size[step.block] <= memory.info.nSize
        /\ \A b \in DOMAIN memory.index :
              memory.index[b].nFile = memory.last =>
                  memory.index[b].nDataPos + Size[b] <= memory.info.nSize - Size[step.block]
    /\ step.at = "undone" =>
        /\ step.block \in Block \cap DOMAIN memory.index
        /\ Parent[step.block] = memory.tip
        /\ memory.index[step.block].nUndoPos # None
        /\ Data(step.block, memory.index[step.block]) \in written

(* The file that the next flush syncs *)
LastFile == IF up THEN memory.last ELSE tree.last

OnlyLastIsOpen ==
    /\ durable \subseteq written
    /\ ~broken => \A x \in written \ durable : x.file = LastFile \/ (x.kind = "rev" /\ x.block \in gaps)

UndoIsThere(ix, S, apart) ==
    \A b \in DOMAIN ix \ apart : ix[b].nUndoPos # None => Undo(b, ix[b]) \in S

(* Memory has nothing on record that the database has not, as long as no     *)
(* write of the index failed.                                                *)
IndexWritten ==
    up /\ ~broken =>
        \A b \in DOMAIN memory.index :
            /\ b \in DOMAIN tree.index
            /\ \/ memory.index[b].nUndoPos = tree.index[b].nUndoPos
               \/ step = [at |-> "undone", block |-> b]

(* The chain of c is on record in ix, with its data in S, gaps apart. *)
IsIn(c, ix, S, apart) ==
    \A b \in OnChain[c] :
        /\ b \in DOMAIN ix /\ Data(b, ix[b]) \in S
        /\ b \notin apart \cup {Genesis} => ix[b].nUndoPos # None /\ Undo(b, ix[b]) \in S

ChainInv == up /\ ~broken => IsIn(memory.tip, memory.index, written, gaps)

CoinsInv == ~broken => \A c \in coinTipOld \cup {coinTip} : \A t \in Trees : IsIn(c, t.index, durable, gaps)

OtherTypes ==
    /\ coinTip \in Known /\ coinTipOld \subseteq Known
    /\ broken \in BOOLEAN /\ gaps \subseteq Block /\ failures \in Nat

FInv ==
    /\ TreesInv /\ MemoryInv /\ StepInv /\ OnlyLastIsOpen /\ OtherTypes
    /\ UndoIsThere(tree.index, written, gaps) /\ UndoIsThere(memory.index, written, gaps)
    /\ IndexWritten /\ ChainInv /\ CoinsInv

USE FilesTreeAssumption, FilesSizeAssumption

-----------------------------------------------------------------------------
(* Indexes and sizes *)

(* The records of one index are in any that extends it, however many writes  *)
(* there are between (mapBlockIndex and the CDiskBlockIndex records).        *)
LEMMA ExtendsTrans ==
    ASSUME NEW ix, NEW mid, NEW older, Extends(ix, mid), Extends(mid, older)
    PROVE  Extends(ix, older)
BY DEF Extends

(* An index extends itself. *)
LEMMA ExtendsSelf == ASSUME NEW ix PROVE Extends(ix, ix)
BY DEF Extends

(* Every block takes up some room in a blk file, and every block but the     *)
(* first in a rev file.                                                      *)
LEMMA SizesAreNat ==
    /\ \A b \in Known : Size[b] \in Nat /\ Size[b] > 0
    /\ \A b \in Known \ {Genesis} : b \in Block /\ UndoSize[b] \in Nat /\ UndoSize[b] > 0
BY DEF Known

AsLarge(info, other) ==
    \A f \in File : info[f].nSize <= other[f].nSize /\ info[f].nUndoSize <= other[f].nUndoSize

(* What lies within the sizes of the files does so when FindBlockPos or      *)
(* FindUndoPos has raised them.                                              *)
LEMMA CoveredStays ==
    ASSUME NEW ix, IndexOK(ix), NEW info \in [File -> InfoSet], NEW other \in [File -> InfoSet],
           Covered(ix, info), AsLarge(info, other)
    PROVE  Covered(ix, other)
<1>1. SUFFICES ASSUME NEW b \in DOMAIN ix
               PROVE  /\ ix[b].nDataPos + Size[b] <= other[ix[b].nFile].nSize
                      /\ ix[b].nUndoPos # None => ix[b].nUndoPos + UndoSize[b] <= other[ix[b].nFile].nUndoSize
  BY DEF Covered
<1> DEFINE e == ix[b]
           f == e.nFile
<1>2. /\ b \in Known /\ f \in File /\ e.nDataPos \in Nat /\ e.nUndoPos \in Nat \cup {None}
      /\ e.nUndoPos # None => b # Genesis
  BY DEF IndexOK, EntrySet
<1>3. /\ info[f].nSize \in Nat /\ info[f].nUndoSize \in Nat
      /\ other[f].nSize \in Nat /\ other[f].nUndoSize \in Nat
  BY <1>2 DEF InfoSet
<1>4. info[f].nSize <= other[f].nSize /\ info[f].nUndoSize <= other[f].nUndoSize
  BY <1>2 DEF AsLarge
<1>5. /\ e.nDataPos + Size[b] <= info[f].nSize
      /\ e.nUndoPos # None => e.nUndoPos + UndoSize[b] <= info[f].nUndoSize
  BY DEF Covered
<1>6. Size[b] \in Nat /\ (e.nUndoPos # None => e.nUndoPos \in Nat /\ UndoSize[b] \in Nat)
  BY <1>2, SizesAreNat
<1> HIDE DEF e, f
<1>7. /\ e.nDataPos + Size[b] <= other[f].nSize
      /\ e.nUndoPos # None => e.nUndoPos + UndoSize[b] <= other[f].nUndoSize
  BY <1>2, <1>3, <1>4, <1>5, <1>6
<1>8. QED
  BY <1>7 DEF e, f

(* What is on record is told apart by its stretch. *)
LEMMA SameStretch ==
    ASSUME NEW ix, NEW older, Extends(ix, older), NEW b \in DOMAIN older
    PROVE  /\ b \in DOMAIN ix /\ Data(b, older[b]) = Data(b, ix[b])
           /\ older[b].nUndoPos # None => ix[b].nUndoPos # None /\ Undo(b, older[b]) = Undo(b, ix[b])
BY DEF Extends, Data, Undo

(* What is on record in ix and in S is in T, as well. *)
Keeps(ix, S, T) ==
    \A b \in DOMAIN ix :
        /\ Data(b, ix[b]) \in S => Data(b, ix[b]) \in T
        /\ ix[b].nUndoPos # None /\ Undo(b, ix[b]) \in S => Undo(b, ix[b]) \in T

(* What is kept of an index is kept of one that it extends. *)
LEMMA KeepsOlder ==
    ASSUME NEW ix, NEW older, Extends(ix, older), NEW S, NEW T, Keeps(ix, S, T)
    PROVE  Keeps(older, S, T)
<1>1. ASSUME NEW b \in DOMAIN older
      PROVE  /\ Data(b, older[b]) \in S => Data(b, older[b]) \in T
             /\ older[b].nUndoPos # None /\ Undo(b, older[b]) \in S => Undo(b, older[b]) \in T
  BY SameStretch DEF Keeps
<1>2. QED
  BY <1>1 DEF Keeps

(* Of what is kept, the part that was on the disk is on the disk still if    *)
(* what is left of it is.                                                    *)
LEMMA KeepsPart ==
    ASSUME NEW ix, NEW S, NEW T, Keeps(ix, S, T), NEW A \in SUBSET S, NEW B, A \cap T \subseteq B
    PROVE  Keeps(ix, A, B)
BY DEF Keeps

(* A chain stays on record when the index is extended and what is on record  *)
(* is kept.                                                                  *)
LEMMA IsInStays ==
    ASSUME NEW c, NEW ix, NEW S, NEW apart, IsIn(c, ix, S, apart),
           NEW jx, Extends(jx, ix), NEW T, Keeps(ix, S, T), NEW apart2, apart \subseteq apart2
    PROVE  IsIn(c, jx, T, apart2)
<1>1. SUFFICES ASSUME NEW b \in OnChain[c]
               PROVE  /\ b \in DOMAIN jx /\ Data(b, jx[b]) \in T
                      /\ b \notin apart2 \cup {Genesis} => jx[b].nUndoPos # None /\ Undo(b, jx[b]) \in T
  BY DEF IsIn
<1>2. /\ b \in DOMAIN ix /\ Data(b, ix[b]) \in S
      /\ b \notin apart \cup {Genesis} => ix[b].nUndoPos # None /\ Undo(b, ix[b]) \in S
  BY DEF IsIn
<1>3. /\ b \in DOMAIN jx /\ Data(b, ix[b]) = Data(b, jx[b])
      /\ ix[b].nUndoPos # None => jx[b].nUndoPos # None /\ Undo(b, ix[b]) = Undo(b, jx[b])
  BY <1>2, SameStretch
<1>4. QED
  BY <1>2, <1>3 DEF Keeps

(* Nothing that is put behind what is on record destroys it, *)
LEMMA PutKeepsData ==
    ASSUME NEW ix, IndexOK(ix), NEW S, NEW x, x.kind = "blk", x.pos \in Nat, x.size \in Nat,
           \A b \in DOMAIN ix : ix[b].nFile = x.file => ix[b].nDataPos + Size[b] <= x.pos
    PROVE  Keeps(ix, S, Put(x, S))
<1>1. ASSUME NEW b \in DOMAIN ix PROVE ~Overlap(x, Data(b, ix[b])) /\ ~Overlap(x, Undo(b, ix[b]))
  <2>1. ix[b].nDataPos \in Nat /\ Size[b] \in Nat
    BY SizesAreNat DEF IndexOK, EntrySet
  <2>2. ix[b].nFile = x.file => ix[b].nDataPos + Size[b] <= x.pos
    OBVIOUS
  <2>3. ~(ix[b].nFile = x.file /\ x.pos < ix[b].nDataPos + Size[b])
    BY <2>1, <2>2
  <2>4. QED
    BY <2>3 DEF Overlap, Data, Undo
<1>2. QED
  BY <1>1 DEF Keeps, Put

(* and so with undo data, *)
LEMMA PutKeepsUndo ==
    ASSUME NEW ix, IndexOK(ix), NEW S, NEW x, x.kind = "rev", x.pos \in Nat, x.size \in Nat,
           \A b \in DOMAIN ix :
              ix[b].nFile = x.file /\ ix[b].nUndoPos # None => ix[b].nUndoPos + UndoSize[b] <= x.pos
    PROVE  Keeps(ix, S, Put(x, S))
<1>1. ASSUME NEW b \in DOMAIN ix
      PROVE ~Overlap(x, Data(b, ix[b])) /\ (ix[b].nUndoPos # None => ~Overlap(x, Undo(b, ix[b])))
  <2>1. ix[b].nUndoPos # None => ix[b].nUndoPos \in Nat /\ UndoSize[b] \in Nat
    BY SizesAreNat DEF IndexOK, EntrySet
  <2>2. ix[b].nUndoPos # None /\ ix[b].nFile = x.file => ix[b].nUndoPos + UndoSize[b] <= x.pos
    OBVIOUS
  <2>3. ~(ix[b].nUndoPos # None /\ ix[b].nFile = x.file /\ x.pos < ix[b].nUndoPos + UndoSize[b])
    BY <2>1, <2>2
  <2>4. QED
    BY <2>3 DEF Overlap, Data, Undo
<1>2. QED
  BY <1>1 DEF Keeps, Put

(* nor does cutting files off behind it. *)
LEMMA CutOffKeeps ==
    ASSUME NEW ix, NEW S, NEW F,
           \A b \in DOMAIN ix :
              ix[b].nFile \in F =>
                  /\ ix[b].nDataPos + Size[b] <= Info(ix[b].nFile).nSize
                  /\ ix[b].nUndoPos # None => ix[b].nUndoPos + UndoSize[b] <= Info(ix[b].nFile).nUndoSize
    PROVE  Keeps(ix, S, CutOff(S, F))
BY DEF Keeps, CutOff, SizeOf, Data, Undo

(* What is taken away from the files by a write behind all records that      *)
(* failed was not on record, either.                                         *)
LEMMA KeepsLess ==
    ASSUME NEW ix, NEW S, NEW x, Keeps(ix, S, Put(x, S)),
           \A b \in DOMAIN ix : x # Data(b, ix[b]) /\ x # Undo(b, ix[b])
    PROVE  Keeps(ix, S, {y \in S : ~Overlap(x, y)})
BY DEF Keeps, Put

(* The chain of a block is that of its parent and the block. *)
LEMMA ChainOfChild ==
    ASSUME NEW b \in Block
    PROVE  OnChain[b] \subseteq {b} \cup OnChain[Parent[b]] /\ OnChain[Parent[b]] \subseteq OnChain[b]
<1> DEFINE p == Parent[b]
<1>1. b \in Known /\ p \in Known /\ Parent0(b) = p
  BY DEF Known, Parent0
<1>2. \A c \in Known : OnChain[c] = {k \in Known : \A S \in SUBSET Known : (c \in S /\ IsClosed(S)) => k \in S}
  BY DEF OnChain
<1> HIDE DEF p
<1>3. ASSUME NEW k \in OnChain[p] PROVE k \in OnChain[b]
  <2>1. ASSUME NEW S \in SUBSET Known, b \in S, IsClosed(S) PROVE k \in S
    <3>1. p \in S
      BY <1>1, <2>1 DEF IsClosed
    <3>2. QED
      BY <1>1, <1>2, <1>3, <2>1, <3>1
  <2>2. k \in Known
    BY <1>1, <1>2, <1>3
  <2>3. QED
    BY <1>1, <1>2, <2>1, <2>2
<1>4. OnChain[p] \subseteq Known /\ p \in OnChain[p]
  BY <1>1, <1>2
<1>5. IsClosed(OnChain[p])
  <2>1. ASSUME NEW k \in OnChain[p], NEW S \in SUBSET Known, p \in S, IsClosed(S) PROVE Parent0(k) \in S
    BY <1>1, <1>2, <2>1 DEF IsClosed
  <2>2. \A k \in Known : Parent0(k) \in Known
    BY DEF Known, Parent0
  <2>3. QED
    BY <1>1, <1>2, <1>4, <2>1, <2>2 DEF IsClosed
<1>6. {b} \cup OnChain[p] \in SUBSET Known /\ IsClosed({b} \cup OnChain[p])
  BY <1>1, <1>4, <1>5 DEF IsClosed
<1>7. OnChain[b] \subseteq {b} \cup OnChain[p]
  BY <1>1, <1>2, <1>6
<1>8. QED
  BY <1>3, <1>7 DEF p

-----------------------------------------------------------------------------
(* How indexes and sizes change *)

(* An index that another extends lies within the same sizes, and its         *)
(* stretches are as far apart.                                               *)
LEMMA OlderIsApart ==
    ASSUME NEW ix, NEW older, Extends(ix, older), NEW info, Covered(ix, info), ApartIn(ix)
    PROVE  Covered(older, info) /\ ApartIn(older)
BY DEF Extends, Covered, ApartIn

(* What is kept by two changes of the files is kept by both together. *)
LEMMA KeepsTransitive ==
    ASSUME NEW ix, NEW S, NEW T, Keeps(ix, S, T), NEW V, Keeps(ix, T, V)
    PROVE  Keeps(ix, S, V)
BY DEF Keeps

(* The sizes of a file only grow. *)
LEMMA InfoGrows ==
    ASSUME TreeOK(tree), NEW f \in File, NEW info \in InfoSet,
           tree.info[f].nSize <= info.nSize, tree.info[f].nUndoSize <= info.nUndoSize
    PROVE  LET t == InfoWritten(f, info) IN
           /\ AsLarge(tree.info, t.info)
           /\ t = [last |-> tree.last, info |-> t.info, index |-> tree.index]
           /\ t.info \in [File -> InfoSet] /\ t.info[f] = info
           /\ \A g \in File \ {f} : t.info[g] = tree.info[g]
           /\ Covered(tree.index, t.info)
<1> DEFINE i == [tree.info EXCEPT ![f] = info]
<1>1. /\ tree = [last |-> tree.last, info |-> tree.info, index |-> tree.index]
      /\ tree.info \in [File -> InfoSet] /\ IndexOK(tree.index) /\ Covered(tree.index, tree.info)
  BY DEF TreeOK
<1>2. i \in [File -> InfoSet] /\ i[f] = info /\ \A g \in File \ {f} : i[g] = tree.info[g]
  BY <1>1
<1>3. InfoWritten(f, info) = [last |-> tree.last, info |-> i, index |-> tree.index]
  BY <1>1 DEF InfoWritten
<1> HIDE DEF i
<1>4. \A g \in File : tree.info[g].nSize \in Nat /\ tree.info[g].nUndoSize \in Nat
  BY <1>1 DEF InfoSet
<1>5. AsLarge(tree.info, i)
  BY <1>1, <1>2, <1>4 DEF AsLarge
<1>6. Covered(tree.index, i)
  BY <1>1, <1>2, <1>5, CoveredStays
<1>7. QED
  BY <1>2, <1>3, <1>5, <1>6

Added(ix, b, e) == [k \in DOMAIN ix \cup {b} |-> IF k = b THEN e ELSE ix[k]]

(* A block gets a stretch behind all others of its file, *)
LEMMA AddedIndex ==
    ASSUME NEW ix, IndexOK(ix), NEW info \in [File -> InfoSet], Covered(ix, info), ApartIn(ix),
           NEW b \in Block, b \notin DOMAIN ix, NEW f \in File, NEW pos \in Nat,
           \A k \in DOMAIN ix : ix[k].nFile = f => ix[k].nDataPos + Size[k] <= pos,
           pos + Size[b] <= info[f].nSize,
           NEW jx, jx = Added(ix, b, Entry(f, pos))
    PROVE  IndexOK(jx) /\ Covered(jx, info) /\ ApartIn(jx) /\ Extends(jx, ix)
<1>1. /\ DOMAIN jx = DOMAIN ix \cup {b} /\ \A k \in DOMAIN ix : jx[k] = ix[k]
      /\ jx[b] = Entry(f, pos)
  BY DEF Added
<1>2. /\ Entry(f, pos) \in EntrySet /\ Entry(f, pos).nFile = f
      /\ Entry(f, pos).nDataPos = pos /\ Entry(f, pos).nUndoPos = None
  BY DEF Entry, EntrySet
<1>3. IndexOK(jx)
  BY <1>1, <1>2 DEF IndexOK, Known
<1>4. Extends(jx, ix)
  BY <1>1 DEF Extends
<1>5. Covered(jx, info)
  BY <1>1, <1>2 DEF Covered
<1>6. ApartIn(jx)
  <2>1. ASSUME NEW k \in DOMAIN ix, ix[k].nFile = f
        PROVE Apart(ix[k].nDataPos, Size[k], pos, Size[b]) /\ Apart(pos, Size[b], ix[k].nDataPos, Size[k])
    BY <2>1 DEF Apart
  <2>2. QED
    BY <1>1, <1>2, <2>1 DEF ApartIn
<1>7. QED
  BY <1>3, <1>4, <1>5, <1>6

(* and so does its undo data. *)
LEMMA UndoneIndex ==
    ASSUME NEW ix, IndexOK(ix), NEW info \in [File -> InfoSet], Covered(ix, info), ApartIn(ix),
           NEW b \in Block \cap DOMAIN ix, ix[b].nUndoPos = None, NEW pos \in Nat,
           \A k \in DOMAIN ix :
              ix[k].nFile = ix[b].nFile /\ ix[k].nUndoPos # None => ix[k].nUndoPos + UndoSize[k] <= pos,
           pos + UndoSize[b] <= info[ix[b].nFile].nUndoSize,
           NEW jx, jx = [ix EXCEPT ![b].nUndoPos = pos]
    PROVE  IndexOK(jx) /\ Covered(jx, info) /\ ApartIn(jx) /\ Extends(jx, ix) /\ jx[b].nUndoPos = pos
<1>1. /\ DOMAIN jx = DOMAIN ix /\ \A k \in DOMAIN ix \ {b} : jx[k] = ix[k]
      /\ jx[b] = [ix[b] EXCEPT !.nUndoPos = pos]
  OBVIOUS
<1>2. ix[b] \in EntrySet /\ b # Genesis /\ pos # None
  BY DEF IndexOK
<1>3. /\ jx[b] \in EntrySet /\ jx[b].nFile = ix[b].nFile /\ jx[b].nDataPos = ix[b].nDataPos
      /\ jx[b].nUndoPos = pos
  BY <1>1, <1>2 DEF EntrySet
<1>4. IndexOK(jx)
  BY <1>1, <1>2, <1>3 DEF IndexOK
<1>5. Extends(jx, ix)
  BY <1>1, <1>3 DEF Extends
<1>6. Covered(jx, info)
  BY <1>1, <1>3 DEF Covered
<1>7. ApartIn(jx)
  <2>1. ASSUME NEW k \in DOMAIN ix, ix[k].nFile = ix[b].nFile, ix[k].nUndoPos # None
        PROVE Apart(ix[k].nUndoPos, UndoSize[k], pos, UndoSize[b]) /\ Apart(pos, UndoSize[b], ix[k].nUndoPos, UndoSize[k])
    BY <2>1 DEF Apart
  <2>2. SUFFICES ASSUME NEW k \in DOMAIN jx, NEW l \in DOMAIN jx, k # l, jx[k].nFile = jx[l].nFile
                 PROVE  /\ Apart(jx[k].nDataPos, Size[k], jx[l].nDataPos, Size[l])
                        /\ None \notin {jx[k].nUndoPos, jx[l].nUndoPos} =>
                               Apart(jx[k].nUndoPos, UndoSize[k], jx[l].nUndoPos, UndoSize[l])
    BY DEF ApartIn
  <2>3. \A m \in DOMAIN ix : jx[m].nFile = ix[m].nFile /\ jx[m].nDataPos = ix[m].nDataPos
    BY <1>1, <1>3
  <2>4. Apart(jx[k].nDataPos, Size[k], jx[l].nDataPos, Size[l])
    BY <1>1, <2>2, <2>3 DEF ApartIn
  <2>5. ASSUME None \notin {jx[k].nUndoPos, jx[l].nUndoPos}
        PROVE Apart(jx[k].nUndoPos, UndoSize[k], jx[l].nUndoPos, UndoSize[l])
    <3>1. CASE k = b
      BY <1>1, <1>3, <2>1, <2>2, <2>3, <2>5, <3>1
    <3>2. CASE l = b
      BY <1>1, <1>3, <2>1, <2>2, <2>3, <2>5, <3>2
    <3>3. CASE k # b /\ l # b
      BY <1>1, <2>2, <2>3, <2>5, <3>3 DEF ApartIn
    <3>4. QED
      BY <3>1, <3>2, <3>3
  <2>6. QED
    BY <2>4, <2>5
<1>8. QED
  BY <1>3, <1>4, <1>5, <1>6, <1>7

-----------------------------------------------------------------------------
(* Parts of the invariant that most steps leave *)

(* Undo data that is on record stays readable when what is on record is      *)
(* kept.                                                                     *)
LEMMA UndoStays ==
    ASSUME NEW ix, NEW S, NEW apart, UndoIsThere(ix, S, apart), NEW T, Keeps(ix, S, T),
           NEW apart2, apart \subseteq apart2
    PROVE  UndoIsThere(ix, T, apart2)
BY DEF UndoIsThere, Keeps

(* The coins' chains stay on record as long as the index is extended. *)
LEMMA CoinsStay ==
    ASSUME CoinsInv, TreesInv, Keeps(tree.index, durable, durable'), gaps \subseteq gaps',
           coinTipOld' \cup {coinTip'} \subseteq coinTipOld \cup {coinTip},
           broken' = FALSE => broken = FALSE, broken' \in BOOLEAN,
           \A t \in Trees' : \E s \in Trees : Extends(t.index, s.index)
    PROVE  CoinsInv'
<1>1. SUFFICES ASSUME ~broken', NEW c \in coinTipOld' \cup {coinTip'}, NEW t \in Trees'
               PROVE  IsIn(c, t.index, durable', gaps')
  BY DEF CoinsInv
<1>2. PICK s \in Trees : Extends(t.index, s.index)
  OBVIOUS
<1>3. IsIn(c, s.index, durable, gaps)
  BY <1>1 DEF CoinsInv
<1>4. Keeps(s.index, durable, durable')
  BY KeepsOlder DEF TreesInv
<1>5. QED
  BY <1>2, <1>3, <1>4, IsInStays

(* The active chain can still be read when the index is extended and what is *)
(* on record is kept.                                                        *)
LEMMA ChainStays ==
    ASSUME ChainInv, up, broken' = FALSE => broken = FALSE, broken' \in BOOLEAN,
           memory'.tip = memory.tip, Extends(memory'.index, memory.index),
           Keeps(memory.index, written, written'), gaps \subseteq gaps'
    PROVE  ChainInv'
<1>1. SUFFICES ASSUME ~broken' PROVE IsIn(memory'.tip, memory'.index, written', gaps')
  BY DEF ChainInv
<1>2. IsIn(memory.tip, memory.index, written, gaps)
  BY <1>1 DEF ChainInv
<1>3. QED
  BY <1>2, IsInStays

(* What is on record on the disk stays there when what is written does. *)
LEMMA DurableKept ==
    ASSUME MemoryInv, up, OnlyLastIsOpen, Keeps(memory.index, written, written'), durable \cap written' \subseteq durable'
    PROVE  /\ Keeps(tree.index, written, written') /\ Keeps(tree.index, durable, durable')
<1>1. Keeps(tree.index, written, written')
  BY KeepsOlder DEF MemoryInv
<1>2. durable \in SUBSET written
  BY DEF OnlyLastIsOpen
<1>3. QED
  BY <1>1, <1>2, KeepsPart

-----------------------------------------------------------------------------
(* Storing a block *)

(* What is known of a file is as large as its entry in the database, and all *)
(* that memory has on record of it lies before that.                         *)
LEMMA InfoIsAbove ==
    ASSUME MemoryInv, up, TreeOK(tree), NEW f \in File
    PROVE  /\ Info(f) \in InfoSet
           /\ tree.info[f].nSize <= Info(f).nSize /\ tree.info[f].nUndoSize <= Info(f).nUndoSize
           /\ \A k \in DOMAIN memory.index :
                 memory.index[k].nFile = f =>
                     /\ memory.index[k].nDataPos + Size[k] <= Info(f).nSize
                     /\ memory.index[k].nUndoPos # None =>
                            memory.index[k].nUndoPos + UndoSize[k] <= Info(f).nUndoSize
<1> DEFINE info == Info(f)
           old == tree.info[f]
<1>1. /\ tree.info \in [File -> InfoSet] /\ memory.info \in InfoSet
      /\ IndexOK(memory.index) /\ Covered(memory.index, tree.info)
      /\ tree.info[memory.last].nSize <= memory.info.nSize
      /\ tree.info[memory.last].nUndoSize <= memory.info.nUndoSize
  BY DEF MemoryInv, TreeOK
<1>2. info = IF f = memory.last THEN memory.info ELSE old
  BY DEF Info
<1> HIDE DEF info
<1>3. info \in InfoSet /\ old \in InfoSet
  BY <1>1, <1>2
<1>4. info.nSize \in Nat /\ info.nUndoSize \in Nat /\ old.nSize \in Nat /\ old.nUndoSize \in Nat
  BY <1>3 DEF InfoSet
<1>5. old.nSize <= info.nSize /\ old.nUndoSize <= info.nUndoSize
  BY <1>1, <1>2, <1>4
<1>6. ASSUME NEW k \in DOMAIN memory.index, memory.index[k].nFile = f
      PROVE  /\ memory.index[k].nDataPos + Size[k] <= info.nSize
             /\ memory.index[k].nUndoPos # None => memory.index[k].nUndoPos + UndoSize[k] <= info.nUndoSize
  <2> DEFINE e == memory.index[k]
  <2>1. /\ e.nDataPos \in Nat /\ Size[k] \in Nat
        /\ e.nUndoPos # None => e.nUndoPos \in Nat /\ UndoSize[k] \in Nat
    BY <1>1, SizesAreNat DEF IndexOK, EntrySet
  <2>2. /\ e.nDataPos + Size[k] <= old.nSize
        /\ e.nUndoPos # None => e.nUndoPos + UndoSize[k] <= old.nUndoSize
    BY <1>1, <1>6 DEF Covered
  <2> HIDE DEF e, old
  <2>3. /\ e.nDataPos + Size[k] <= info.nSize
        /\ e.nUndoPos # None => e.nUndoPos + UndoSize[k] <= info.nUndoSize
    BY <1>4, <1>5, <2>1, <2>2
  <2>4. QED
    BY <2>3 DEF e
<1>7. QED
  BY <1>3, <1>5, <1>6 DEF info

(* What FindBlockPos leaves in memory, and what it has written when it       *)
(* returns or fails: trees with the same records as before.                  *)
LEMMA PosEffect ==
    ASSUME FInv, NEW b \in Block, NEW f \in File, FindBlockPos(b, f)
    PROVE  LET info == InfoWith(b, f)
               sizes == InfoWritten(f, info).info
           IN /\ up /\ b \notin DOMAIN memory.index
              /\ info \in InfoSet /\ info.nSize = Info(f).nSize + Size[b] /\ info.nUndoSize = Info(f).nUndoSize
              /\ memory' = [last |-> f, info |-> info, index |-> memory.index, tip |-> memory.tip]
              /\ sizes \in [File -> InfoSet] /\ sizes[f] = info /\ Covered(memory.index, sizes)
              /\ \A t \in {InfoWritten(f, info), PosWritten(b, f)} :
                    TreeOK(t) /\ t.index = tree.index /\ t.info = sizes
<1> DEFINE info == InfoWith(b, f)
           written1 == InfoWritten(f, info)
           sizes == written1.info
<1>1. /\ step = Idle /\ b \notin Mentioned(memory.index)
      /\ memory' = [memory EXCEPT !.last = f, !.info = info]
  BY DEF FindBlockPos
<1>2. up /\ MemoryInv /\ TreeOK(tree)
  BY <1>1 DEF FInv, TreesInv, Trees, up, Idle
<1>3. /\ Info(f) \in InfoSet
      /\ tree.info[f].nSize <= Info(f).nSize /\ tree.info[f].nUndoSize <= Info(f).nUndoSize
  BY <1>2, InfoIsAbove
<1>4. Size[b] \in Nat /\ tree.info[f] \in InfoSet
  BY <1>2, SizesAreNat DEF Known, TreeOK
<1>5. info \in InfoSet /\ info.nSize = Info(f).nSize + Size[b] /\ info.nUndoSize = Info(f).nUndoSize
  BY <1>3, <1>4 DEF InfoSet, InfoWith
<1>6. b \notin DOMAIN memory.index
  BY <1>1 DEF Mentioned
<1> HIDE DEF info
<1>7. tree.info[f].nSize <= info.nSize /\ tree.info[f].nUndoSize <= info.nUndoSize
  <2>1. /\ Info(f).nSize \in Nat /\ Info(f).nUndoSize \in Nat
        /\ tree.info[f].nSize \in Nat /\ tree.info[f].nUndoSize \in Nat
    BY <1>3, <1>4 DEF InfoSet
  <2>2. QED
    BY <1>3, <1>4, <1>5, <2>1
<1>8. /\ AsLarge(tree.info, sizes) /\ sizes \in [File -> InfoSet] /\ sizes[f] = info
      /\ written1 = [last |-> tree.last, info |-> sizes, index |-> tree.index]
      /\ Covered(tree.index, sizes)
  BY <1>2, <1>5, <1>7, InfoGrows
<1>9. memory' = [last |-> f, info |-> info, index |-> memory.index, tip |-> memory.tip]
  BY <1>1, <1>2 DEF MemoryInv
<1> HIDE DEF sizes, written1
<1>10. Covered(memory.index, sizes)
  BY <1>2, <1>8, CoveredStays DEF MemoryInv, TreeOK
<1>11. PosWritten(b, f) = written1 \/ PosWritten(b, f) = [last |-> f, info |-> sizes, index |-> tree.index]
  <2>1. PosWritten(b, f) = written1 \/ PosWritten(b, f) = [written1 EXCEPT !.last = f]
    BY DEF PosWritten, written1, info
  <2>2. [written1 EXCEPT !.last = f] = [last |-> f, info |-> sizes, index |-> tree.index]
    BY <1>8
  <2>3. QED
    BY <2>1, <2>2
<1>12. tree.last \in File /\ IndexOK(tree.index) /\ ApartIn(tree.index)
  BY <1>2 DEF TreeOK
<1>13. ASSUME NEW n \in File, NEW t, t = [last |-> n, info |-> sizes, index |-> tree.index]
       PROVE TreeOK(t) /\ t.index = tree.index /\ t.info = sizes
  BY <1>8, <1>12, <1>13 DEF TreeOK
<1>14. ASSUME NEW t \in {written1, PosWritten(b, f)}
       PROVE TreeOK(t) /\ t.index = tree.index /\ t.info = sizes
  BY <1>8, <1>11, <1>12, <1>13
<1>15. QED
  BY <1>2, <1>5, <1>6, <1>8, <1>9, <1>10, <1>14 DEF info, sizes, written1

(* Cutting off the files that are left destroys nothing that is on record,   *)
LEMMA LeavingKeeps ==
    ASSUME FInv, up, NEW f PROVE Keeps(memory.index, written, CutOff(written, Left(f)))
<1>1. MemoryInv /\ TreeOK(tree) /\ IndexOK(memory.index)
  BY DEF FInv, MemoryInv, TreesInv, Trees
<1>2. ASSUME NEW b \in DOMAIN memory.index
      PROVE  LET e == memory.index[b] IN
             /\ e.nDataPos + Size[b] <= Info(e.nFile).nSize
             /\ e.nUndoPos # None => e.nUndoPos + UndoSize[b] <= Info(e.nFile).nUndoSize
  <2>1. memory.index[b].nFile \in File
    BY <1>1 DEF IndexOK, EntrySet
  <2>2. QED
    BY <1>1, <2>1, InfoIsAbove
<1>3. QED
  BY <1>2, CutOffKeeps

(* and what their flush has not synced is in the file that is gone on to.    *)
LEMMA LeavingSyncs ==
    ASSUME FInv, NEW b, NEW f \in File, FindBlockPos(b, f), ~broken, NEW y \in written \ Synced(Left(f))
    PROVE  y.file = f \/ (y.kind = "rev" /\ y.block \in gaps)
<1>1. up /\ f >= memory.last /\ MemoryInv /\ OnlyLastIsOpen
  BY DEF FInv, FindBlockPos, up, Idle
<1>2. y.file = memory.last \/ (y.kind = "rev" /\ y.block \in gaps)
  BY <1>1 DEF OnlyLastIsOpen, LastFile, Synced
<1>3. memory.last \in Nat /\ f \in Nat
  BY <1>1 DEF MemoryInv, File
<1>4. f # memory.last => memory.last \in Left(f)
  BY <1>1, <1>3 DEF Left
<1>5. QED
  BY <1>2, <1>4 DEF Synced

(* Where FindBlockPos puts a block nothing is on record. *)
LEMMA PosIsFree ==
    ASSUME FInv, NEW b \in Block, NEW f \in File, FindBlockPos(b, f), NEW S
    PROVE  LET x == Data(b, PosIn(f)) IN
           /\ x.file = f
           /\ Keeps(memory.index, S, Put(x, S)) /\ Keeps(memory.index, S, {y \in S : ~Overlap(x, y)})
<1> DEFINE x == Data(b, PosIn(f))
<1>1. up /\ MemoryInv /\ TreeOK(tree) /\ b \notin DOMAIN memory.index
  BY DEF FInv, TreesInv, Trees, FindBlockPos, Mentioned, up, Idle
<1>2. /\ Info(f) \in InfoSet
      /\ \A k \in DOMAIN memory.index :
            memory.index[k].nFile = f => memory.index[k].nDataPos + Size[k] <= Info(f).nSize
  BY <1>1, InfoIsAbove
<1>3. /\ x.kind = "blk" /\ x.file = f /\ x.pos = Info(f).nSize /\ x.size = Size[b] /\ x.block = b
      /\ x.pos \in Nat /\ x.size \in Nat
  BY <1>2, SizesAreNat DEF Data, PosIn, Entry, InfoSet, Known
<1> HIDE DEF x
<1>4. Keeps(memory.index, S, Put(x, S))
  BY <1>1, <1>2, <1>3, PutKeepsData DEF MemoryInv
<1>5. \A k \in DOMAIN memory.index : x # Data(k, memory.index[k]) /\ x # Undo(k, memory.index[k])
  BY <1>1, <1>3 DEF Data, Undo
<1>6. QED
  BY <1>3, <1>4, <1>5, KeepsLess DEF x

(* Storing a block destroys nothing that is on record, in the files that are *)
(* left or in the one that is written, and what it leaves unsynced is in the *)
(* last file.                                                                *)
LEMMA StoreFiles ==
    ASSUME FInv, NEW b \in Block, NEW f \in File, StoreBlock(b, f)
    PROVE  /\ Keeps(memory.index, written, written')
           /\ durable \cap written' \subseteq durable'
           /\ OnlyLastIsOpen'
<1> DEFINE x == Data(b, PosIn(f))
           left == CutOff(written, Left(f))
<1>1. /\ FindBlockPos(b, f) /\ written' = Put(x, left) /\ up' /\ gaps' = gaps /\ broken' = broken
  BY DEF StoreBlock, up
<1>2. PICK ibd \in BOOLEAN : durable' = WriteTo(x, Synced(Left(f)), written', ibd)
  BY DEF StoreBlock
<1>3. up /\ memory'.last = f
  BY <1>1, PosEffect
<1>4. x.file = f /\ Keeps(memory.index, left, written')
  BY <1>1, PosIsFree
<1>5. Keeps(memory.index, written, written')
  BY <1>3, <1>4, LeavingKeeps, KeepsTransitive
<1>6. durable \cap written' \subseteq durable' /\ durable' \subseteq written'
  BY <1>2 DEF WriteTo, Synced
<1> HIDE DEF x
<1>7. ASSUME ~broken, NEW y \in written' \ durable'
      PROVE y.file = f \/ (y.kind = "rev" /\ y.block \in gaps)
  <2>1. CASE y = x
    BY <1>4, <2>1
  <2>2. CASE y # x
    <3>1. y \in written \ Synced(Left(f))
      BY <1>1, <1>2, <1>7, <2>2 DEF Put, CutOff, WriteTo
    <3>2. QED
      BY <1>1, <1>7, <3>1, LeavingSyncs
  <2>3. QED
    BY <2>1, <2>2
<1>8. QED
  BY <1>1, <1>3, <1>5, <1>6, <1>7 DEF OnlyLastIsOpen, LastFile

(* So it is when storing a block fails. *)
LEMMA FailFiles ==
    ASSUME FInv, NEW b \in Block, NEW f \in File, FailToStore(b, f)
    PROVE  /\ Keeps(memory.index, written, written')
           /\ durable \cap written' \subseteq durable'
           /\ OnlyLastIsOpen'
<1> DEFINE x == Data(b, PosIn(f))
           left == CutOff(written, Left(f))
<1>1. /\ FindBlockPos(b, f) /\ written' \in {left, {y \in left : ~Overlap(x, y)}}
      /\ durable' = Synced(Left(f)) \cap written'
      /\ step' = step /\ gaps' = gaps /\ broken' = broken
  BY DEF FailToStore
<1>2. up /\ up' /\ memory'.last = f
  BY <1>1, PosEffect DEF up
<1>3. Keeps(memory.index, left, {y \in left : ~Overlap(x, y)})
  BY <1>1, PosIsFree
<1>4. Keeps(memory.index, written, written')
  BY <1>1, <1>2, <1>3, LeavingKeeps, KeepsTransitive
<1>5. written' \subseteq written
  BY <1>1 DEF CutOff
<1>6. ASSUME ~broken, NEW y \in written' \ durable'
      PROVE y.file = f \/ (y.kind = "rev" /\ y.block \in gaps)
  BY <1>1, <1>5, <1>6, LeavingSyncs
<1>7. QED
  BY <1>1, <1>2, <1>4, <1>6 DEF OnlyLastIsOpen, LastFile, Synced

(* The invariant holds after FindBlockPos and the writes that follow it,     *)
(* however far they came.                                                    *)
LEMMA PosStep ==
    ASSUME FInv, NEW b \in Block, NEW f \in File, FindBlockPos(b, f),
           tree' \in {tree, InfoWritten(f, InfoWith(b, f)), PosWritten(b, f)},
           treeOld' \subseteq treeOld \cup {tree, InfoWritten(f, InfoWith(b, f))},
           Keeps(memory.index, written, written'), durable \cap written' \subseteq durable', OnlyLastIsOpen',
           up', StepInv', failures' \in Nat, UNCHANGED <<coinTip, coinTipOld, gaps, broken>>
    PROVE  FInv'
<1> DEFINE info == InfoWith(b, f)
           sizes == InfoWritten(f, info).info
<1>1. /\ up
      /\ info \in InfoSet /\ info.nSize = Info(f).nSize + Size[b] /\ info.nUndoSize = Info(f).nUndoSize
      /\ memory' = [last |-> f, info |-> info, index |-> memory.index, tip |-> memory.tip]
      /\ sizes \in [File -> InfoSet] /\ sizes[f] = info /\ Covered(memory.index, sizes)
      /\ \A t \in {InfoWritten(f, info), PosWritten(b, f)} :
            TreeOK(t) /\ t.index = tree.index /\ t.info = sizes
  BY PosEffect
<1>2. /\ TreesInv /\ MemoryInv /\ OnlyLastIsOpen /\ OtherTypes /\ TreeOK(tree)
      /\ UndoIsThere(tree.index, written, gaps) /\ UndoIsThere(memory.index, written, gaps)
      /\ IndexWritten /\ ChainInv /\ CoinsInv
  BY DEF FInv, TreesInv, Trees
<1> HIDE DEF info, sizes
<1>3. TreeOK(tree') /\ tree'.index = tree.index /\ tree'.info \in {tree.info, sizes}
  BY <1>1, <1>2 DEF info
<1>4. TreesInv'
  <2>1. \A t \in Trees : TreeOK(t) /\ Extends(tree.index, t.index)
    BY <1>2 DEF TreesInv
  <2>2. Extends(tree.index, tree.index)
    BY ExtendsSelf
  <2>3. \A t \in Trees' : t \in Trees \/ t = InfoWritten(f, info) \/ t = tree'
    BY DEF Trees, info
  <2>4. QED
    BY <1>1, <1>3, <2>1, <2>2, <2>3 DEF TreesInv
<1>5. MemoryInv'
  <2>1. tree'.info[f].nSize <= info.nSize /\ tree'.info[f].nUndoSize <= info.nUndoSize
    <3>1. /\ Info(f) \in InfoSet /\ tree.info[f] \in InfoSet /\ Size[b] \in Nat
          /\ tree.info[f].nSize <= Info(f).nSize /\ tree.info[f].nUndoSize <= Info(f).nUndoSize
      BY <1>1, <1>2, InfoIsAbove, SizesAreNat DEF TreeOK, Known
    <3>2. /\ Info(f).nSize \in Nat /\ Info(f).nUndoSize \in Nat
          /\ tree.info[f].nSize \in Nat /\ tree.info[f].nUndoSize \in Nat
          /\ info.nSize \in Nat /\ info.nUndoSize \in Nat
      BY <1>1, <3>1 DEF InfoSet
    <3>3. tree.info[f].nSize <= info.nSize /\ tree.info[f].nUndoSize <= info.nUndoSize
      BY <1>1, <3>1, <3>2
    <3>4. QED
      BY <1>1, <1>3, <3>2, <3>3
  <2>2. Covered(memory.index, tree'.info)
    BY <1>1, <1>2, <1>3 DEF MemoryInv
  <2>3. memory.tip \in Mentioned(memory.index) /\ Extends(memory.index, tree'.index)
    BY <1>1, <1>2, <1>3 DEF MemoryInv
  <2>4. QED
    BY <1>1, <1>2, <2>1, <2>2, <2>3 DEF MemoryInv
<1>6. Keeps(tree.index, written, written') /\ Keeps(tree.index, durable, durable')
  BY <1>1, <1>2, DurableKept
<1>7. memory'.index = memory.index /\ memory'.tip = memory.tip
  BY <1>1
<1>8. UndoIsThere(tree'.index, written', gaps') /\ UndoIsThere(memory'.index, written', gaps')
  BY <1>2, <1>3, <1>6, <1>7, UndoStays
<1>9. IndexWritten'
  <2>1. step.at # "undone"
    BY DEF FindBlockPos, Idle
  <2>2. QED
    BY <1>1, <1>2, <1>3, <1>7, <2>1 DEF IndexWritten
<1>10. CoinsInv'
  <2>1. \A t \in Trees' : \E s \in Trees : Extends(t.index, s.index)
    BY <1>1, <1>3, ExtendsSelf DEF Trees, info
  <2>2. QED
    BY <1>2, <1>6, <2>1, CoinsStay DEF OtherTypes
<1>11. ChainInv'
  <2>1. Extends(memory'.index, memory.index)
    BY <1>7, ExtendsSelf
  <2>2. QED
    BY <1>1, <1>2, <1>7, <2>1, ChainStays DEF OtherTypes
<1>12. OtherTypes'
  BY <1>2 DEF OtherTypes
<1>13. QED
  BY <1>4, <1>5, <1>8, <1>9, <1>10, <1>11, <1>12 DEF FInv

(* The invariant holds after AcceptBlock has written the block, *)
LEMMA StoreStep == ASSUME FInv, NEW b \in Block, NEW f \in File, StoreBlock(b, f) PROVE FInv'
<1> DEFINE info == InfoWith(b, f)
           sizes == InfoWritten(f, info).info
<1>1. /\ FindBlockPos(b, f) /\ tree' = PosWritten(b, f)
      /\ treeOld' = treeOld \cup {tree, InfoWritten(f, info)}
      /\ step' = [at |-> "stored", block |-> b]
      /\ UNCHANGED <<coinTip, coinTipOld, failures, gaps, broken>>
  BY DEF StoreBlock
<1>2. /\ up /\ b \notin DOMAIN memory.index
      /\ info \in InfoSet /\ info.nSize = Info(f).nSize + Size[b]
      /\ memory' = [last |-> f, info |-> info, index |-> memory.index, tip |-> memory.tip]
      /\ sizes[f] = info /\ tree'.info = sizes
  BY <1>1, PosEffect
<1>3. MemoryInv /\ TreeOK(tree) /\ OtherTypes
  BY DEF FInv, TreesInv, Trees
<1>4. /\ Info(f) \in InfoSet
      /\ \A k \in DOMAIN memory.index :
            memory.index[k].nFile = f => memory.index[k].nDataPos + Size[k] <= Info(f).nSize
  BY <1>2, <1>3, InfoIsAbove
<1>5. Info(f).nSize \in Nat /\ Size[b] \in Nat /\ b \in Known
  BY <1>4, SizesAreNat DEF InfoSet, Known
<1>6. StepInv'
  <2>1. Size[b] <= info.nSize /\ info.nSize - Size[b] = Info(f).nSize
    BY <1>2, <1>5
  <2> HIDE DEF info, sizes
  <2>2. QED
    BY <1>1, <1>2, <1>4, <1>5, <2>1 DEF StepInv
<1>7. up' /\ failures' \in Nat
  BY <1>1, <1>3 DEF up, OtherTypes
<1> HIDE DEF sizes
<1>8. QED
  BY <1>1, <1>6, <1>7, StoreFiles, PosStep

(* and when that fails. *)
LEMMA FailStep == ASSUME FInv, NEW b \in Block, NEW f \in File, FailToStore(b, f) PROVE FInv'
<1>1. /\ FindBlockPos(b, f) /\ failures' = failures + 1
      /\ tree' \in {tree, InfoWritten(f, InfoWith(b, f)), PosWritten(b, f)}
      /\ treeOld' = treeOld \cup {tree} \cup
             (IF tree' = tree THEN {} ELSE {InfoWritten(f, InfoWith(b, f))})
      /\ step = Idle /\ UNCHANGED <<step, coinTip, coinTipOld, gaps, broken>>
  BY DEF FailToStore, Fail, FindBlockPos
<1>2. StepInv /\ OtherTypes
  BY DEF FInv
<1>3. up' /\ failures' \in Nat /\ StepInv'
  BY <1>1, <1>2 DEF up, Idle, OtherTypes, StepInv
<1>4. treeOld' \subseteq treeOld \cup {tree, InfoWritten(f, InfoWith(b, f))}
  BY <1>1
<1>5. QED
  BY <1>1, <1>3, <1>4, FailFiles, PosStep

-----------------------------------------------------------------------------
(* The records of a block *)

(* What is not written to is kept. *)
LEMMA KeepsSelf == ASSUME NEW ix, NEW S PROVE Keeps(ix, S, S)
BY DEF Keeps

(* An index that memory's extends is as sound as that. *)
LEMMA TreeBelow ==
    ASSUME TreeOK(tree), NEW ix, NEW jx, IndexOK(jx), Extends(ix, jx), Covered(ix, tree.info), ApartIn(ix),
           NEW t, t = [tree EXCEPT !.index = jx]
    PROVE  TreeOK(t) /\ t = [last |-> tree.last, info |-> tree.info, index |-> jx]
<1>1. t = [last |-> tree.last, info |-> tree.info, index |-> jx]
  BY DEF TreeOK
<1>2. Covered(jx, tree.info) /\ ApartIn(jx)
  BY OlderIsApart
<1>3. QED
  BY <1>1, <1>2 DEF TreeOK

(* The invariant holds after AddToBlockIndex, whether its write of the index *)
(* succeeds or not.                                                          *)
LEMMA AddStep == ASSUME FInv, AddToBlockIndex PROVE FInv'
<1> DEFINE b == step.block
           pos == memory.info.nSize - Size[b]
           e == Entry(memory.last, pos)
           mx == Added(memory.index, b, e)
           tx == Added(tree.index, b, e)
<1>1. /\ step.at = "stored" /\ memory' = [memory EXCEPT !.index = mx] /\ step' = Idle
      /\ \/ /\ tree' = [tree EXCEPT !.index = tx] /\ treeOld' = treeOld \cup {tree}
            /\ UNCHANGED <<broken, failures>>
         \/ failures' = failures + 1 /\ broken' = TRUE /\ UNCHANGED <<tree, treeOld>>
      /\ UNCHANGED <<coinTip, coinTipOld, written, durable, gaps>>
  BY DEF AddToBlockIndex, Added, Fail
<1>2. /\ TreesInv /\ MemoryInv /\ StepInv /\ OnlyLastIsOpen /\ OtherTypes /\ TreeOK(tree)
      /\ UndoIsThere(tree.index, written, gaps) /\ UndoIsThere(memory.index, written, gaps)
      /\ IndexWritten /\ ChainInv /\ CoinsInv
  BY DEF FInv, TreesInv, Trees
<1>3. up /\ up'
  BY <1>1 DEF up, Idle
<1>4. /\ b \in Block /\ b \notin DOMAIN memory.index
      /\ tree.info[memory.last] = memory.info /\ Size[b] <= memory.info.nSize
      /\ \A k \in DOMAIN memory.index :
            memory.index[k].nFile = memory.last => memory.index[k].nDataPos + Size[k] <= pos
      /\ memory.last \in File /\ memory.info \in InfoSet
      /\ IndexOK(memory.index) /\ Covered(memory.index, tree.info) /\ ApartIn(memory.index)
      /\ Extends(memory.index, tree.index) /\ IndexOK(tree.index) /\ tree.info \in [File -> InfoSet]
  BY <1>1, <1>2, <1>3 DEF StepInv, MemoryInv, TreeOK
<1>5. pos \in Nat /\ pos + Size[b] <= tree.info[memory.last].nSize
  <2>1. memory.info.nSize \in Nat /\ Size[b] \in Nat
    BY <1>4, SizesAreNat DEF InfoSet, Known
  <2>2. QED
    BY <1>4, <2>1
<1> HIDE DEF b, pos
<1>6. IndexOK(mx) /\ Covered(mx, tree.info) /\ ApartIn(mx) /\ Extends(mx, memory.index)
  <2>1. mx = Added(memory.index, b, Entry(memory.last, pos))
    OBVIOUS
  <2> HIDE DEF mx, e
  <2>2. QED
    BY <1>4, <1>5, <2>1, AddedIndex
<1>7. b \notin DOMAIN tree.index
  BY <1>4 DEF Extends
<1>8. IndexOK(tx) /\ Extends(tx, tree.index) /\ Extends(mx, tx) /\ Extends(mx, tree.index)
  <2>1. e \in EntrySet /\ e.nUndoPos = None
    BY <1>4, <1>5 DEF Entry, EntrySet
  <2> HIDE DEF e
  <2>2. IndexOK(tx)
    BY <1>4, <2>1 DEF IndexOK, Added, Known
  <2>3. Extends(tx, tree.index)
    BY <1>7 DEF Extends, Added
  <2>4. Extends(mx, tx)
    BY <1>4, <1>7 DEF Extends, Added
  <2>5. QED
    BY <2>2, <2>3, <2>4, ExtendsTrans
<1>9. UndoIsThere(mx, written, gaps) /\ UndoIsThere(tx, written, gaps)
  <2>1. e.nUndoPos = None
    BY DEF Entry
  <2> HIDE DEF e
  <2>2. QED
    BY <1>2, <2>1 DEF UndoIsThere, Added
<1>a. memory' = [last |-> memory.last, info |-> memory.info, index |-> mx, tip |-> memory.tip]
  BY <1>1, <1>2 DEF MemoryInv
<1>10. TreeOK([tree EXCEPT !.index = tx]) /\
       [tree EXCEPT !.index = tx] = [last |-> tree.last, info |-> tree.info, index |-> tx]
  BY <1>2, <1>6, <1>8, TreeBelow
<1>b. /\ tree'.last = tree.last /\ tree'.info = tree.info /\ TreeOK(tree')
      /\ tree'.index = tx \/ (tree'.index = tree.index /\ broken' = TRUE /\ treeOld' = treeOld)
      /\ treeOld' \subseteq Trees
  BY <1>1, <1>2, <1>10 DEF Trees
<1>c. \A k \in DOMAIN mx : k = b \/ k \in DOMAIN memory.index
  BY DEF Added
<1>d. /\ \A k \in DOMAIN memory.index : mx[k] = memory.index[k] /\ k # b
      /\ \A k \in DOMAIN tree.index : tx[k] = tree.index[k] /\ k \in DOMAIN tx
      /\ b \in DOMAIN mx /\ b \in DOMAIN tx /\ mx[b] = tx[b]
  BY <1>4, <1>7 DEF Added
<1> HIDE DEF mx, tx
<1>11. Extends(tree'.index, tree.index) /\ Extends(mx, tree'.index)
  BY <1>8, <1>b, ExtendsSelf
<1>12. TreesInv'
  <2>1. \A t \in Trees : TreeOK(t) /\ Extends(tree'.index, t.index)
    BY <1>2, <1>11, ExtendsTrans DEF TreesInv
  <2>2. Extends(tree'.index, tree'.index)
    BY ExtendsSelf
  <2>3. \A t \in Trees' : t \in Trees \/ t = tree'
    BY <1>b DEF Trees
  <2>4. QED
    BY <1>b, <2>1, <2>2, <2>3 DEF TreesInv
<1>13. MemoryInv'
  <2>1. memory.tip \in Mentioned(memory.index)
    BY <1>2, <1>3 DEF MemoryInv
  <2>2. memory.tip \in Mentioned(mx)
    BY <1>d, <2>1, <1>6 DEF Mentioned, Extends
  <2>3. QED
    BY <1>2, <1>3, <1>6, <1>11, <1>a, <1>b, <2>2 DEF MemoryInv
<1>14. StepInv'
  BY <1>1 DEF StepInv, Idle, Known
<1>18. broken' \in BOOLEAN /\ (broken' = FALSE => broken = FALSE)
  BY <1>1, <1>2 DEF OtherTypes
<1>15. OnlyLastIsOpen'
  BY <1>1, <1>2, <1>3, <1>18, <1>a, <1>b DEF OnlyLastIsOpen, LastFile
<1>16. UndoIsThere(tree'.index, written', gaps') /\ UndoIsThere(memory'.index, written', gaps')
  BY <1>1, <1>2, <1>9, <1>a, <1>b
<1>17. IndexWritten'
  <2>1. SUFFICES ASSUME ~broken', NEW k \in DOMAIN mx
                 PROVE k \in DOMAIN tree'.index /\ mx[k].nUndoPos = tree'.index[k].nUndoPos
    BY <1>a DEF IndexWritten
  <2>2. ~broken /\ tree'.index = tx
    BY <1>1, <1>b, <2>1
  <2>3. step # [at |-> "undone", block |-> k]
    BY <1>1
  <2>4. QED
    BY <1>2, <1>3, <1>c, <1>d, <2>2, <2>3 DEF IndexWritten
<1>19. ChainInv'
  BY <1>1, <1>2, <1>3, <1>6, <1>18, <1>a, KeepsSelf, ChainStays
<1>20. CoinsInv'
  <2>1. Keeps(tree.index, durable, durable')
    BY <1>1, KeepsSelf
  <2>2. \A t \in Trees' : \E s \in Trees : Extends(t.index, s.index)
    <3>1. \A t \in Trees' : t \in Trees \/ t = tree'
      BY <1>b DEF Trees
    <3>2. tree \in Trees
      BY DEF Trees
    <3>3. QED
      BY <1>11, <3>1, <3>2, ExtendsSelf
  <2>3. QED
    BY <1>1, <1>2, <1>18, <2>1, <2>2, CoinsStay
<1>21. OtherTypes'
  BY <1>1, <1>2, <1>18 DEF OtherTypes
<1>22. QED
  BY <1>12, <1>13, <1>14, <1>15, <1>16, <1>17, <1>19, <1>20, <1>21 DEF FInv

-----------------------------------------------------------------------------
(* The undo data of a block *)

(* What FindUndoPos leaves in memory and in the database, and what memory    *)
(* will have on record.                                                      *)
LEMMA UndoPosEffect ==
    ASSUME FInv, NEW b \in Block, FindUndoPos(b)
    PROVE  LET f == memory.index[b].nFile
               pos == UndoFor(b).pos
               grown == UndoInfoFor(b)
               jx == [memory.index EXCEPT ![b].nUndoPos = pos]
               sizes == InfoWritten(f, grown).info
           IN /\ up /\ b \in DOMAIN memory.index /\ f \in File /\ memory.index[b].nUndoPos = None
              /\ pos \in Nat
              /\ \A k \in DOMAIN memory.index :
                    memory.index[k].nFile = f /\ memory.index[k].nUndoPos # None =>
                        memory.index[k].nUndoPos + UndoSize[k] <= pos
              /\ InfoWritten(f, grown) = [last |-> tree.last, info |-> sizes, index |-> tree.index]
              /\ TreeOK(InfoWritten(f, grown)) /\ Covered(memory.index, sizes)
              /\ InfoGrown(b) \in InfoSet
              /\ \A i \in {tree.info, sizes} : /\ i[memory.last].nSize <= InfoGrown(b).nSize
                                               /\ i[memory.last].nUndoSize <= InfoGrown(b).nUndoSize
              /\ IndexOK(jx) /\ Covered(jx, sizes) /\ ApartIn(jx) /\ Extends(jx, memory.index)
              /\ jx[b].nUndoPos = pos
<1> DEFINE f == memory.index[b].nFile
           pos == UndoFor(b).pos
           grown == UndoInfoFor(b)
           jx == [memory.index EXCEPT ![b].nUndoPos = pos]
           sizes == InfoWritten(f, grown).info
<1>1. /\ up /\ MemoryInv /\ TreeOK(tree) /\ b \in DOMAIN memory.index /\ memory.index[b].nUndoPos = None
  BY DEF FInv, TreesInv, Trees, FindUndoPos, up, Idle
<1>2. /\ IndexOK(memory.index) /\ Covered(memory.index, tree.info) /\ ApartIn(memory.index)
      /\ memory.last \in File /\ memory.info \in InfoSet /\ tree.info \in [File -> InfoSet]
  BY <1>1 DEF MemoryInv, TreeOK
<1>3. f \in File
  BY <1>1, <1>2 DEF IndexOK, EntrySet
<1>4. /\ Info(f) \in InfoSet /\ tree.info[f] \in InfoSet
      /\ tree.info[f].nSize <= Info(f).nSize /\ tree.info[f].nUndoSize <= Info(f).nUndoSize
      /\ \A k \in DOMAIN memory.index :
            memory.index[k].nFile = f /\ memory.index[k].nUndoPos # None =>
                memory.index[k].nUndoPos + UndoSize[k] <= Info(f).nUndoSize
  BY <1>1, <1>2, <1>3, InfoIsAbove
<1>5. pos = Info(f).nUndoSize /\ grown = [Info(f) EXCEPT !.nUndoSize = @ + UndoSize[b]]
  BY DEF UndoFor, Undo, UndoInfoFor, UndoInfo
<1>6. UndoSize[b] \in Nat
  BY SizesAreNat DEF Known
<1> HIDE DEF f, pos, grown
<1>7. /\ Info(f).nSize \in Nat /\ pos \in Nat /\ tree.info[f].nSize \in Nat /\ tree.info[f].nUndoSize \in Nat
      /\ grown \in InfoSet /\ grown.nSize = Info(f).nSize /\ grown.nUndoSize = pos + UndoSize[b]
  BY <1>4, <1>5, <1>6 DEF InfoSet
<1>8. tree.info[f].nSize <= grown.nSize /\ tree.info[f].nUndoSize <= grown.nUndoSize
  BY <1>4, <1>5, <1>6, <1>7
<1>9. /\ AsLarge(tree.info, sizes) /\ sizes \in [File -> InfoSet] /\ sizes[f] = grown
      /\ InfoWritten(f, grown) = [last |-> tree.last, info |-> sizes, index |-> tree.index]
      /\ \A g \in File \ {f} : sizes[g] = tree.info[g]
      /\ Covered(tree.index, sizes)
  BY <1>1, <1>3, <1>7, <1>8, InfoGrows
<1> HIDE DEF sizes
<1>10. Covered(memory.index, sizes)
  BY <1>2, <1>9, CoveredStays
<1>11. IndexOK(jx) /\ Covered(jx, sizes) /\ ApartIn(jx) /\ Extends(jx, memory.index) /\ jx[b].nUndoPos = pos
  <2>1. memory.index[b].nFile = f /\ memory.index[b].nUndoPos = None /\ b \in Block \cap DOMAIN memory.index
    BY <1>1 DEF f
  <2>2. pos + UndoSize[b] <= sizes[f].nUndoSize /\ pos \in Nat
    BY <1>6, <1>7, <1>9
  <2>3. jx = [memory.index EXCEPT ![b].nUndoPos = pos]
    OBVIOUS
  <2>4. \A k \in DOMAIN memory.index :
           memory.index[k].nFile = memory.index[b].nFile /\ memory.index[k].nUndoPos # None =>
               memory.index[k].nUndoPos + UndoSize[k] <= pos
    BY <1>4, <1>5, <2>1
  <2> HIDE DEF jx
  <2>5. QED
    BY <1>2, <1>9, <1>10, <2>1, <2>2, <2>3, <2>4, UndoneIndex
<1>12. TreeOK(InfoWritten(f, grown))
  BY <1>1, <1>9 DEF TreeOK
<1>13. InfoGrown(b) = IF f = memory.last THEN grown ELSE memory.info
  BY DEF InfoGrown, f, grown
<1>14. InfoGrown(b) \in InfoSet
  BY <1>2, <1>7, <1>13
<1>15. ASSUME NEW i \in {tree.info, sizes}
       PROVE  /\ i[memory.last].nSize <= InfoGrown(b).nSize
              /\ i[memory.last].nUndoSize <= InfoGrown(b).nUndoSize
  <2>1. /\ tree.info[memory.last].nSize <= memory.info.nSize
        /\ tree.info[memory.last].nUndoSize <= memory.info.nUndoSize
    BY <1>1 DEF MemoryInv
  <2>2. CASE f = memory.last
    <3>1. i[memory.last] = tree.info[f] \/ i[memory.last] = grown
      BY <1>9, <2>2
    <3>2. grown.nSize <= grown.nSize /\ grown.nUndoSize <= grown.nUndoSize
      BY <1>6, <1>7
    <3>3. QED
      BY <1>8, <1>13, <2>2, <3>1, <3>2
  <2>3. CASE f # memory.last
    <3>1. i[memory.last] = tree.info[memory.last]
      BY <1>2, <1>9, <2>3
    <3>2. QED
      BY <1>13, <2>1, <2>3, <3>1
  <2>4. QED
    BY <2>2, <2>3
<1>16. \A k \in DOMAIN memory.index :
          memory.index[k].nFile = f /\ memory.index[k].nUndoPos # None =>
              memory.index[k].nUndoPos + UndoSize[k] <= pos
  BY <1>4, <1>5
<1>17. QED
  BY <1>1, <1>3, <1>7, <1>9, <1>10, <1>11, <1>12, <1>14, <1>15, <1>16, Zenon DEF pos, f, grown, sizes

(* Where FindUndoPos puts undo data nothing is on record. *)
LEMMA UndoIsFree ==
    ASSUME FInv, NEW b \in Block, FindUndoPos(b)
    PROVE  LET x == UndoFor(b) IN
           /\ x.kind = "rev" /\ x.file = memory.index[b].nFile /\ x.block = b
           /\ Keeps(memory.index, written, Put(x, written))
           /\ Keeps(memory.index, written, {y \in written : ~Overlap(x, y)})
<1> DEFINE x == UndoFor(b)
           f == memory.index[b].nFile
<1>1. /\ up /\ b \in DOMAIN memory.index /\ memory.index[b].nUndoPos = None /\ x.pos \in Nat
      /\ \A k \in DOMAIN memory.index :
            memory.index[k].nFile = f /\ memory.index[k].nUndoPos # None =>
                memory.index[k].nUndoPos + UndoSize[k] <= x.pos
  BY UndoPosEffect
<1>2. MemoryInv /\ UndoIsThere(memory.index, written, gaps) /\ IndexOK(memory.index)
  BY DEF FInv, MemoryInv
<1>3. /\ x.kind = "rev" /\ x.file = f /\ x.size = UndoSize[b] /\ x.block = b
      /\ UndoSize[b] \in Nat
  BY <1>1, SizesAreNat DEF UndoFor, Undo, Known
<1> HIDE DEF x, f
<1>4. Keeps(memory.index, written, Put(x, written))
  BY <1>1, <1>2, <1>3, PutKeepsUndo
<1>5. Keeps(memory.index, written, {y \in written : ~Overlap(x, y)})
  <2>1. ASSUME NEW k \in DOMAIN memory.index PROVE x # Data(k, memory.index[k])
    BY <1>3 DEF Data
  <2>2. ASSUME NEW k \in DOMAIN memory.index, memory.index[k].nUndoPos # None PROVE x # Undo(k, memory.index[k])
    BY <1>1, <1>3, <2>2 DEF Undo
  <2>3. QED
    BY <1>4, <2>1, <2>2 DEF Keeps, Put
<1>6. QED
  BY <1>3, <1>4, <1>5 DEF x, f

(* Writing undo data destroys nothing that is on record; if it is not synced *)
(* it is in the last file or in a gap.                                       *)
LEMMA UndoFiles ==
    ASSUME FInv, NEW b \in Block, StoreUndo(b)
    PROVE  /\ Keeps(memory.index, written, written')
           /\ durable \cap written' \subseteq durable'
           /\ OnlyLastIsOpen' /\ UndoFor(b) \in written' /\ gaps \subseteq gaps' /\ gaps' \subseteq gaps \cup {b}
<1> DEFINE x == UndoFor(b)
           f == memory.index[b].nFile
<1>1. /\ FindUndoPos(b) /\ written' = Put(x, written) /\ up' /\ broken' = broken
      /\ memory' = [memory EXCEPT !.info = InfoGrown(b), !.index[b].nUndoPos = x.pos]
  BY DEF StoreUndo, up
<1>2. PICK ibd \in BOOLEAN :
          /\ durable' = WriteTo(x, durable, written', ibd)
          /\ gaps' = IF ibd /\ f # memory.last THEN gaps \cup {b} ELSE gaps
  BY DEF StoreUndo
<1>3. up /\ MemoryInv /\ OnlyLastIsOpen
  BY <1>1 DEF FInv, FindUndoPos, up, Idle
<1>4. memory'.last = memory.last
  BY <1>1, <1>3 DEF MemoryInv
<1>5. x.kind = "rev" /\ x.file = f /\ x.block = b /\ Keeps(memory.index, written, written')
  BY <1>1, UndoIsFree
<1> HIDE DEF x, f
<1>6. x \in written' /\ durable \cap written' \subseteq durable' /\ durable' \subseteq written'
  BY <1>1, <1>2 DEF WriteTo, Put
<1>7. gaps \subseteq gaps' /\ gaps' \subseteq gaps \cup {b}
  BY <1>2
<1>8. ASSUME ~broken, NEW y \in written' \ durable'
      PROVE y.file = memory.last \/ (y.kind = "rev" /\ y.block \in gaps')
  <2>1. CASE y = x
    <3>1. ibd
      BY <1>2, <1>6, <1>8, <2>1 DEF WriteTo
    <3>2. QED
      BY <1>2, <1>5, <2>1, <3>1
  <2>2. CASE y # x
    <3>1. y \in written \ durable
      BY <1>1, <1>6, <1>8, <2>2 DEF Put
    <3>2. QED
      BY <1>3, <1>7, <1>8, <3>1 DEF OnlyLastIsOpen, LastFile
  <2>3. QED
    BY <2>1, <2>2
<1>9. QED
  BY <1>1, <1>4, <1>5, <1>6, <1>7, <1>8 DEF OnlyLastIsOpen, LastFile, x

(* When the write fails nothing on record is destroyed, either. *)
LEMMA FailUndoFiles ==
    ASSUME FInv, NEW b \in Block, FailToStoreUndo(b)
    PROVE  Keeps(memory.index, written, written') /\ durable \cap written' \subseteq durable' /\ OnlyLastIsOpen'
<1>1. /\ FindUndoPos(b) /\ written' \in {written, {y \in written : ~Overlap(UndoFor(b), y)}}
      /\ durable' = durable \cap written'
      /\ step' = step /\ gaps' = gaps /\ broken' = broken
      /\ memory' = [memory EXCEPT !.info = InfoGrown(b)]
  BY DEF FailToStoreUndo
<1>2. up /\ MemoryInv /\ OnlyLastIsOpen
  BY <1>1 DEF FInv, FindUndoPos, up, Idle
<1>3. memory'.last = memory.last /\ up'
  BY <1>1, <1>2 DEF MemoryInv, up
<1>4. Keeps(memory.index, written, written')
  BY <1>1, UndoIsFree, KeepsSelf
<1>5. QED
  BY <1>1, <1>2, <1>3, <1>4 DEF OnlyLastIsOpen, LastFile

(* The invariant holds when it fails. *)
LEMMA FailUndoStep == ASSUME FInv, NEW b \in Block, FailToStoreUndo(b) PROVE FInv'
<1> DEFINE t0 == InfoWritten(memory.index[b].nFile, UndoInfoFor(b))
<1>1. /\ FindUndoPos(b) /\ failures' = failures + 1 /\ tree' \in {tree, t0} /\ treeOld' = treeOld \cup {tree}
      /\ memory' = [memory EXCEPT !.info = InfoGrown(b)]
      /\ step = Idle /\ UNCHANGED <<step, coinTip, coinTipOld, gaps, broken>>
  BY DEF FailToStoreUndo, Fail, FindUndoPos
<1>2. /\ up /\ TreeOK(t0) /\ Covered(memory.index, t0.info) /\ InfoGrown(b) \in InfoSet
      /\ t0 = [last |-> tree.last, info |-> t0.info, index |-> tree.index]
      /\ \A i \in {tree.info, t0.info} : /\ i[memory.last].nSize <= InfoGrown(b).nSize
                                         /\ i[memory.last].nUndoSize <= InfoGrown(b).nUndoSize
  BY <1>1, UndoPosEffect
<1>3. /\ TreesInv /\ MemoryInv /\ StepInv /\ OnlyLastIsOpen /\ OtherTypes /\ TreeOK(tree)
      /\ UndoIsThere(tree.index, written, gaps) /\ UndoIsThere(memory.index, written, gaps)
      /\ IndexWritten /\ ChainInv /\ CoinsInv
  BY DEF FInv, TreesInv, Trees
<1> HIDE DEF t0
<1>4. TreeOK(tree') /\ tree'.index = tree.index /\ tree'.info \in {tree.info, t0.info}
  BY <1>1, <1>2, <1>3
<1>5. memory' = [last |-> memory.last, info |-> InfoGrown(b), index |-> memory.index, tip |-> memory.tip]
  BY <1>1, <1>3 DEF MemoryInv
<1>6. memory'.index = memory.index /\ memory'.tip = memory.tip /\ memory'.last = memory.last
      /\ memory'.info = InfoGrown(b)
  BY <1>5
<1>7. up' /\ Extends(tree.index, tree.index) /\ Extends(memory.index, memory.index)
  BY <1>1, <1>2, ExtendsSelf DEF up
<1>8. Keeps(memory.index, written, written') /\ durable \cap written' \subseteq durable' /\ OnlyLastIsOpen'
  BY FailUndoFiles
<1>9. Keeps(tree.index, written, written') /\ Keeps(tree.index, durable, durable')
  BY <1>2, <1>3, <1>8, DurableKept
<1>10. \A t \in Trees' : t \in Trees \/ t = tree'
  BY <1>1 DEF Trees
<1>11. TreesInv'
  BY <1>3, <1>4, <1>7, <1>10 DEF TreesInv
<1>12. MemoryInv'
  BY <1>2, <1>3, <1>4, <1>5, <1>6 DEF MemoryInv
<1>13. StepInv'
  BY <1>1, <1>3 DEF StepInv, Idle
<1>14. UndoIsThere(tree'.index, written', gaps') /\ UndoIsThere(memory'.index, written', gaps')
  BY <1>1, <1>3, <1>4, <1>6, <1>8, <1>9, UndoStays
<1>15. IndexWritten'
  <2>1. step.at # "undone"
    BY <1>1 DEF Idle
  <2>2. QED
    BY <1>1, <1>2, <1>3, <1>4, <1>6, <2>1 DEF IndexWritten
<1>16. CoinsInv'
  <2>1. \A t \in Trees' : \E s \in Trees : Extends(t.index, s.index)
    BY <1>4, <1>7, <1>10, ExtendsSelf DEF Trees
  <2>2. QED
    BY <1>1, <1>3, <1>9, <2>1, CoinsStay DEF OtherTypes
<1>17. ChainInv'
  BY <1>1, <1>2, <1>3, <1>6, <1>7, <1>8, ChainStays DEF OtherTypes
<1>18. OtherTypes'
  BY <1>1, <1>3 DEF OtherTypes
<1>19. QED
  BY <1>8, <1>11, <1>12, <1>13, <1>14, <1>15, <1>16, <1>17, <1>18 DEF FInv

(* The invariant holds after ConnectBlock has written the undo data. *)
LEMMA UndoStep == ASSUME FInv, NEW b \in Block, StoreUndo(b) PROVE FInv'
<1> DEFINE e == memory.index[b]
           pos == UndoFor(b).pos
           jx == [memory.index EXCEPT ![b].nUndoPos = pos]
           t0 == InfoWritten(e.nFile, UndoInfoFor(b))
           mi == InfoGrown(b)
<1>1. /\ FindUndoPos(b) /\ step = Idle /\ Parent[b] = memory.tip /\ Data(b, e) \in written
      /\ memory' = [memory EXCEPT !.info = mi, !.index[b].nUndoPos = pos]
      /\ tree' = t0 /\ treeOld' = treeOld \cup {tree}
      /\ step' = [at |-> "undone", block |-> b]
      /\ UNCHANGED <<coinTip, coinTipOld, failures, broken>>
  BY DEF StoreUndo, FindUndoPos, IsReadable
<1>2. /\ up /\ b \in DOMAIN memory.index /\ e.nFile \in File /\ e.nUndoPos = None /\ pos \in Nat
      /\ t0 = [last |-> tree.last, info |-> t0.info, index |-> tree.index] /\ TreeOK(t0)
      /\ mi \in InfoSet
      /\ t0.info[memory.last].nSize <= mi.nSize /\ t0.info[memory.last].nUndoSize <= mi.nUndoSize
      /\ IndexOK(jx) /\ Covered(jx, t0.info) /\ ApartIn(jx) /\ Extends(jx, memory.index)
      /\ jx[b].nUndoPos = pos
  BY <1>1, UndoPosEffect
<1>3. /\ TreesInv /\ MemoryInv /\ StepInv /\ OnlyLastIsOpen /\ OtherTypes /\ TreeOK(tree)
      /\ UndoIsThere(tree.index, written, gaps) /\ UndoIsThere(memory.index, written, gaps)
      /\ IndexWritten /\ ChainInv /\ CoinsInv
  BY DEF FInv, TreesInv, Trees
<1>4. up'
  BY <1>1 DEF up
<1>5. /\ DOMAIN jx = DOMAIN memory.index /\ \A k \in DOMAIN jx \ {b} : jx[k] = memory.index[k]
      /\ jx[b].nUndoPos # None
  BY <1>2
<1>6. /\ Keeps(memory.index, written, written') /\ durable \cap written' \subseteq durable'
      /\ OnlyLastIsOpen' /\ UndoFor(b) \in written' /\ gaps \subseteq gaps' /\ gaps' \subseteq gaps \cup {b}
  BY UndoFiles
<1>7. Undo(b, jx[b]) = UndoFor(b)
  BY <1>2 DEF UndoFor, Undo, Extends
<1>8. memory' = [last |-> memory.last, info |-> mi, index |-> jx, tip |-> memory.tip]
  <2> HIDE DEF mi, pos
  <2>1. memory = [last |-> memory.last, info |-> memory.info, index |-> memory.index, tip |-> memory.tip]
    BY <1>3 DEF MemoryInv
  <2>2. QED
    BY <1>1, <2>1
<1> HIDE DEF jx, t0, mi, pos
<1>9. /\ memory'.index = jx /\ memory'.tip = memory.tip /\ memory'.last = memory.last /\ memory'.info = mi
      /\ tree'.index = tree.index /\ tree'.info = t0.info
  <2>1. t0.index = tree.index
    BY <1>2
  <2>2. tree' = t0
    BY <1>1
  <2>3. QED
    BY <1>8, <2>1, <2>2
<1>10. Keeps(tree.index, written, written') /\ Keeps(tree.index, durable, durable')
  BY <1>2, <1>3, <1>6, DurableKept
<1>11. TreesInv'
  <2>1. \A t \in treeOld \cup {tree} : TreeOK(t) /\ Extends(tree.index, t.index)
    BY <1>3 DEF TreesInv, Trees
  <2>2. Extends(tree.index, tree.index)
    BY ExtendsSelf
  <2>3. \A t \in Trees' : t \in treeOld \cup {tree} \/ t = tree'
    BY <1>1 DEF Trees
  <2>4. QED
    BY <1>1, <1>2, <1>9, <2>1, <2>2, <2>3 DEF TreesInv
<1>12. MemoryInv'
  <2>1. /\ Extends(memory.index, tree.index) /\ memory.tip \in Mentioned(memory.index)
        /\ memory.last \in File
    BY <1>2, <1>3 DEF MemoryInv
  <2>2. Extends(jx, tree.index)
    BY <1>2, <2>1, ExtendsTrans
  <2>3. memory.tip \in Mentioned(jx)
    BY <1>5, <2>1 DEF Mentioned
  <2>4. QED
    BY <1>2, <1>8, <1>9, <2>1, <2>2, <2>3 DEF MemoryInv
<1>13. StepInv'
  <2>1. Data(b, jx[b]) \in written' /\ b \in Known /\ b \in Block \cap DOMAIN jx
    <3>1. Data(b, memory.index[b]) \in written'
      BY <1>1, <1>2, <1>6 DEF Keeps
    <3>2. Data(b, jx[b]) = Data(b, memory.index[b])
      BY <1>2 DEF Extends, Data
    <3>3. QED
      BY <1>2, <1>5, <3>1, <3>2 DEF Known
  <2>2. QED
    BY <1>1, <1>5, <1>9, <2>1 DEF StepInv
<1>14. UndoIsThere(tree'.index, written', gaps')
  BY <1>3, <1>6, <1>9, <1>10, UndoStays
<1>15. UndoIsThere(memory'.index, written', gaps')
  <2>1. UndoIsThere(memory.index, written', gaps')
    BY <1>3, <1>6, UndoStays
  <2>2. QED
    BY <1>5, <1>6, <1>7, <1>9, <2>1 DEF UndoIsThere
<1>16. IndexWritten'
  <2>1. step.at # "undone"
    BY <1>1 DEF Idle
  <2>2. QED
    BY <1>1, <1>2, <1>3, <1>5, <1>9, <2>1 DEF IndexWritten
<1>17. CoinsInv'
  <2>1. \A t \in Trees' : \E s \in Trees : Extends(t.index, s.index)
    <3>1. \A t \in Trees' : t \in Trees \/ t = tree'
      BY <1>1 DEF Trees
    <3>2. tree \in Trees
      BY DEF Trees
    <3>3. QED
      BY <1>9, <3>1, <3>2, ExtendsSelf
  <2>2. QED
    BY <1>1, <1>3, <1>6, <1>10, <2>1, CoinsStay DEF OtherTypes
<1>18. ChainInv'
  BY <1>1, <1>2, <1>3, <1>6, <1>9, ChainStays DEF OtherTypes
<1>19. OtherTypes'
  BY <1>1, <1>3, <1>6 DEF OtherTypes
<1>20. QED
  BY <1>6, <1>11, <1>12, <1>13, <1>14, <1>15, <1>16, <1>17, <1>18, <1>19 DEF FInv

-----------------------------------------------------------------------------
(* Connecting and disconnecting *)

(* Undo data is readable by any record of it, in memory or in the database. *)
LEMMA UndoOlder ==
    ASSUME NEW ix, NEW older, Extends(ix, older), NEW S, NEW apart, UndoIsThere(ix, S, apart)
    PROVE  UndoIsThere(older, S, apart)
BY SameStretch DEF UndoIsThere

(* A block that can be read and undone is connected to a chain that is on    *)
(* record.                                                                   *)
LEMMA ChildIsIn ==
    ASSUME NEW ix, NEW S, NEW apart, NEW b \in Block, b \in DOMAIN ix, IsIn(Parent[b], ix, S, apart),
           Data(b, ix[b]) \in S, ix[b].nUndoPos # None, UndoIsThere(ix, S, apart)
    PROVE  IsIn(b, ix, S, apart)
<1>1. b \notin apart => Undo(b, ix[b]) \in S
  BY DEF UndoIsThere
<1>2. OnChain[b] \subseteq {b} \cup OnChain[Parent[b]]
  BY ChainOfChild
<1>3. QED
  BY <1>1, <1>2 DEF IsIn

(* The invariant holds after ConnectTip, and when the write of the index     *)
(* failed.                                                                   *)
LEMMA IndexUndoStep == ASSUME FInv, IndexUndo PROVE FInv'
<1> DEFINE b == step.block
           tx == Added(tree.index, b, memory.index[b])
<1>1. /\ step.at = "undone"
      /\ \/ /\ tree' = [tree EXCEPT !.index = tx] /\ treeOld' = treeOld \cup {tree}
            /\ memory' = [memory EXCEPT !.tip = b] /\ step' = [at |-> "moved", block |-> b]
            /\ UNCHANGED <<broken, failures>>
         \/ /\ failures' = failures + 1 /\ broken' = TRUE /\ step' = Idle
            /\ UNCHANGED <<memory, tree, treeOld>>
      /\ UNCHANGED <<coinTip, coinTipOld, written, durable, gaps>>
  BY DEF IndexUndo, Added, Fail
<1>2. /\ TreesInv /\ MemoryInv /\ StepInv /\ OnlyLastIsOpen /\ OtherTypes /\ TreeOK(tree)
      /\ UndoIsThere(tree.index, written, gaps) /\ UndoIsThere(memory.index, written, gaps)
      /\ IndexWritten /\ ChainInv /\ CoinsInv
  BY DEF FInv, TreesInv, Trees
<1>3. up /\ up'
  BY <1>1 DEF up, Idle
<1>4. /\ b \in Block /\ b \in DOMAIN memory.index /\ Parent[b] = memory.tip
      /\ memory.index[b].nUndoPos # None /\ Data(b, memory.index[b]) \in written
      /\ IndexOK(memory.index) /\ Covered(memory.index, tree.info) /\ ApartIn(memory.index)
      /\ Extends(memory.index, tree.index) /\ IndexOK(tree.index)
  BY <1>1, <1>2, <1>3 DEF StepInv, MemoryInv, TreeOK
<1>5. CASE UNCHANGED <<memory, tree, treeOld>> /\ broken' = TRUE /\ step' = Idle /\ failures' = failures + 1
  <2>1. TreesInv' /\ MemoryInv' /\ OnlyLastIsOpen'
    BY <1>1, <1>2, <1>3, <1>5 DEF TreesInv, Trees, MemoryInv, OnlyLastIsOpen
  <2>2. StepInv'
    BY <1>5 DEF StepInv, Idle, Known
  <2>3. UndoIsThere(tree'.index, written', gaps') /\ UndoIsThere(memory'.index, written', gaps')
    BY <1>1, <1>2, <1>5
  <2>4. IndexWritten' /\ ChainInv' /\ CoinsInv'
    BY <1>5 DEF IndexWritten, ChainInv, CoinsInv
  <2>5. OtherTypes'
    BY <1>1, <1>2, <1>5 DEF OtherTypes
  <2>6. QED
    BY <2>1, <2>2, <2>3, <2>4, <2>5 DEF FInv
<1>6. CASE /\ tree' = [tree EXCEPT !.index = tx] /\ treeOld' = treeOld \cup {tree}
           /\ memory' = [memory EXCEPT !.tip = b] /\ step' = [at |-> "moved", block |-> b]
           /\ UNCHANGED <<broken, failures>>
  <2> HIDE DEF b
  <2>1. memory' = [last |-> memory.last, info |-> memory.info, index |-> memory.index, tip |-> b]
    BY <1>2, <1>6 DEF MemoryInv
  <2>2. /\ DOMAIN tx = DOMAIN tree.index \cup {b} /\ tx[b] = memory.index[b]
        /\ \A k \in DOMAIN tree.index \ {b} : tx[k] = tree.index[k]
    BY DEF Added
  <2> HIDE DEF tx
  <2>3. IndexOK(tx) /\ Extends(tx, tree.index) /\ Extends(memory.index, tx)
    <3>1. IndexOK(tx)
      BY <1>4, <2>2 DEF IndexOK
    <3>2. Extends(tx, tree.index)
      BY <1>4, <2>2 DEF Extends
    <3>3. Extends(memory.index, tx)
      BY <1>4, <2>2 DEF Extends
    <3>4. QED
      BY <3>1, <3>2, <3>3
  <2>4. TreeOK(tree') /\ tree' = [last |-> tree.last, info |-> tree.info, index |-> tx]
    BY <1>2, <1>4, <1>6, <2>3, TreeBelow
  <2>5. tree'.last = tree.last /\ tree'.info = tree.info /\ tree'.index = tx
    BY <2>4
  <2>6. memory'.index = memory.index /\ memory'.tip = b /\ memory'.last = memory.last /\ memory'.info = memory.info
    BY <2>1
  <2>7. \A t \in Trees' : t \in Trees \/ t = tree'
    BY <1>6 DEF Trees
  <2>8. TreesInv'
    <3>1. \A t \in Trees : TreeOK(t) /\ Extends(tx, t.index)
      BY <1>2, <2>3, ExtendsTrans DEF TreesInv
    <3>2. Extends(tx, tx)
      BY ExtendsSelf
    <3>3. QED
      BY <2>4, <2>5, <2>7, <3>1, <3>2 DEF TreesInv
  <2>9. MemoryInv'
    <3>1. b \in Mentioned(memory.index)
      BY <1>4 DEF Mentioned
    <3>2. QED
      BY <1>2, <1>3, <2>1, <2>3, <2>5, <2>6, <3>1 DEF MemoryInv
  <2>10. StepInv'
    BY <1>4, <1>6 DEF StepInv, Known
  <2>11. OnlyLastIsOpen'
    BY <1>1, <1>2, <1>3, <1>6, <2>6 DEF OnlyLastIsOpen, LastFile
  <2>12. UndoIsThere(tree'.index, written', gaps') /\ UndoIsThere(memory'.index, written', gaps')
    BY <1>1, <1>2, <2>3, <2>5, <2>6, UndoOlder
  <2>13. IndexWritten'
    <3>1. SUFFICES ASSUME ~broken, NEW k \in DOMAIN memory.index
                   PROVE k \in DOMAIN tx /\ memory.index[k].nUndoPos = tx[k].nUndoPos
      BY <1>6, <2>5, <2>6 DEF IndexWritten
    <3>2. CASE k = b
      BY <2>2, <3>2
    <3>3. CASE k # b
      <4>1. step # [at |-> "undone", block |-> k]
        BY <3>3 DEF b
      <4>2. QED
        BY <1>2, <1>3, <2>2, <3>1, <3>3, <4>1 DEF IndexWritten
    <3>4. QED
      BY <3>2, <3>3
  <2>14. ChainInv'
    <3>1. SUFFICES ASSUME ~broken PROVE IsIn(b, memory.index, written, gaps)
      BY <1>1, <1>6, <2>6 DEF ChainInv
    <3>2. IsIn(Parent[b], memory.index, written, gaps)
      BY <1>2, <1>3, <1>4, <3>1 DEF ChainInv
    <3>3. QED
      BY <1>2, <1>4, <3>2, ChildIsIn
  <2>15. CoinsInv'
    <3>1. Keeps(tree.index, durable, durable')
      BY <1>1, KeepsSelf
    <3>2. \A t \in Trees' : \E s \in Trees : Extends(t.index, s.index)
      BY <2>3, <2>5, <2>7, ExtendsSelf DEF Trees
    <3>3. QED
      BY <1>1, <1>2, <1>6, <3>1, <3>2, CoinsStay DEF OtherTypes
  <2>16. OtherTypes'
    BY <1>1, <1>2, <1>6 DEF OtherTypes
  <2>17. QED
    BY <2>8, <2>9, <2>10, <2>11, <2>12, <2>13, <2>14, <2>15, <2>16 DEF FInv
<1>7. QED
  BY <1>1, <1>5, <1>6

(* The tip moves to a block whose chain can be read, and nothing is written. *)
LEMMA TipMoves ==
    ASSUME FInv, step = Idle, NEW p \in Known, memory' = [memory EXCEPT !.tip = p],
           p \in Mentioned(memory.index), step' = [at |-> "moved", block |-> p],
           UNCHANGED <<disk, failures>>, ~broken => IsIn(p, memory.index, written, gaps)
    PROVE  FInv'
<1>1. UNCHANGED <<tree, treeOld, coinTip, coinTipOld, written, durable, gaps, broken>> /\ up /\ up'
  BY DEF disk, up, Idle
<1>2. /\ TreesInv /\ MemoryInv /\ StepInv /\ OnlyLastIsOpen /\ OtherTypes
      /\ UndoIsThere(tree.index, written, gaps) /\ UndoIsThere(memory.index, written, gaps)
      /\ IndexWritten /\ ChainInv /\ CoinsInv
  BY DEF FInv
<1>3. memory' = [last |-> memory.last, info |-> memory.info, index |-> memory.index, tip |-> p]
  BY <1>2 DEF MemoryInv
<1>4. memory'.index = memory.index /\ memory'.tip = p /\ memory'.last = memory.last /\ memory'.info = memory.info
  BY <1>3
<1>5. TreesInv' /\ OnlyLastIsOpen' /\ CoinsInv'
  BY <1>1, <1>2, <1>4 DEF TreesInv, Trees, OnlyLastIsOpen, LastFile, CoinsInv
<1>6. MemoryInv'
  BY <1>1, <1>2, <1>3, <1>4 DEF MemoryInv
<1>7. StepInv'
  BY DEF StepInv
<1>8. UndoIsThere(tree'.index, written', gaps') /\ UndoIsThere(memory'.index, written', gaps')
  BY <1>1, <1>2, <1>4
<1>9. IndexWritten'
  <2>1. step.at # "undone"
    BY DEF Idle
  <2>2. QED
    BY <1>1, <1>2, <1>4, <2>1 DEF IndexWritten
<1>10. ChainInv'
  BY <1>1, <1>4 DEF ChainInv
<1>11. OtherTypes'
  BY <1>1, <1>2 DEF OtherTypes
<1>12. QED
  BY <1>5, <1>6, <1>7, <1>8, <1>9, <1>10, <1>11 DEF FInv

(* The invariant holds after ConnectTip of a block that has its undo data. *)
LEMMA ReconnectStep == ASSUME FInv, NEW b \in Block, Reconnect(b) PROVE FInv'
<1>1. /\ step = Idle /\ b \in DOMAIN memory.index /\ Parent[b] = memory.tip
      /\ Data(b, memory.index[b]) \in written /\ memory.index[b].nUndoPos # None
      /\ memory' = [memory EXCEPT !.tip = b] /\ step' = [at |-> "moved", block |-> b]
      /\ UNCHANGED <<disk, failures>>
  BY DEF Reconnect, IsReadable
<1>2. b \in Known /\ b \in Mentioned(memory.index)
  BY <1>1 DEF Known, Mentioned
<1>3. ASSUME ~broken PROVE IsIn(b, memory.index, written, gaps)
  <2>1. ChainInv /\ UndoIsThere(memory.index, written, gaps) /\ up
    BY <1>1 DEF FInv, up, Idle
  <2>2. IsIn(Parent[b], memory.index, written, gaps)
    BY <1>1, <1>3, <2>1 DEF ChainInv
  <2>3. QED
    BY <1>1, <2>1, <2>2, ChildIsIn
<1>4. QED
  BY <1>1, <1>2, <1>3, TipMoves

(* The invariant holds after DisconnectTip. *)
LEMMA DisconnectStep == ASSUME FInv, Disconnect PROVE FInv'
<1> DEFINE b == memory.tip
           p == Parent[b]
<1>1. /\ step = Idle /\ b \in DOMAIN memory.index \ {Genesis}
      /\ memory' = [memory EXCEPT !.tip = p] /\ step' = [at |-> "moved", block |-> p]
      /\ UNCHANGED <<disk, failures>>
  BY DEF Disconnect
<1>2. MemoryInv /\ ChainInv /\ up
  BY <1>1 DEF FInv, up, Idle
<1>3. b \in Block
  BY <1>1, <1>2 DEF MemoryInv, IndexOK, Known
<1>4. p \in Known /\ p \in Mentioned(memory.index)
  BY <1>1, <1>3 DEF Known, Mentioned
<1>5. ASSUME ~broken PROVE IsIn(p, memory.index, written, gaps)
  <2>1. IsIn(b, memory.index, written, gaps)
    BY <1>2, <1>5 DEF ChainInv
  <2>2. OnChain[p] \subseteq OnChain[b]
    BY <1>3, ChainOfChild
  <2> HIDE DEF b, p
  <2>3. QED
    BY <2>1, <2>2 DEF IsIn
<1> HIDE DEF b, p
<1>6. QED
  BY <1>1, <1>4, <1>5, TipMoves

(* What the flush leaves behind the coins *)
LEMMA FlushedIsIn ==
    ASSUME FInv, step.at = "moved", ~broken
    PROVE  IsIn(memory.tip, tree.index, Synced({memory.last}), gaps)
<1>1. up /\ MemoryInv /\ OnlyLastIsOpen /\ IndexWritten /\ IsIn(memory.tip, memory.index, written, gaps)
  BY DEF FInv, up, ChainInv
<1>2. SUFFICES ASSUME NEW b \in OnChain[memory.tip]
               PROVE  /\ b \in DOMAIN tree.index /\ Data(b, tree.index[b]) \in Synced({memory.last})
                      /\ b \notin gaps \cup {Genesis} =>
                             /\ tree.index[b].nUndoPos # None
                             /\ Undo(b, tree.index[b]) \in Synced({memory.last})
  BY DEF IsIn
<1> DEFINE m == memory.index[b]
           e == tree.index[b]
<1>3. /\ b \in DOMAIN memory.index /\ Data(b, m) \in written
      /\ b \notin gaps \cup {Genesis} => m.nUndoPos # None /\ Undo(b, m) \in written
  BY <1>1 DEF IsIn
<1>4. b \in DOMAIN tree.index /\ m.nUndoPos = e.nUndoPos
  BY <1>1, <1>3 DEF IndexWritten
<1>5. Extends(memory.index, tree.index)
  BY <1>1 DEF MemoryInv
<1>6. Data(b, e) = Data(b, m) /\ Undo(b, e) = Undo(b, m)
  BY <1>4, <1>5 DEF Extends, Data, Undo
<1>7. \A x \in written : x \in Synced({memory.last}) \/ (x.kind = "rev" /\ x.block \in gaps)
  BY <1>1 DEF OnlyLastIsOpen, LastFile, Synced
<1>8. Data(b, m).kind = "blk" /\ Undo(b, m).block = b
  BY DEF Data, Undo
<1> HIDE DEF m, e
<1>9. b \in DOMAIN tree.index /\ Data(b, e) \in Synced({memory.last})
  BY <1>3, <1>4, <1>6, <1>7, <1>8
<1>10. b \notin gaps \cup {Genesis} => e.nUndoPos # None /\ Undo(b, e) \in Synced({memory.last})
  BY <1>3, <1>4, <1>6, <1>7, <1>8
<1>11. QED
  BY <1>9, <1>10 DEF e

(* The invariant holds after WriteChainState: with the flush the chain that  *)
(* the coins are written for is on the disk, and all that is older is so     *)
(* already.                                                                  *)
LEMMA WriteStep == ASSUME FInv, WriteChainState PROVE FInv'
<1>1. /\ step.at = "moved" /\ step' = Idle /\ UNCHANGED <<memory, tree, written, failures, gaps, broken>>
      /\ \/ /\ durable' = Synced({memory.last}) /\ treeOld' = {}
            /\ coinTip' = memory.tip /\ coinTipOld' = coinTipOld \cup {coinTip}
         \/ UNCHANGED <<durable, treeOld, coinTip, coinTipOld>>
  BY DEF WriteChainState, Flushed
<1>2. /\ TreesInv /\ MemoryInv /\ StepInv /\ OnlyLastIsOpen /\ OtherTypes
      /\ UndoIsThere(tree.index, written, gaps) /\ UndoIsThere(memory.index, written, gaps)
      /\ IndexWritten /\ ChainInv /\ CoinsInv
  BY DEF FInv
<1>3. up /\ up'
  BY <1>1 DEF up, Idle
<1>4. durable \subseteq durable' /\ durable' \subseteq written'
  BY <1>1, <1>2 DEF OnlyLastIsOpen, Synced
<1>5. Trees' \subseteq Trees
  BY <1>1 DEF Trees
<1>6. TreesInv'
  BY <1>1, <1>2, <1>5 DEF TreesInv
<1>7. MemoryInv'
  BY <1>1, <1>2, <1>3 DEF MemoryInv
<1>8. StepInv'
  BY <1>1 DEF StepInv, Idle, Known
<1>9. OnlyLastIsOpen'
  BY <1>1, <1>2, <1>3, <1>4 DEF OnlyLastIsOpen, LastFile
<1>10. UndoIsThere(tree'.index, written', gaps') /\ UndoIsThere(memory'.index, written', gaps')
  BY <1>1, <1>2
<1>11. IndexWritten' /\ ChainInv'
  BY <1>1, <1>2, <1>3 DEF IndexWritten, ChainInv
<1>12. CoinsInv'
  <2>1. SUFFICES ASSUME ~broken, NEW c \in coinTipOld' \cup {coinTip'}, NEW t \in Trees'
                 PROVE  IsIn(c, t.index, durable', gaps)
    BY <1>1 DEF CoinsInv
  <2>2. CASE c \in coinTipOld \cup {coinTip}
    <3>1. IsIn(c, t.index, durable, gaps)
      BY <1>2, <1>5, <2>1, <2>2 DEF CoinsInv
    <3>2. QED
      BY <1>4, <3>1 DEF IsIn
  <2>3. CASE c \notin coinTipOld \cup {coinTip}
    <3>1. c = memory.tip /\ durable' = Synced({memory.last}) /\ t = tree
      BY <1>1, <2>1, <2>3 DEF Trees
    <3>2. QED
      BY <1>1, <2>1, <3>1, FlushedIsIn
  <2>4. QED
    BY <2>2, <2>3
<1>13. OtherTypes'
  <2>1. memory.tip \in Known
    BY <1>2, <1>3 DEF MemoryInv, Mentioned, IndexOK, Known
  <2>2. QED
    BY <1>1, <1>2, <2>1 DEF OtherTypes
<1>14. QED
  BY <1>6, <1>7, <1>8, <1>9, <1>10, <1>11, <1>12, <1>13 DEF FInv
-----------------------------------------------------------------------------
(* Stops and starts *)

LEMMA StoppedMemory ==
    ASSUME memory' = Nothing, step' = Off
    PROVE  /\ MemoryInv' /\ StepInv' /\ UndoIsThere(memory'.index, written', gaps')
           /\ IndexWritten' /\ ChainInv'
<1>1. ~up' /\ Off \in [at : {"idle", "off", "stored", "undone", "moved"}, block : Known] /\ Off.at = "off"
  BY DEF up, Off, Known
<1>2. /\ memory' = [last |-> 0, info |-> NoInfo, index |-> memory'.index, tip |-> Genesis]
      /\ DOMAIN memory'.index = {} /\ 0 \in File /\ NoInfo \in InfoSet
  BY DEF Nothing, NoInfo, InfoSet, File
<1>3. MemoryInv'
  BY <1>1, <1>2 DEF MemoryInv, IndexOK, Covered, ApartIn
<1>4. StepInv'
  BY <1>1 DEF StepInv
<1>5. UndoIsThere(memory'.index, written', gaps')
  BY <1>2 DEF UndoIsThere
<1>6. QED
  BY <1>1, <1>3, <1>4, <1>5 DEF IndexWritten, ChainInv

(* While the node is off the file that it will take for the last is open.    *)
LEMMA StoppedOpen ==
    ASSUME OnlyLastIsOpen, StepInv, step # Off, step' = Off, ~broken' => ~broken /\ memory.last = tree.last,
           UNCHANGED <<tree, written, durable, gaps>>
    PROVE  OnlyLastIsOpen'
<1>1. up /\ ~up'
  BY DEF up, Off, StepInv
<1>2. QED
  BY <1>1 DEF OnlyLastIsOpen, LastFile

(* The invariant holds after a kill of the process, which counts as broken   *)
(* if the number of the last file is not on record.                          *)
LEMMA KillStep == ASSUME FInv, Kill PROVE FInv'
<1>1. /\ memory' = Nothing /\ step' = Off /\ failures' = failures + 1 /\ step # Off
      /\ broken' = (broken \/ memory.last # tree.last)
      /\ UNCHANGED <<tree, treeOld, coinTip, coinTipOld, written, durable, gaps>>
  BY DEF Kill, Stop, Fail, NumberIsOnRecord
<1>2. /\ TreesInv /\ StepInv /\ OnlyLastIsOpen /\ OtherTypes
      /\ UndoIsThere(tree.index, written, gaps) /\ CoinsInv
  BY DEF FInv
<1>3. TreesInv' /\ CoinsInv'
  BY <1>1, <1>2 DEF TreesInv, Trees, CoinsInv, OtherTypes
<1>4. OnlyLastIsOpen'
  BY <1>1, <1>2, StoppedOpen
<1>5. UndoIsThere(tree'.index, written', gaps')
  BY <1>1, <1>2
<1>6. OtherTypes'
  BY <1>1, <1>2 DEF OtherTypes
<1>7. QED
  BY <1>1, <1>3, <1>4, <1>5, <1>6, StoppedMemory DEF FInv

(* The invariant holds after Shutdown, which counts as broken if it flushes  *)
(* coins, too.                                                               *)
LEMMA ShutdownStep == ASSUME FInv, Shutdown PROVE FInv'
<1>1. /\ step = Idle /\ memory' = Nothing /\ step' = Off /\ failures' = failures + 1
      /\ coinTip' = memory.tip /\ coinTipOld' = coinTipOld \cup {coinTip}
      /\ broken' = (broken \/ coinTip # memory.tip \/ memory.last # tree.last)
      /\ UNCHANGED <<tree, treeOld, written, durable, gaps>>
  BY DEF Shutdown, Stop, Fail, NumberIsOnRecord
<1>2. /\ TreesInv /\ MemoryInv /\ StepInv /\ OnlyLastIsOpen /\ OtherTypes
      /\ UndoIsThere(tree.index, written, gaps) /\ CoinsInv
  BY DEF FInv
<1>3. TreesInv' /\ OnlyLastIsOpen'
  <2>1. step # Off
    BY <1>1 DEF Idle, Off
  <2>2. QED
    BY <1>1, <1>2, <2>1, StoppedOpen DEF TreesInv, Trees
<1>4. CoinsInv'
  <2>1. SUFFICES ASSUME ~broken' PROVE CoinsInv'
    BY DEF CoinsInv
  <2>2. ~broken /\ coinTip = memory.tip
    BY <1>1, <1>2, <2>1 DEF OtherTypes
  <2>3. coinTipOld' \cup {coinTip'} = coinTipOld \cup {coinTip} /\ Trees' = Trees
    BY <1>1, <2>2 DEF Trees
  <2>4. QED
    BY <1>1, <1>2, <2>2, <2>3 DEF CoinsInv
<1>5. UndoIsThere(tree'.index, written', gaps')
  BY <1>1, <1>2
<1>6. OtherTypes'
  <2>1. memory.tip \in Known
    BY <1>1, <1>2 DEF MemoryInv, Mentioned, IndexOK, Known, up, Idle
  <2>2. QED
    BY <1>1, <1>2, <2>1 DEF OtherTypes
<1>7. QED
  BY <1>1, <1>3, <1>4, <1>5, <1>6, StoppedMemory DEF FInv

(* The invariant holds after a loss of power, whichever of the last writes   *)
(* it takes.                                                                 *)
LEMMA PowerLossStep == ASSUME FInv, PowerLoss PROVE FInv'
<1> DEFINE lost == {b \in DOMAIN tree'.index \ {Genesis} :
                       tree'.index[b].nUndoPos # None /\ Undo(b, tree'.index[b]) \notin written'}
<1>1. /\ memory' = Nothing /\ step' = Off /\ failures' = failures + 1
      /\ tree' \in Trees /\ treeOld' = {} /\ coinTip' \in coinTipOld \cup {coinTip} /\ coinTipOld' = {}
      /\ durable \subseteq written' /\ durable' = written'
      /\ gaps' = gaps \cup lost /\ broken' = broken
  BY DEF PowerLoss, Stop, Fail, Trees
<1>2. TreesInv /\ OtherTypes /\ CoinsInv
  BY DEF FInv
<1>3. TreeOK(tree')
  BY <1>1, <1>2 DEF TreesInv
<1>4. Trees' = {tree'}
  BY <1>1 DEF Trees
<1>5. TreesInv'
  <2>1. Extends(tree'.index, tree'.index)
    BY ExtendsSelf
  <2>2. QED
    BY <1>3, <1>4, <2>1 DEF TreesInv
<1>6. OnlyLastIsOpen'
  BY <1>1 DEF OnlyLastIsOpen
<1>7. IndexOK(tree'.index)
  BY <1>3 DEF TreeOK
<1>8. UndoIsThere(tree'.index, written', gaps')
  BY <1>1, <1>7 DEF UndoIsThere, IndexOK
<1>9. CoinsInv'
  <2>1. Keeps(tree.index, durable, durable')
    BY <1>1 DEF Keeps
  <2>2. \A t \in Trees' : \E s \in Trees : Extends(t.index, s.index)
    BY <1>1, <1>4, ExtendsSelf
  <2>3. QED
    BY <1>1, <1>2, <2>1, <2>2, CoinsStay DEF OtherTypes
<1>10. lost \subseteq Block
  BY <1>7 DEF IndexOK, Known
<1>11. OtherTypes'
  BY <1>1, <1>2, <1>10 DEF OtherTypes
<1>12. QED
  BY <1>1, <1>5, <1>6, <1>8, <1>9, <1>11, StoppedMemory DEF FInv

(* The invariant holds after LoadBlockIndexDB. *)
LEMMA StartStep == ASSUME FInv, Start PROVE FInv'
<1>1. /\ step = Off /\ coinTip \in Mentioned(tree.index) /\ step' = Idle
      /\ memory' = [last |-> tree.last, info |-> tree.info[tree.last], index |-> tree.index, tip |-> coinTip]
      /\ treeOld' = {} /\ coinTipOld' = {}
      /\ UNCHANGED <<tree, coinTip, written, durable, gaps, broken, failures>>
  BY DEF Start, HasTip
<1>2. /\ TreesInv /\ OnlyLastIsOpen /\ OtherTypes /\ TreeOK(tree)
      /\ UndoIsThere(tree.index, written, gaps) /\ CoinsInv
  BY DEF FInv, TreesInv, Trees
<1>3. /\ memory'.last = tree.last /\ memory'.info = tree.info[tree.last]
      /\ memory'.index = tree.index /\ memory'.tip = coinTip
  BY <1>1
<1>4. up'
  BY <1>1 DEF up, Idle
<1>5. Trees' = {tree} /\ tree \in Trees
  BY <1>1 DEF Trees
<1>6. TreesInv' /\ CoinsInv'
  BY <1>1, <1>2, <1>5 DEF TreesInv, CoinsInv
<1>a. OnlyLastIsOpen'
  BY <1>1, <1>2, <1>3, <1>4 DEF OnlyLastIsOpen, LastFile, up, Off
<1>7. MemoryInv'
  <2>1. /\ tree.last \in File /\ tree.info \in [File -> InfoSet] /\ IndexOK(tree.index)
        /\ Covered(tree.index, tree.info) /\ ApartIn(tree.index)
    BY <1>2 DEF TreeOK
  <2>2. tree.info[tree.last] \in InfoSet /\ Extends(tree.index, tree.index)
    BY <2>1, ExtendsSelf
  <2>3. tree.info[tree.last].nSize \in Nat /\ tree.info[tree.last].nUndoSize \in Nat
    BY <2>2 DEF InfoSet
  <2>4. /\ tree.info[tree.last].nSize <= tree.info[tree.last].nSize
        /\ tree.info[tree.last].nUndoSize <= tree.info[tree.last].nUndoSize
    BY <2>3
  <2>5. QED
    BY <1>1, <1>3, <2>1, <2>2, <2>4 DEF MemoryInv
<1>8. StepInv'
  BY <1>1 DEF StepInv, Idle, Known
<1>9. UndoIsThere(tree'.index, written', gaps') /\ UndoIsThere(memory'.index, written', gaps')
  BY <1>1, <1>2, <1>3
<1>10. IndexWritten'
  BY <1>1, <1>3 DEF IndexWritten
<1>11. ChainInv'
  <2>1. SUFFICES ASSUME ~broken PROVE IsIn(coinTip, tree.index, written, gaps)
    BY <1>1, <1>3 DEF ChainInv
  <2>2. IsIn(coinTip, tree.index, durable, gaps)
    BY <1>2, <1>5, <2>1 DEF CoinsInv
  <2>3. QED
    BY <1>2, <2>2 DEF IsIn, OnlyLastIsOpen
<1>12. OtherTypes'
  BY <1>1, <1>2 DEF OtherTypes
<1>13. QED
  BY <1>6, <1>a, <1>7, <1>8, <1>9, <1>10, <1>11, <1>12 DEF FInv

-----------------------------------------------------------------------------
(* The invariant *)

(* The chain of the genesis block is the block. *)
LEMMA ChainOfGenesis == OnChain[Genesis] \subseteq {Genesis}
<1>1. Genesis \in Known /\ {Genesis} \in SUBSET Known /\ IsClosed({Genesis})
  BY DEF Known, IsClosed, Parent0
<1>2. OnChain[Genesis] = {k \in Known : \A S \in SUBSET Known : (Genesis \in S /\ IsClosed(S)) => k \in S}
  BY <1>1 DEF OnChain
<1>3. QED
  BY <1>1, <1>2

(* The invariant holds when the genesis block has been stored. *)
LEMMA FilesInit == Init => FInv
<1> SUFFICES ASSUME Init PROVE FInv
  OBVIOUS
<1> DEFINE e == Entry(0, 0)
           info == [nSize |-> Size[Genesis], nUndoSize |-> 0]
           sizes == [f \in File |-> IF f = 0 THEN info ELSE NoInfo]
           index == [b \in {Genesis} |-> e]
<1>1. /\ tree = [last |-> 0, info |-> sizes, index |-> index] /\ treeOld = {}
      /\ coinTip = Genesis /\ coinTipOld = {}
      /\ memory = [last |-> 0, info |-> info, index |-> tree.index, tip |-> Genesis]
      /\ step = Idle /\ written = {Data(Genesis, e)} /\ durable = written
      /\ failures = 0 /\ gaps = {} /\ broken = FALSE
  BY DEF Init
<1>2. /\ Genesis \in Known /\ 0 \in File /\ 0 \in Nat /\ Size[Genesis] \in Nat
  BY SizesAreNat DEF Known, File
<1>3. info \in InfoSet /\ NoInfo \in InfoSet /\ info.nSize = Size[Genesis] /\ info.nUndoSize = 0
  BY <1>2 DEF InfoSet, NoInfo
<1> HIDE DEF info
<1>4. sizes \in [File -> InfoSet] /\ sizes[0] = info
  BY <1>2, <1>3
<1>5. e \in EntrySet /\ e.nFile = 0 /\ e.nDataPos = 0 /\ e.nUndoPos = None
  BY <1>2 DEF Entry, EntrySet
<1>6. DOMAIN index = {Genesis} /\ index[Genesis] = e
  OBVIOUS
<1> HIDE DEF e, sizes, index
<1>7. /\ tree.last = 0 /\ tree.info = sizes /\ tree.index = index /\ Trees = {tree}
      /\ memory.last = 0 /\ memory.info = info /\ memory.index = index /\ memory.tip = Genesis
  BY <1>1 DEF Trees
<1>8. IndexOK(index) /\ ApartIn(index)
  BY <1>2, <1>5, <1>6 DEF IndexOK, ApartIn
<1>9. Covered(index, sizes)
  <2>1. 0 + Size[Genesis] <= Size[Genesis]
    BY <1>2
  <2>2. QED
    BY <1>3, <1>4, <1>5, <1>6, <2>1 DEF Covered
<1>10. Extends(index, index) /\ Genesis \in Mentioned(index)
  BY <1>6, ExtendsSelf DEF Mentioned
<1>11. TreesInv
  <2>1. TreeOK(tree)
    BY <1>1, <1>2, <1>4, <1>7, <1>8, <1>9 DEF TreeOK
  <2>2. QED
    BY <1>7, <1>10, <2>1 DEF TreesInv
<1>12. MemoryInv
  <2>1. sizes[0].nSize <= info.nSize /\ sizes[0].nUndoSize <= info.nUndoSize
    BY <1>2, <1>3, <1>4
  <2>2. QED
    BY <1>1, <1>2, <1>3, <1>4, <1>7, <1>8, <1>9, <1>10, <2>1 DEF MemoryInv
<1>13. StepInv /\ OnlyLastIsOpen /\ OtherTypes
  BY <1>1, <1>2 DEF StepInv, Idle, OnlyLastIsOpen, OtherTypes
<1>14. UndoIsThere(index, written, gaps) /\ IndexWritten
  BY <1>5, <1>6, <1>7 DEF UndoIsThere, IndexWritten
<1>15. IsIn(Genesis, index, written, gaps)
  BY <1>1, <1>6, ChainOfGenesis DEF IsIn
<1>16. ChainInv /\ CoinsInv
  BY <1>1, <1>7, <1>15 DEF ChainInv, CoinsInv
<1>17. QED
  BY <1>7, <1>11, <1>12, <1>13, <1>14, <1>16 DEF FInv

(* Every step of the block files preserves the invariant. *)
LEMMA FilesNext == FInv /\ [Next]_vars => FInv'
<1> SUFFICES ASSUME FInv, [Next]_vars PROVE FInv'
  OBVIOUS
<1>1. ASSUME NEW b \in Block, NEW f \in File, StoreBlock(b, f) PROVE FInv'
  BY <1>1, StoreStep
<1>2. ASSUME NEW b \in Block, NEW f \in File, FailToStore(b, f) PROVE FInv'
  BY <1>2, FailStep
<1>3. ASSUME NEW b \in Block, StoreUndo(b) \/ FailToStoreUndo(b) PROVE FInv'
  BY <1>3, UndoStep, FailUndoStep
<1>4. ASSUME NEW b \in Block, Reconnect(b) PROVE FInv'
  BY <1>4, ReconnectStep
<1>5. CASE UNCHANGED vars
  <2>1. UNCHANGED <<memory, step, tree, treeOld, coinTip, coinTipOld, written, durable, gaps, broken, failures>>
    BY <1>5 DEF vars, disk
  <2>2. TreesInv' /\ MemoryInv' /\ StepInv' /\ OnlyLastIsOpen' /\ OtherTypes'
    BY <2>1 DEF FInv, TreesInv, Trees, MemoryInv, up, StepInv, OnlyLastIsOpen, LastFile, OtherTypes
  <2>3. UndoIsThere(tree'.index, written', gaps') /\ UndoIsThere(memory'.index, written', gaps')
    BY <2>1 DEF FInv
  <2>4. IndexWritten' /\ ChainInv' /\ CoinsInv'
    BY <2>1 DEF FInv, IndexWritten, ChainInv, CoinsInv, Trees, up
  <2>5. QED
    BY <2>2, <2>3, <2>4 DEF FInv
<1>6. QED
  BY <1>1, <1>2, <1>3, <1>4, <1>5, AddStep, IndexUndoStep, DisconnectStep, WriteStep,
     KillStep, ShutdownStep, PowerLossStep, StartStep DEF Next

(* The invariant holds in every behaviour. *)
THEOREM FilesInvariant == Spec => []FInv
  BY FilesInit, FilesNext, PTL DEF Spec

-----------------------------------------------------------------------------
(* What follows from it *)

(* The invariant has the types, and the stretches of each tree apart. *)
LEMMA ConsistentIn == FInv => FilesAreConsistent
<1> SUFFICES ASSUME FInv PROVE FilesAreConsistent
  OBVIOUS
<1>1. TreesInv /\ MemoryInv /\ StepInv /\ OnlyLastIsOpen /\ OtherTypes
  BY DEF FInv
<1>2. ASSUME NEW ix, IndexOK(ix) PROVE IsIndex(ix)
  BY <1>2 DEF IndexOK, IsIndex, EntrySet
<1>3. \A t \in treeOld \cup {tree} : TreeOK(t)
  BY <1>1 DEF TreesInv, Trees
<1>4. BlockFilesTypeOK
  <2>1. IsIndex(memory.index) /\ memory.last \in File /\ memory.info \in InfoSet
    BY <1>1, <1>2 DEF MemoryInv
  <2>2. memory.tip \in Mentioned(memory.index) \/ step = Off
    BY <1>1 DEF MemoryInv, up, StepInv
  <2>3. \A t \in treeOld \cup {tree} : IsIndex(t.index) /\ t.last \in File /\ t.info \in [File -> InfoSet]
    BY <1>2, <1>3 DEF TreeOK
  <2>4. step.at \in {"idle", "off", "stored", "undone", "moved"}
    BY <1>1 DEF StepInv
  <2>5. QED
    BY <1>1, <2>1, <2>2, <2>3, <2>4 DEF BlockFilesTypeOK, OnlyLastIsOpen, OtherTypes
<1>5. ExtentsAreDisjoint
  <2>1. SUFFICES ASSUME NEW t \in treeOld \cup {tree}, NEW b \in DOMAIN t.index
                 PROVE  /\ t.index[b].nDataPos + Size[b] <= t.info[t.index[b].nFile].nSize
                        /\ t.index[b].nUndoPos # None =>
                               t.index[b].nUndoPos + UndoSize[b] <= t.info[t.index[b].nFile].nUndoSize
                        /\ \A k \in {j \in DOMAIN t.index \ {b} : t.index[j].nFile = t.index[b].nFile} :
                              /\ Apart(t.index[b].nDataPos, Size[b], t.index[k].nDataPos, Size[k])
                              /\ None \notin {t.index[b].nUndoPos, t.index[k].nUndoPos} =>
                                     Apart(t.index[b].nUndoPos, UndoSize[b], t.index[k].nUndoPos, UndoSize[k])
    BY DEF ExtentsAreDisjoint
  <2>2. Covered(t.index, t.info) /\ ApartIn(t.index)
    BY <1>3 DEF TreeOK
  <2>3. QED
    BY <2>2 DEF Covered, ApartIn
<1>6. QED
  BY <1>4, <1>5 DEF FilesAreConsistent

(* In every behaviour memory, block tree and files agree, and no two blocks  *)
(* that an index can name after any failure share a stretch of a blk or rev  *)
(* file (FindBlockPos, FindUndoPos, FlushBlockFile).                         *)
THEOREM FilesAreConsistentAlways == Spec => []FilesAreConsistent
  BY FilesInvariant, ConsistentIn, PTL

(* The invariant has the chains of the coins on the disk. *)
LEMMA RecoverableIn == FInv => ChainIsRecoverable
<1> SUFFICES ASSUME FInv PROVE ChainIsRecoverable
  OBVIOUS
<1>1. CoinsInv
  BY DEF FInv
<1>2. ASSUME ~broken, NEW c \in coinTipOld \cup {coinTip}, NEW t \in treeOld \cup {tree}
      PROVE IsIn(c, t.index, durable, gaps)
  BY <1>1, <1>2 DEF CoinsInv, Trees
<1>3. BlocksAreRecoverable
  BY <1>2 DEF BlocksAreRecoverable, IsIn
<1>4. UndoIsRecoverable
  BY <1>2 DEF UndoIsRecoverable, IsIn
<1>5. QED
  BY <1>3, <1>4 DEF ChainIsRecoverable

(* In every behaviour, whatever a loss of power leaves of the block tree and *)
(* the coin database, the chain of the coins is in the index with its blocks *)
(* on the disk and, but for the gaps, its undo data: WriteChainState flushes *)
(* the files and syncs the tree before the coins. Failed writes of the index *)
(* are excepted, flushes of coins by Shutdown, and stops while the number of *)
(* the last file is not on record.                                           *)
THEOREM ChainIsRecoverableAlways == Spec => []ChainIsRecoverable
  BY FilesInvariant, RecoverableIn, PTL

(* What is on record stays, and on the disk even when the power does not *)
RecordsKept == Keeps(tree.index, durable, durable') /\ (up' => Keeps(tree.index, written, written'))

(* Every step keeps what is on record. *)
LEMMA KeptInStep == FInv /\ [Next]_vars => RecordsKept
<1> SUFFICES ASSUME FInv, [Next]_vars PROVE RecordsKept
  OBVIOUS
<1>1. MemoryInv /\ OnlyLastIsOpen
  BY DEF FInv
<1>2. ASSUME NEW b \in Block, NEW f \in File, StoreBlock(b, f) \/ FailToStore(b, f) PROVE RecordsKept
  <2>1. up
    BY <1>2 DEF StoreBlock, FailToStore, FindBlockPos, up, Idle
  <2>2. Keeps(memory.index, written, written') /\ durable \cap written' \subseteq durable'
    BY <1>2, StoreFiles, FailFiles
  <2>3. QED
    BY <1>1, <2>1, <2>2, DurableKept DEF RecordsKept
<1>3. ASSUME NEW b \in Block, StoreUndo(b) \/ FailToStoreUndo(b) PROVE RecordsKept
  <2>1. up
    BY <1>3 DEF StoreUndo, FailToStoreUndo, FindUndoPos, up, Idle
  <2>2. Keeps(memory.index, written, written') /\ durable \cap written' \subseteq durable'
    BY <1>3, UndoFiles, FailUndoFiles
  <2>3. QED
    BY <1>1, <2>1, <2>2, DurableKept DEF RecordsKept
<1>4. ASSUME durable \subseteq durable', written' = written PROVE RecordsKept
  BY <1>4 DEF RecordsKept, Keeps
<1>5. CASE PowerLoss
  <2>1. durable \subseteq durable' /\ ~up'
    BY <1>5 DEF PowerLoss, Stop, up, Off
  <2>2. QED
    BY <2>1 DEF RecordsKept, Keeps
<1>6. CASE WriteChainState
  <2>1. durable \subseteq durable' /\ written' = written
    BY <1>6 DEF WriteChainState, Flushed, Synced
  <2>2. QED
    BY <1>4, <2>1
<1>7. ASSUME NEW b \in Block, Reconnect(b) PROVE RecordsKept
  BY <1>4, <1>7 DEF Reconnect, disk
<1>8. CASE AddToBlockIndex \/ IndexUndo
  BY <1>4, <1>8 DEF AddToBlockIndex, IndexUndo
<1>9. CASE Disconnect \/ Kill \/ Shutdown \/ Start
  BY <1>4, <1>9 DEF Disconnect, Kill, Shutdown, Start, disk
<1>10. CASE UNCHANGED vars
  BY <1>4, <1>10 DEF vars, disk
<1>11. QED
  BY <1>2, <1>3, <1>5, <1>6, <1>7, <1>8, <1>9, <1>10 DEF Next

RecordsStayStep ==
    \A b \in DOMAIN tree.index \cap DOMAIN tree'.index :
       LET e == tree.index[b]
           recorded == {Data(b, e)} \cup (IF e.nUndoPos = None THEN {} ELSE {Undo(b, e)})
       IN /\ recorded \cap durable \subseteq durable'
          /\ step'.at # "off" => recorded \cap written \subseteq written'

(* That is what RecordsStay says of a step. *)
LEMMA KeptIsStay == ASSUME RecordsKept PROVE RecordsStayStep
BY DEF RecordsKept, Keeps, RecordsStayStep, up

(* In every behaviour a block or undo data on record is never overwritten or *)
(* cut off by what is stored later, and what is on the disk stays there      *)
(* through losses of power.                                                  *)
THEOREM RecordsStayAlways == Spec => RecordsStay
<1>1. FInv /\ [Next]_vars => [RecordsStayStep]_vars
  BY KeptInStep, KeptIsStay
<1>2. QED
  BY <1>1, FilesInvariant, PTL DEF Spec, RecordsStay, RecordsStayStep
=============================================================================
