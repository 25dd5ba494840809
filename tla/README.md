# A verification project for darcoin

darcoin is a proof-of-work cryptocurrency node derived from Bitcoin Core 0.8.6/0.9: a daemon
that keeps the best chain of blocks it knows, the unspent outputs of that chain, a pool of
unconfirmed transactions, a wallet, and connections to other nodes. It differs from its ancestor in
what a coinbase may be: coinbases mature at once (`COINBASE_MATURITY` is 0), a block may hold
several, and the pool accepts them as loose transactions under a calendar rule
(`AcceptToMemoryPool`).

This directory holds TLA+ models of the parts of the node where order, failure and concurrency
decide whether it is correct, TLC configurations that check them on small instances, and proofs,
checked by TLAPS, of the properties that matter most for every value of the parameters.
`PROJECT.json` is the index: components, runs, theorems, hazards, findings, and, for every
definition that models code, the lines it models.

Contents: [1 The system](#1-the-system) · [2 Modules](#2-modules) ·
[3 How the models correspond to the code](#3-how-the-models-correspond-to-the-code) ·
[4 Runs](#4-runs) · [5 Fairness](#5-fairness) · [6 Proofs](#6-proofs) ·
[7 Disagreements found](#7-disagreements-found) · [8 Limits](#8-limits) ·
[9 Plan](#9-plan) · [10 Running it](#10-running-it)

## 1 The system

### Components

| component | state it keeps | operations | what makes it correct |
|---|---|---|---|
| Script check queue (`checkqueue.h`) | `queue`, `nIdle`, `nTotal`, `nTodo`, `fAllOk`, two condition variables | `Add`, `Loop` (workers and master), `Wait`, the RAII controller | the verdict of a block is that of all its checks; nobody holds a check afterwards; nobody waits for ever |
| Chain selection (`main.cpp`) | `mapBlockIndex`, `setBlockIndexValid`, `chainActive`, `chainMostWork` | `AcceptBlock`, `AddToBlockIndex`, `FindMostWorkChain`, `ActivateBestChain`, `ConnectTip`, `DisconnectTip`, `InvalidBlockFound` | the active chain is the best valid one; only invalid blocks are marked |
| Persistence (`main.cpp`, `txdb.cpp`, `init.cpp`) | the block index database, the coin database | `WriteChainState`, `WriteBlockIndex`, start, `Shutdown` | a killed process finds databases it can start from |
| Coins (`coins.h/.cpp`, `core.h`, `main.cpp`) | stacked views: a block's, `pcoinsTip`, the database | `UpdateCoins`, `ConnectBlock`, `DisconnectBlock`, `Flush`, `BatchWrite` | coins are a function of the active chain; disconnecting inverts connecting |
| Memory pool (`txmempool.*`, `main.cpp`) | `mapTx`, `mapNextTx` | `AcceptToMemoryPool`, `addUnchecked`, `remove`, `removeConflicts`, resurrection | no double spends, no missing inputs, nothing minable lost |
| Orphan blocks and transactions (`main.cpp`) | `mapOrphanBlocks(ByPrev)`, `mapOrphanTransactions(ByPrev)` | `ProcessBlock`, `PruneOrphanBlocks`, `AddOrphanTx`, `EraseOrphanTx`, `LimitOrphanTxSize` | the paired maps agree; an orphan is processed when its parent arrives, unless it was evicted |
| Block download, messages (`main.cpp`) | `mapBlocksInFlight`, `mapBlocksToDownload`, `CNodeState` | `ProcessMessage`, `SendMessages`, `FinalizeNode` | a block is asked of one peer at a time; a stalled download moves on |
| Miner (`miner.cpp`) | a template, `nTransactionsUpdated` | `CreateNewBlock`, `IncrementExtraNonce`, `CheckWork` | the template connects on its parent; a stale one is not submitted |
| Block files (`main.cpp`) | `infoLastBlockFile`, `nLastBlockFile` | `FindBlockPos`, `FindUndoPos`, `FlushBlockFile` | positions do not overlap; what the index names was synced |
| Peer connections (`net.cpp/.h`) | `vNodes`, reference counts, `semOutbound` and its grants, send and receive queues | socket, message, open-connection threads; RPC `addnode` | a node is freed once, when nobody uses it; no grant is lost or doubled |
| Address manager (`addrman.*`) | `mapInfo`, `mapAddr`, `vRandom`, new and tried buckets | `Add`, `Good`, `Attempt`, `Select` | `Check_`: counts and positions agree |
| Wallet (`wallet.*`, `walletdb.*`, `crypter.*`) | `mapWallet`, `mapTxSpends`, `setKeyPool`, master keys | key reservation, encryption, coin selection | a key is handed out once; encryption leaves no clear key |
| Berkeley DB environment (`db.*`) | `mapFileUseCount` | open, close, `Flush`, rewrite | a file is detached only when unused |
| Limited containers (`limitedmap.h`, `mruset.h`) | a map and its index by value or age | insert, update, erase | both structures hold the same elements, within the bound |
| Pure algorithms | none | retarget, amount compression, merkle and bloom | equal to their definitions |
| Script, keys, serialization, utilities, RPC, GUI, alerts, message blocks | little or none of their own | | see `components` in `PROJECT.json` |

### How they interact

`ProcessBlock` hands a block to `AcceptBlock`, which writes it to a block file and to the index and
calls `ActivateBestChain`. That asks `FindMostWorkChain` for the best candidate, then disconnects
and connects tips one by one. Each connected block is verified by `ConnectBlock`, which spends its
inputs in a view over `pcoinsTip`, gives its signature checks to the script check queue and waits
for its verdict; the view is flushed into `pcoinsTip`, and `WriteChainState` flushes `pcoinsTip` to
the coin database when it is due. After that the memory pool is told: connected transactions and
their conflicts leave it, disconnected ones are offered to it again.
`AcceptToMemoryPool` looks at `pcoinsTip` and the pool. The wallet, the miner and the peers are
notified: `ConnectBlock`, `ConnectTip`, `DisconnectTip` and `AcceptToMemoryPool` signal `SyncTransaction` to the wallet. All of it
runs under `cs_main`; the check queue's workers and the mining, socket and wallet threads do not.

Blocks come from peers. The message thread hears an announcement, queues the block for download, asks for it
when the peer has few in flight, and gives what arrives to `ProcessBlock`; the socket thread drops peers and frees their nodes. The
miner builds its block from the pool and `pcoinsTip`, and the wallet takes keys from its pool for change and for coinbases.

### What is hard about it

* **Concurrency** proper is in the check queue (a hand-written queue with a master that joins its
  workers, read without its mutex in one place), in `net.cpp`'s reference counting and its semaphore of
  grants, and in the key pool.
* **Failure** is everywhere under `cs_main`: the process may be killed between any two writes; the
  block index is written at once and the coins later; a block's data may read back damaged; a full
  disk makes `WriteChainState` return in the middle of `ConnectTip`.
* **History**: `setBlockIndexValid`, `chainMostWork`, failure marks, coin caches and the pool are all
  maintained incrementally over arrivals, reorganisations and restarts, where tests visit a handful of
  short histories.
* **Boundaries**: the last output of a transaction and its undo record; the genesis block, which has
  neither coins nor undo data; blocks that compare equal but for their heap address.

`PROJECT.json` lists each of these as a hazard with its line and the properties that would catch
it going wrong.

## 2 Modules

| module | what it is |
|---|---|
| `CheckQueue` | the script check queue, every critical section a step |
| `BlockTree` | the tree of blocks the node may hear of: parents, work, which blocks break a rule |
| `BestChain` | the abstract specification: what the node promises of its chain |
| `ChainState` | chain selection and persistence, the detailed specification |
| `ChainStateProofs` | lemmas about paths in the tree, and the theorems of `ChainState`, among them that it implements `BestChain` |
| `Ledger` | coins, undo data, the coin cache and the coin database |
| `TxMemPool` | the memory pool over the coins of `Ledger` |
| `CoinsCodec` | the stored form of coins, undo records, numbers and amounts |
| `LedgerProofs` | the theorems of `Ledger`, of `TxMemPool`, which implements it, and of `CoinsCodec` |
| `BlockTemplate` | what `CreateNewBlock` can make of the pool of `TxMemPool` |
| `PoolProofs` | the theorems about what the pool keeps and loses, the templates made of it, and the wallet's transactions |
| `WalletTx` | the wallet's transactions over `TxMemPool`: signals, rescans, balances, payments |
| `WalletBranches` | the merkle branches stored with them, made by `MerkleTree` |
| `KeyPool` | the wallet's keys, their pool, reservations, encryption and file |
| `BlockSync` | the download of blocks from peers and the holding area for orphans |
| `BlockSyncProofs` | the theorems about the download queues and the holding area |
| `BlockFiles` | where blocks and undo data are kept, under kills and losses of power |
| `BlockFilesProofs` | its theorems |
| `Nodes` | peer connections: three kinds of threads over reference-counted nodes |
| `ThreadProofs` | the theorems of `CheckQueue` and `KeyPool`, about what the threads of the process share |
| `AddrMan` | the address manager |
| `PeerProofs` | the theorems of `Nodes` and `AddrMan` |
| `MerkleTree` | merkle trees, branches and partial trees |
| `Order` | the members of a set of numbers in their order |
| `Counting` | lemmas about numbers, recursive functions and `Order` that several proof modules rest on |
| `MC*` | trees, transactions and model values for TLC |

`ChainState`, `Ledger`, `BlockFiles` and `BlockSync` cut the node along what each property needs. `ChainState` decides *which*
block is connected next and takes a coin view to be the block whose effects it contains;
`Ledger` connects *any* acceptable block to the active chain and works out what that does to the
coins; `BlockFiles` connects any child of the tip and works out where its bytes are; `BlockSync` takes `AcceptBlock` to
succeed or fail and asks which blocks reach it. `TxMemPool` extends `Ledger`, since what the pool admits depends on what `pcoinsTip` shows,
fully spent cache entries included; `BlockTemplate` and `WalletTx` extend `TxMemPool`, and `CoinsCodec` extends `Ledger`, whose
coins it writes. `WalletBranches` puts `WalletTx` and `MerkleTree` together; it is apart because the recursive operators of `MerkleTree` cannot be in a module with theorems. The check queue appears to `ConnectBlock` as
a call that returns the verdict of the block's checks, which is what `VerdictIsExact` says.

Operators named `Slip...` are not part of any specification. Each is a plausible mistake in the
definition it precedes (a forgotten notification, an early exit, a missing reset); substituting it
makes one of the properties fail, which shows that the property depends on that part of the code. The
pairs are listed under `mutants` in `PROJECT.json`.

## 3 How the models correspond to the code

### CheckQueue

Every thread has a program counter that says where it stands in `CCheckQueue::Loop`. The mutex is
held at `scan` only. One step is one critical section or one stretch between two of them:
`FirstIteration`, `Resume` and `CleanUp` are the three ways to the test `while (queue.empty())`;
`Return`, `Idle` and `Take` the three ways on from it; `Execute` is the evaluation outside the
mutex. The clean-up is a step of its own, apart from the test it leads to, because `CCheckQueueControl`'s constructor reads
the counters without the mutex and can see what is between them. `Add` notifies one worker for one
check and all of them for more, as in the code. `SpuriousWake` is what condition variables may do; `Interrupt` is
`threadGroup.interrupt_all()`, which makes `cond.wait` throw and skips the decrement of `nIdle`. `nNow`
is the batch size formula. The verdict of a check is membership in `Bad`; `added` is a history
variable.

### BlockTree, BestChain, ChainState

`BlockTree` fixes what the node may hear of: `Parent` is `pprev`, `ChainWork` is `nChainWork`,
`Invalid` the blocks that pass `CheckBlock` and `AcceptBlock` but fail in `ConnectBlock`, `Corrupt`
those whose data comes back from disk with another merkle root. `Path[b]`, what `CChain::SetTip(b)`
collects, is defined as the least set that holds `b` and is closed under `Parent`.

`ChainState` has one variable per global of `main.cpp` that matters here, two for the databases, and
`pc`, which says where the thread holding `cs_main` stands. The correspondence of steps:

| action | code |
|---|---|
| `AcceptBlock(b)` | `AcceptBlock`, `AddToBlockIndex` up to `ActivateBestChain` |
| `FindMostWorkChain` | the whole function: popping failed blocks off `chainMostWork`, the loop over candidates with its marking, the choice |
| `DisconnectTip`, `ConnectTip(b)` | the functions up to `WriteChainState`, the flush into `pcoinsTip` included |
| `WriteChainState` | `WriteChainState` and `UpdateTip`; the flush is due at the first call and may or may not happen later |
| `WriteFails`, `ReadFails` | the error returns |
| `RejectTip(b)` | `ConnectBlock` fails, `InvalidBlockFound` |
| `RejectCorruptTip(b)` | `ConnectBlock` fails with `CorruptionPossible` |
| `Activated` | both loops of `ActivateBestChain` are done |
| `AssertionFails` | `assert(hashPrevBlock == view.GetBestBlock())` and its like |
| `Crash`, `Shutdown`, `Start` | a kill; `Shutdown()`; `LoadBlockIndexDB`, `InitBlockIndex`, `AppInit2` |

`FindMostWorkChain` is one step although it is a loop: it runs under `cs_main`, writes nothing to
disk and a kill in its midst loses all it has done. The loop's effect is stated by sets: the
candidates examined before the first good one (`Examined`), the blocks it marks (`Children`), and the
best of what remains. `address` is the order of the `CBlockIndex` pointers, which breaks ties and is drawn anew at every start.

`BestChain` says the same without candidates, sequence numbers, caches or
databases: blocks are learned and never forgotten, the tip moves along the tree
and over valid chains only, a stop may lose moves of the tip and nothing else, and the node rests only
on a chain with the most work. The refinement mapping takes `known` to the blocks on
disk, `tip` to `chainActive` and `resting` to "`ActivateBestChain` has returned true and nothing has
arrived since".

### Ledger

A transaction's coins are `[vout, nHeight]`, its unspent output indices and the field an undo record
restores. `Spend` and `Unspend` are `CCoins::Spend` and the restoring part of `DisconnectBlock`,
with the rule that only the record of the last output carries the metadata. `ConnectBlock` and
`DisconnectBlock` are functions on views. Their loops are recursive functions from how far the loop has come to what there is then: `Spending` over the
inputs, `Connecting` over the transactions of a block, `Restoring` and `Disconnecting` downwards over the same. `Merge` and `Written` are the two `BatchWrite`s, where only
the second erases fully spent entries. The actions connect an acceptable block, disconnect the tip,
each with or without a flush, kill the process, or stop it in order.

The property to hold the code against is written without coins at all: `Unspent(chain, t)`
goes through the chain's transactions and says which outputs nobody spent.

### TxMemPool

`pool` is `mapTx` with `mapNextTx`; `remove`, `removeConflicts` and `addUnchecked` are functions on it, recursion
over descendants being the least set closed under `Spenders`. `Acceptable` follows the tests of `AcceptToMemoryPool` in their order, on the view
`pcoinsTip` shows: "do we already have it?" is `t \notin DOMAIN view`, the presence of an entry, spent or not, and a coinbase
that is only in the pool cannot be spent, since its coins lie at `MEMPOOL_HEIGHT` (`SpendsMature`).
`Calendar` opens and closes the share-money period. Connecting and disconnecting a block extends `Ledger`'s
steps by what `ConnectTip` and `DisconnectTip` do to the pool, in the block's order (`Confirming`, `Resurrecting`: the pool after so many of its transactions). Coinbases are accepted loose only when they do
not come from the network (`fLimitFree` would refuse their negative fee): they stand for this node's own RPC interface and wallet.

### BlockTemplate

`CreateNewBlock` holds `cs_main` and the pool's lock, so its result is a function of the state: `setDependsOn(t)` are the transactions of the
pool that `t` waits for, `Queued` those in `vecPriority`, `Taken` adds the next one. Priorities, fees and sizes may let any queued transaction come next and leave any out,
so `Templates` is the set of all blocks that can come out.

### WalletTx

`mapWallet` has, of each transaction, the chain up to the block it was last seen in (`hashBlock`) and its cached available credit. `ConnectSignals` is the
order of the signals of a connected block: `ConnectBlock`'s own, those of the conflicts that left the pool, and again the block's. `GetBalance` fills caches; `MarkDirty` is part of
`AddToWallet`. `CreateTransaction` and `CommitTransaction` are two steps, between which the chain and the pool may change. `Start` is a
restart: the wallet file is as the last write left it, and the rescan begins at any height it may have recorded.
The loops over signals, blocks and `mapWallet` are recursive functions of how far they have come (`Syncing`, `Rescanning`, `Reaccepting`).
`WalletBranches` asks whether the branch `SetMerkleBranch` stores leads to the root of the block it was made of.

### KeyPool

A key pair is a number in the order of generation. `file` has the records of `wallet.dat`, `setKeyPool`, `mapKeys` and `mapCryptedKeys` what is in memory, `reserved` each `CReserveKey`. Every
operation tops the pool up as the code does; `kpSize` is what `keypoolrefill` was asked for, 0 for the default, and `nKeyPool` is `-keypool`, which may be 0. `CrashInTopUp` and `CrashInNewKeyPool` end the process between two writes. `EncryptKeys` and `TxnCommit` are
apart: the database transaction is visible at its commit only. `TxnCommit` includes the second `Unlock` and `NewKeyPool` up to the exception that ends it (section 7).

### BlockSync

`node` has each peer's `CNodeState` with its two lists; `mapBlocksToDownload` and `mapBlocksInFlight` are the global maps; `mapOrphanBlocks` and
`mapOrphanBlocksByPrev` the holding area. `MarkBlockAsReceived`, `AddBlockToQueue` and `MarkBlockAsInFlight` are functions on the queues, `ProcessBlock` is one step with its whole
work queue, in which `AcceptBlock` may refuse a block or fail, before it has stored it or after (`broken`, `stored`). A peer may announce, answer late, in any order, unasked or with a malformed block, fall silent, or send bytes that make no message (`ReceiveBytes`: they set `nLastRecv` and not `nLastBlockProcess`); `clock` is the time, and `SendMessages` does first the stall test, then the requests.

### BlockFiles

Stretches of `blk` and `rev` files are records; `written` is what a read finds, `durable` what a loss of power leaves. `tree` is the block tree database and
`treeOld` the contents it may fall back to, since only `Sync` is a synced write; likewise `coinTipOld`, of the coin database, which this code never syncs. `StoreBlock`, `AddToBlockIndex`, `StoreUndo`,
`IndexUndo` and `WriteChainState` are the writes in the order the code makes them, and a stop may come between any two. `FindBlockPos(b, f)` goes to the first file with room, which may be several numbers on; what it did to `nLastBlockFile` and `infoLastBlockFile` stays when anything after it fails (`FailToStore`, at any of
the four places it may; `FailToStoreUndo` likewise), so that the number on record may lag behind the one in memory, at a restart too. A kill within `StoreBlock` is `FailToStore` and then `Kill`.

### Nodes

Each thread has a program counter and the set of nodes it copied from `vNodes`. The socket thread goes through removal, deletion, `accept` and service; the message thread copies, chooses a sync node, polls and releases;
an opener finds, connects, moves its grant, if it has one, and sets `fNetworkNode`. `ThreadOpenConnections` and `ThreadOpenAddedConnections` take a grant first (`Acquire`), with `-connect` they do not (`ConnectTo`); the threads that serve RPC call `ConnectNode` with none and leave it at that (`OneTry`). An opener is whichever thread makes an attempt, and may be another the next time. `granted` is a history variable: the connection was made under a grant. `cs_vNodes` is held for a loop over the list, so that a step of another thread that needs it waits (`CsFree`); the three locks that deletion tries are `LocksFree`. `Heap` is
memory for nodes, so that an address may be used again after a deletion.

### AddrMan

`Tables` is the state as one value, on which `ShrinkNew`, `MakeTried`, `SelectTried` and `SwapRandom` are functions; where the code draws random numbers, the action chooses. The loops over the drawn numbers (`Inspecting`, `Shuffling`) are recursive functions of the count of rounds. Bucket numbers, which the code hashes, are constants. `Reload` is saving and loading at once,
with the renumbering of both: an entry's number in the file is its rank among the ids of its kind (`Rank`, `At` of module `Order`), as `mapInfo` is gone through in the order of the ids.

### CoinsCodec, MerkleTree

Pure functions, written as functions, the loops of the codec as recursive functions of the number of rounds: bytes are numbers below 256, a compressed script or an output is one symbol (`CTxOut(i)`), and a hash is a term, so that two are equal only if
they were made of the same things.

## 4 Runs

State counts are of distinct states. Where a property is a conjunction, its named parts follow in parentheses; each is stated and commented in the module.

| run | instance | checks | result |
|---|---|---|---|
| `MCCheckQueue` | 2 workers, master, 3 checks (1 bad), batch size 2 | `TypeOK`, `VerdictIsExact`, `TodoIsOutstanding`, `UnusedBetweenBlocks`, `WaitReturns`, `WorkersDrain` | holds, 43,733 |
| `MCChainState` | 8 blocks, 4 branches, `b2` invalid, `a3` damaged | `TypeOK`, `BestChainIsActive`, `CandidatesAreTheNotFailed`, `FailedAreInvalid`, `CoinsRecoverable`, `ImplementsBestChain`, `ActivationReturns` | holds, 304,575 |
| `MCLedger` | 9 transactions, 12 blocks, chains of up to 4; 8 output numbers, 12 numbers, 21 amounts | `CoinsAreTheChains` (`LedgerTypeOK`, `CacheIsTheChains`, `DatabaseIsAChains`), `DisconnectIsClean`, `StoredFormsReadBack` (`CoinsReadBack`, `ShapesReadBack`, `NumbersReadBack`) | holds, 91,037 |
| `MCTxMemPool` | 8 transactions, 8 blocks, chains of up to 3, both seasons, loose coinbases | `PoolIsConsistent` (`PoolTypeOK`, `SpendsAreExact`, `InputsExist`), `NoneIsConfirmed`, `OnlyConflictsAreRemoved`, `FlushedBlocksAreResurrected`, `TemplatesConnect` (`QueueIsExact`, `FinishedConnect`) | holds, 65,778 |
| `MCWalletTx` | 6 transactions, 5 blocks, chains of up to 2, both seasons; merkle trees of up to 9 transactions | `WalletIsExact` (`WalletTypeOK`, `OwnAreKnown`, `DepthsAreExact`), `BalanceIsUnspent`, `OffersAreAcceptable`, `CreditsStayExact`, `BranchesConnect` (`StoredBranchesVerify`, `BranchesVerify`, `PartialTreesExtract`) | holds, 139,868 |
| `MCWalletTx_commit` | the same | `CommitsSucceed` | violated |
| `MCKeyPool` | 2 reservations, a pool of 1, 7 keys, refills to any size, one encryption | `KeysAreApart` (`KeyPoolTypeOK`, `ReservationsAreApart`, `KeysAreGivenOnce`), `FileIsWhole` (`SecretsAreOnFile`, `FileIsOfOneKind`), `PoolNeverRunsDry` | holds, 225,985 |
| `MCBlockSync` | 2 peers, 4 blocks (1 refused), 2 orphans, 1 block in transit, times 0 to 2 | `DownloadIsConsistent` (`SyncTypeOK`, `QueuesAgree`, `RequestsAreOrdered`), `OrphansAreConsistent` (`OrphanMapsAgree`, `NoOrphanIsReady`, `OrphansAreBounded`) | holds, 730,609 |
| `MCBlockSync_live` | 2 peers, 2 blocks (both refused, so asked for again), times 0 to 3 | `StalledAreGivenUp` | holds, 166,232 |
| `MCBlockFiles` | 3 blocks with a fork, 3 files of 2 blocks, up to 3 stops and failures (fewer with more blocks) | `FilesAreConsistent` (`BlockFilesTypeOK`, `ExtentsAreDisjoint`), `ChainIsRecoverable` (`BlocksAreRecoverable`, `UndoIsRecoverable`), `RecordsStay` | holds, 2,174,486 |
| `MCNodes` | socket and message thread, an opener with a grant, without one or for `addnode onetry`; memory for 2 nodes, 1 address that also calls in, 1 grant | `UsedNodesAreKept` (`NodesTypeOK`, `NodesInUseAreAlive`, `ReferencesAreCounted`), `ConnectionsAreGranted` (`GrantsAreConserved`, `ConnectionsAreBounded`), `DisconnectedAreFreed` | holds, 858,803 |
| `MCAddrMan` | 4 addresses, 3 sources, 3 new buckets of 1, a tried bucket of 2 | `Check_` (`AddrManTypeOK`, `IndexesAgree`, `CountsAreExact`, `ReferencesAreBuckets`, `BucketsAreBounded`), `TablesAreKept` | holds, 103,258 |

What they show:

* **The check queue.** The verdict `Wait` returns is that of all the block's checks, whatever the interleaving
  of additions, batches, spurious wake-ups and interrupted workers; `nTodo` is exact in every state; the last worker
  always wakes the master; no notification of `Add` is lost; and between blocks the counters are
  those of an unused queue *to whoever holds the mutex*.
* **Chain selection.** Over every order of arrival of the blocks, with kills between any two steps, failed reads
  and writes, restarts that lose failure marks and tie-breaking sequence numbers, and a damaged block: `ActivateBestChain` returns true only on a
  best chain, candidates never go stale, the databases can be started from at any moment, and the loops end unless they come to the damaged block.
* **The coins.** However a chain was reached, `pcoinsTip` shows what it leaves unspent, and the database shows
  what the chain it names leaves unspent, across partial flushes; disconnecting a block is always clean.
* **The pool.** It stays free of double spends and minable through competing blocks, reorganisations, restarts and changes of
  season; connecting a block drops only what it invalidates; and a disconnected block's transactions come back *if
  the coins were flushed*.
* **The miner.** In every state of the pool, whatever the priorities, the queue of `CreateNewBlock` holds exactly the transactions whose inputs are there, and the block it comes to connects to the tip, so the exception it may throw is never thrown.
* **The wallet's transactions.** It knows what is its own and at what depth, through blocks, reorganisations, rescans and kills between its own writes and the coins'; a
  balance never counts what is spent, even from caches; and what it offers for a payment is accepted, *in a season that admits it*.
* **The wallet's keys.** Until it is encrypted, and with a pool of one key at least, no key is given twice, no reservation is shared and the pool never runs dry, to whatever sizes it is refilled; at every moment the file can be loaded and has every secret that matters.
* **Block download.** However answers are delayed, duplicated, lost or unsolicited, the global maps and the peers' lists agree, so that no iterator dangles; no orphan stays behind whose parent is there; and a request that is not answered is given up, unless its peer goes on sending bytes that make no message (section 7).
* **Block files.** Nothing that is on record is overwritten or cut off; and apart from three named gaps (section 7), the chain of the coin database can be read back and disconnected after any loss of power.
* **Connections.** No thread uses a node that was deleted, apart from the one named in section 7; references and grants are accounted for in every state; connections made under a grant, and inbound ones, keep within their limits; and a disconnected node is freed even though the message thread keeps taking its locks.
* **Addresses.** What `Check_` (a debugging aid that is compiled out) wants holds after every operation; a tried address is never lost; saving and loading keeps the tables.

Bounds, and why they are enough to meet the interesting cases:

* Three checks and a batch size of 2 give batches of one and two, a batch in flight while others are added (one check at a time or
  together, so both kinds of notification), a failure
  in an earlier or a later batch, and several blocks one after another (the history is reset
  for each). Two workers suffice for one to be idle, waking or gone while the other works.
* The tree has a fork at the genesis block and one above it, reorganisations of two blocks for two and attempts at three that fail half-way on `b2`, an invalid
  block in the middle of a branch (so descendants are marked, and marks are lost at a restart), two layouts of the heap (ties go either way), and
  a damaged block on top of the longest branch. Work is one per block, so there are ties at every height. `nBlockSequenceId` is bounded by the number of
  blocks.
* `MCLedger`'s transactions spend the first, the last and the only output of others, within a block and across blocks, in an order that
  makes an entry fully spent and restored; `td` leaves nothing spendable; `tl` is a second coinbase in its block,
  which a later block repeats once it is fully spent (allowed by the BIP30 rule). `MaxHeight` bounds the chain; four blocks
  allow a flush, a spend and a reorganisation below it.
* `MCTxMemPool` has a pair of conflicting transactions, a descendant, a loose coinbase that is
  itself spent in the pool, and blocks that confirm each of them or its rival; every reorganisation of up to three blocks is reached.

* `MCWalletTx` has a payment, a payment that spends its change, and one that a copy of the wallet makes of the same coin; blocks hold each of them or none, and two blocks suffice to
  confirm, disconnect and confirm elsewhere. Merkle trees of up to nine leaves have odd levels at every height.
* `MCKeyPool`: seven keys let the pool be filled at the first start, run over and be cut short by a kill in between; two reservations meet one another, a refill and an encryption. A pool of one is the smallest for which the properties hold: a top-up fills it to two, and one is taken.
* `MCBlockSync`: an orphan of an orphan, one that is refused with another waiting for it, and room for one less than arrives, so that every eviction and every order of arrival happens; two peers race for the same blocks with one in transit each. The times 0, 1 and 2 allow a request, a timeout and the answer after it; `MCBlockSync_live` has one more, in which the block is asked of the other peer.
* `MCBlockFiles`: a file holds two blocks, so that it is left with undo data still to come; there are three files, so that two are left at once, when the number on record is an old one and the next is full already; three stops and failures suffice for a failed write, a retry and a loss of power. There may be three while b1 is the only block, two in the chain of two, one in the fork, and none once all three blocks are stored; what a loss of power could leave is looked at in every state all the same, since `ChainIsRecoverable` ranges over all the versions of both databases that may come back, and asks for what is on the disk.
* `MCNodes`: memory for two nodes lets one be reused while the other is in somebody's hands; an address that also calls in is found by the opener; a connection of `addnode onetry` comes on top of the granted one. There is one attempt to connect at a time; the proofs are for any number. One address is enough, since a peer given by name is connected to although its address is connected already.
* `MCAddrMan`: buckets of one and a tried bucket of two overflow; an address may be in two new buckets. Addresses are alike, and so are sources with their buckets: `MCSymmetry` (the run has no liveness property).
* The numbers of `MCLedger` are those at which `WriteVarInt` takes another byte, and the amounts those at which `CompressAmount` changes its case; the outputs lie in the first two and in four bytes of the mask.

`CHECK_DEADLOCK FALSE` is set where a run may really stop. In `ChainState` it may: a node that reports "Incorrect or no genesis block
found" (`pc = "broken"`) exits and stays down, and a run of a finite
tree ends there. In `BlockSync` the time ends, in `KeyPool` an encrypted wallet whose pool is empty can do no more, `BlockFiles` may be left with an index that
does not have its tip, and in `Nodes` the behaviour of the program may be undefined (`UseFreed`). The other specifications are checked for deadlock. Symmetry
is used in `MCAddrMan` only, so that liveness is checked soundly.

## 5 Fairness

* `CheckQueue!FairQueueSpec`: weak fairness of what a thread does inside its critical section or with its
  batch, and strong fairness of entering the critical section, for each thread. The code justifies it by
  the operating system's scheduler and by the mutex being granted, sooner or later, to a thread that keeps asking: the mutex
  is free infinitely often but not for good, hence strong fairness. Nothing is assumed of the
  master's calls, of spurious wake-ups or of interruption.
* `ChainState!FairSpec`: weak fairness of the steps of `ActivateBestChain` (and of a failing assertion, which ends it):
  one thread in a loop, holding `cs_main`. Kills, failures, arrivals and starts are free to happen or not.
* `Nodes!FairSpec`: weak fairness of the socket thread, since nobody else holds `cs_vNodes` over a step of the model; strong fairness of the message thread, which waits for that mutex and gets it, sooner or later, as above. Nothing is assumed of the openers, which may wait for the network as long as they like, and no peer need call or close.
* `BlockSync!FairSpec`: time passes; the message thread polls every peer, and the socket thread ends the nodes that are to be disconnected; a peer that sends nothing at all (`Silent`) is dropped by the inactivity test of the socket thread, or it answers a ping before. Any bytes put that test off (`net.cpp:973`), while the stall test compares with the last message that was handled (`main.cpp:3483`). A peer that sends
  bytes and, from some moment on, no whole and well-formed message therefore passes both, for ever; `StalledAreGivenUp` leaves it apart, and it alone.
* The other modules state no liveness property and no fairness.

## 6 Proofs

### What is proved

For every value of the constants, from nothing but the `ASSUME`s of the modules:

| module | theorem | property of the run |
|---|---|---|
| `ThreadProofs` | `TypeCorrect`, `TodoCorrect`, `VerdictCorrect`, `UnusedCorrect` | all safety properties of `MCCheckQueue` |
| `ChainStateProofs` | `TypeCorrect`, `BestChainCorrect`, `CandidatesCorrect`, `FailedCorrect`, `RecoverableCorrect`, `ImplementsCorrect` | all properties of `MCChainState` but the liveness, the refinement of `BestChain` included |
| `LedgerProofs` | `CoinsAreTheChainsAlways`, `DisconnectIsCleanAlways` | those of `MCLedger` about coins |
| `LedgerProofs` | `StoredFormsReadBackAlways` | that about their stored form |
| `LedgerProofs` | `LedgerIsKept`, `IndexIsExactAlways`, `PoolIsConsistentAlways` | `PoolIsConsistent` of `MCTxMemPool`: its index outright, the inputs as long as no coinbase is twice in the chain |
| `PoolProofs` | `NoneIsConfirmedAlways`, `OnlyConflictsAreRemovedAlways`, `FlushedBlocksAreResurrectedAlways`, `TemplatesConnectAlways` | the other properties of `MCTxMemPool`, as long as no coinbase is twice in the chain or comes to the pool while it is in the chain |
| `PoolProofs` | `WalletIsExactAlways`, `BalanceIsUnspentAlways`, `OffersAreAcceptableAlways`, `CreditsStayExactAlways` | all properties of `MCWalletTx` but the merkle branches, as long as no block that could be connected has a coinbase of the chain |
| `PeerProofs` | `UsedNodesAreKeptAlways`, `ConnectionsAreGrantedAlways` | all safety properties of `MCNodes`, for openers with and without grants |
| `BlockSyncProofs` | `OrphansAreConsistentAlways`, `DownloadIsConsistentAlways` | all properties of `MCBlockSync` |
| `ThreadProofs` | `KeysAreApartAlways`, `FileIsWholeAlways`, `PoolNeverRunsDryEver` | all properties of `MCKeyPool`; `-keypool=0` is admitted, and where a property does not hold then, it says so |
| `BlockFilesProofs` | `FilesAreConsistentAlways`, `RecordsStayAlways`, `ChainIsRecoverableAlways` | all properties of `MCBlockFiles` |
| `PeerProofs` | `CheckAlways`, `TablesAreKeptAlways` | all properties of `MCAddrMan` |

Each invariant below was checked by TLC before it was proved, on the instance of the module's run; the state counts are those of section 4.

### Assumptions

Finite sets of workers and checks, a positive batch
size, a master that is no worker; a tree in which only the genesis block has no parent, the genesis block is neither invalid nor
damaged, work is a natural number that grows from parent to child (`GetBlockWork` is positive), and addresses are distinct. The set of
blocks may be infinite. In `Ledger`, that a transaction has inputs and they are distinct outpoints (`CheckTransaction`), that a block starts with a coinbase and has no transaction twice
(`CheckBlock`), and that outputs are numbers; transactions may be any number and in any order. In `CoinsCodec`, that a transaction has finitely many outputs. In `WalletTx`, that `IsMine` is false of an output that nobody can spend (`script.cpp:1453`, `script.h:666`), and that the order of the hashes lists all transactions, which makes them finite there. In `BlockFiles`, a finite set of blocks with positive sizes, each smaller than a file may be; in `Nodes` a finite
memory and finitely many openers; in `BlockSync` finitely many blocks and peers; in `AddrMan` finitely many addresses and new buckets, positive limits, and a sample of `GetAddr_` no larger than `vRandom`; in `KeyPool` finitely many reservations and more keys than the pool holds (`MaxKeys` bounds the model; any number will do); `-keypool` is any natural number, 0 too (`wallet.cpp:1797`). TLC evaluates all of them in the runs. No axiom is added.

### CheckQueue

`ThreadProofs` proves `TypeCorrect`, `TodoCorrect`, `VerdictCorrect` and `UnusedCorrect`, that is, every safety
property of the run `MCCheckQueue`, for any number of workers and checks and any batch size. The
inductive invariant `QueueInv` has five parts. `Counters`: `nTotal` counts the threads inside `Loop`, the interrupted ones
included, and `nIdle` those that wait, are being woken or were interrupted; `TodoIsOutstanding` is itself.
`Holding`: a thread has a batch exactly while it works on it, so that nobody idle can lose one.
`Verdict`: `VerdictIsExact` alone is not inductive, since it says nothing while the master is inside; it is
strengthened by `NoFalseAlarm` (a false `fAllOk` or `fOk` of a working thread means some added check is bad) and
`NoFailureLost` (until the master leaves, each bad check is still queued, or in a batch whose thread has
not passed it, or already accounted for in `fAllOk`).

### ChainState

The first part of `ChainStateProofs` derives what is needed of paths from the least-set definition: a path is its block
and the parent's path, paths are transitive and antisymmetric (by work), a closed set holds the paths of its
members, validity passes to prefixes and to connectable extensions. No induction over data is involved: a least set is instantiated with the right closed set.

It then proves all safety properties of `MCChainState` and the refinement. The inductive invariant `IInv` is the
conjunction of

| part | says | why it is needed |
|---|---|---|
| `TypeOK` | candidates and tips are blocks of the index | |
| `IndexSound` | memory and disk index the same blocks, with ancestors; both agree on undo data | without it a parent could be missing, or `ConnectTip` could skip the write of `UNDO` |
| `MarksSound` | a marked block stands on a rule breaker | a valid block must never leave the candidates |
| `TipsSound` | `chainActive`, `pcoinsTip`, `coinsdb` are valid blocks on record | after a kill `coinsdb` becomes the tip |
| `UndoSound` | the chains of the cache and of the database have undo data on disk | what the cache holds may be flushed next |
| `CandidatesAreTheNotFailed` | itself | makes the genesis block, and every valid block, a candidate |
| `MostWorkSound` | while it is acted upon, no valid chain is better than `chainMostWork` | `BestChainIsActive` follows when the loops end |
| `StepSound` | at `write` the cache is one block away from `chainActive`; no process, no chain | the refinement of `WriteChainState` and `Start` |
| `BestChainIsActive` | itself | holds while the node is idle |

`FindStep` is the heart of it: whatever the candidates are, the loop marks only invalid blocks, leaves the genesis block a candidate, and chooses a chain no valid one is better than.
From it, `Invariance == Spec => []IInv`, and by one implication each `TypeCorrect`, `BestChainCorrect`, `CandidatesCorrect`, `FailedCorrect` and `RecoverableCorrect`.
`ImplementsCorrect == Spec => ImplementsBestChain` maps `AcceptBlock` to `Learn`, `WriteChainState` to `Extend` or `Retreat`, `Activated` to `Rest`, the error returns to `GiveUp`,
every stop to `Stop`, and `Start` to `Start`, to `Learn(Genesis)` or to nothing; all else stutters.

### Ledger

That the coins are the chain's is not inductive. It says nothing of the undo data of the blocks, which `DisconnectBlock` relies on, and nothing of the chain below the
tip or of the one the database names, which a disconnection or a restart makes the active one. The invariant `LInv` has three parts: `ChainInv(chain)` and `ChainInv(flushed)`: each block of the chain was accepted by
`ConnectBlock`, and its undo data made, on *some* coins that show the chain below it (`Legit`), whatever has happened to those since; and `CoinsInv`: the cache over the database shows the one chain, the database the other, with no entry that is fully spent. Three facts carry the proof.

* `ConnectShows`: a block connected to coins that show a chain leaves coins that show the longer chain. `Shows` is written without coins: the unspent outputs of a transaction are
  those that nothing after its *last* place in the chain spends. So the proof adds one place after the other (`AddPlace`), and the BIP30 rule is what makes it go through: the new last place of a repeated transaction
  hides an earlier one only if nothing was left of it.
* `DisconnectBlockIs`: `DisconnectBlock` undoes `ConnectBlock`, cleanly, from any coins *like* those that `ConnectBlock` left. It goes down transaction by transaction and input by input. Two views
  are alike if they answer alike, where a fully spent entry is as good as none, and that is all that a flush, which erases such entries, preserves.
* `ShowsOnce`: two views that show the same chain are alike. So the coins a block is disconnected from may have been through flushes and restarts since it was connected.

### CoinsCodec

`StoredFormsReadBackAlways` has two halves. That any coins with an unspent output are read back whatever follows them (`CoinsReadBackIs`) is about the code alone; that the coin database holds no others comes from `CoinsAreTheChains`: the cache prunes fully spent
entries when it is flushed (`StoredCoinsAre`). A number is read back by `VarIntReadsBack`, an induction over the bytes: after the first `i` of them the reader has what the writer's loop had when it put the next down. `AmountReadsBack` splits an amount by its trailing zeros and its last digit.
Of the coins, `MaskIs` and `BytesReadIs` show that the reader of the mask stops at its last byte that is not zero, since it is told how many there are; `CodeIs` that it is told so, less the one byte that must be there when the first two outputs are spent; `AvailIs` that it then knows which outputs come, and in which order.

### TxMemPool

`LedgerIsKept == Spec => LedgerSpec` shows that the pool does not interfere: what is proved of the coins holds with it. `PInv` adds the exact index, which `addUnchecked`, `remove`
and the two loops of `ConnectTip` and `DisconnectTip` preserve; from it follows that no two transactions of the pool spend the same output.

`HInv` adds the inputs. While `DisconnectTip` offers a block's transactions to the pool one after the other, inputs are missing that later ones of them will bring back: `MayHave` says which, and that
a transaction that is refused takes its spenders with it, so that nothing is missing at the end. This step, and no other, needs `SeenOnce`: no coinbase is at two places of the chain. A fully spent coinbase may be repeated; when its second place is
disconnected, its outputs stay spent by its first, and a transaction of the pool that spends them is left without them, which `CTxMemPool::check` would assert against.
The theorem therefore reads `Spec /\ []SeenOnce => []PoolIsConsistent`. The condition is on the blocks that arrive, not on the node, and every behaviour of `MCTxMemPool` satisfies it.

### What the pool keeps, loses and offers

The theorems of `PoolProofs` read `Spec /\ []SeenOnce /\ [][NotSeenBefore]_vars => []...`: beside `SeenOnce`, no coinbase that is in the chain is accepted to the pool by itself. `AcceptToMemoryPool` refuses one that `pcoinsTip` has an entry of
(`main.cpp:971`); one whose outputs are all spent and flushed it takes, and what it spent then stands between the pool and the chain. TLC confirms both conditions in every state and step of `MCTxMemPool`.

`NInv` adds to `HInv` that no coinbase is both in the pool and in the chain. From it, with `SeenOnce`, *no* transaction is (`PoolIsUnseen`): of the pool's transactions in the chain take the one whose place is the first. What it spends are outputs of a transaction at a place before it, which is not in the pool
then, and they are spent, so it lacks its inputs, against `HInv`. `NoneIsConfirmed` follows.

`AInv` adds `Apart`: `pcoinsTip` has no entry at all of a transaction of the pool, not even an empty one. This is what the code tests (`HaveCoins` in `AcceptToMemoryPool`, `GetCoins` in `CreateNewBlock`), so it is what `TemplatesConnect` needs.

* `OnlyConflictsAreRemoved`: by induction over the block, whatever is gone from the pool after *n* of its transactions is one of those, is `Dead` (an input of it is neither in the pool that is left nor, from the transaction of the block on that removed it, in the coins) or descends from a loose coinbase. In the coins after the block
the input is still missing, since an outpoint that the block has spent is not made again by the rest of it (`CoinsAfterAre`, `DeadDoNotFollow`).
* `FlushedBlocksAreResurrected`: by induction over the block, in order. A transaction that is refused is an `Orphan`: an input is missing from the coins below the block, from the pool and from the rest of the block, and stays so (`OrphansStay`). What a refusal takes out of the pool with it is an orphan too (`DescendantIsAChild`).
Without the flush the cache has empty entries for the block's transactions, which are taken for known (section 7, 8).
* `TemplatesConnect`: `SoundTemplate` says of a template which coins its view shows, by induction over its length; that it connects follows from the same lemmas about `ConnectBlock` as the ledger's, since no transaction of the pool is in the chain.

### The wallet's transactions

The theorems about the wallet read `WalletSpec /\ []NewCoinBases => ...`: no block that could be connected has a coinbase of the chain. That is, nobody repeats a coinbase that was spent entirely (the BIP30 rule refuses any other). It is stronger than `SeenOnce`, since the
wallet may hear of a block that never gets into the chain: `KilledConnecting` is `ConnectTip` ended after the signals and before the flush, and a wallet transaction that was in the chain already would point to a block that is not. TLC finds it true in every state of `MCWalletTx`.

`WInv` has two parts. `NodeInv` is `PInv` for a node that has caught up: nothing in the cache that is not on disk, no coinbase twice in the chain, a finite pool. `WalletIs` relates the wallet to the chain and to `Live`, the transactions of the chain and of the pool: it has all of them that are
its own (`Ours`, which does not depend on what it knows, while `IsFromMe` does); each `hashBlock` is a block that has the transaction, and the one of the active chain if there is one (`GoodHash`); and no cached credit has an output that a transaction of `Live` spends (`CreditOK`). Then

* `SpentIsKnown`: for an output of the wallet, `IsSpent`, which looks for a spender of depth 0 or more in `mapWallet`, is true exactly when the chain or the pool spends it, so `AvailableCredit` is what it should be (`AvailableIs`). `BalanceIsUnspent` follows, and so does `OffersAreAcceptable`:
  an offer is unspent and its transaction in the chain, hence in `pcoinsTip` (`UnspentIsThere`), or it is in the pool; a new transaction has no entry in `pcoinsTip`, not even an empty one, since everything was flushed (`EntryIsInChain`).
* `Told(w, S, hashBlock, r)` is what any number of signals does to a wallet, in any order: proved of one `AddToWallet`, of a sequence (`Syncing`), of the conflicts of a block and of a rescan. A payment between two transactions of a block is found because its parent comes first (`BlockIsKnown`), which is why the order of the signals does not matter beyond that.
* Each step is shown to keep `WInv` and to *tell* (`Tells(S)`): what it changes in `Live` is in `S`, except what `DisconnectTip` drops untold (section 7, 10), and every transaction of `S` has emptied the caches it spends from. `CreditsStayExact` compares the caches before and after by that.

### Nodes

The inductive invariant `IInv` says where each thread stands and what it has in hand. References: for each node, the count covers the snapshots that have it, the list that owns it, and the opener that made or found it (`CountsSound`);
the opener that made a node needs no reference of its own as long as it has not set `fNetworkNode`, since until then the node is not released
(`OpenSound`). Between `TryDelete` and `DeleteNode` nobody has the node (`DeletingSound`). Grants: a connection in `vNodes` that was made under a grant and has none has exactly one opener that is about to move its own (`GrantsSound`), which bounds these connections by the units of the semaphore. Nothing bounds the others (section 7, 12).
After a write to freed memory (section 7) nothing moves, and the invariant only says what still holds.

### BlockSync

`OrphansAreConsistent` is inductive together with the types. `ProcessBlock`'s work queue is the least set closed under "waits for an accepted block" (`ProcessedIsLeast`), so an orphan that it leaves behind is one whose parent it did not accept.

`DownloadIsConsistent` is not inductive: that the requests in a list are in the order of their times needs that none is later than the clock, and the limit per peer is kept by the loop of `SendMessages`, not by `MarkBlockAsInFlight`.
The invariant `DownInv` says of each peer (`NodeInv`) that its two lists name, once each, the blocks that the global maps have for it, that the counters are their lengths, and that a peer that is gone has none; of the requests, that they are in order up to now; and of the maps, that they are apart.
The proof has three levels. Of a list: erasing at the place of a block (`RemoveAt` at `Place`) and appending keep it free of duplicates and in order. Of a peer: each of the four list operations takes `NodeInv` for two sets of blocks to `NodeInv` for two others (`NodeDequeues`, `NodeLands`, `NodeQueues`, `NodeRequests`).
Of all peers: an operation touches one peer, the one its map entry names, and nobody else's blocks (`QueueChange`). The loop of `SendMessages` is an induction over the number of requests: each takes one from the list to ask for, so the block it names is that peer's, and the room shrinks by one (`RequestKeeps`).

### KeyPool

`KInv` says of the file alone that it is of one kind and that what is in its pool has its secret (`FileInv`), and, while it is not encrypted and with a pool of one key at least (`IsPlain`), that what is in its pool is there once and was never given (`PlainInv`); of memory, that it is a copy of the file unless an encryption is under way
(`MemInv`); and of the pool and the reservations, that they are apart and on file (`FreeInv`). The properties do not say why `TopUpKeyPool` never writes over a record: it writes behind the last *free* index, and a reserved one could lie behind that.
`LastIsFree` says that none does, because whoever takes a key tops the pool up first, to two at least, and takes the oldest. With `-keypool=0` it is topped up to one, `LastIsFree` fails, and a key may be given twice (section 7, 14). `FileIsWhole` does not need it.

### BlockFiles

The properties speak of the trees that a loss of power may bring back. `FInv` adds what makes the next such tree sound: the records in memory extend those of the database, which extend those of its older versions, and keep apart within sizes that the database already has
(`TreesInv`, `MemoryInv`); what an operation that was begun has put into the files (`StepInv`); and what the flush before a write of the coins relies on: whatever is not on the disk yet is in the last file, the one in memory or, while the node is down, the one on record (`LastFile`), or is undo data in a gap (`OnlyLastIsOpen`; the stop that would make it false sets `broken`), memory has
nothing that the index in the database lacks (`IndexWritten`), and the active chain can be read (`ChainInv`). `ChainIsRecoverable` follows since `WriteChainState` syncs the last file and the tree before it writes the coins.

### AddrMan

`Check_` is nearly inductive: `AddrManInv` adds only that `success` has every tried address once. It was checked by TLC on the instance of `MCAddrMan`. What makes the proof long is that an operation goes through tables of which `Check_` does not hold, so the invariant is
stated of the tables as one value, and each step within an operation by what it requires and leaves.

* `Sound(t)` is `Base(t)` (types, the indexes, the counters, the places in the tried buckets, the bounds) and `RefersRight(t, id)` for every entry. While `Add_` works, one entry is counted for a bucket that it is not in yet (`Near`, `Ready`), and a new one has no bucket at all: `CreateIsReady`, `ReferredIsNear` and `ShrinkNewKeeps` keep that,
  whether `ShrinkNew` drops an entry, and so moves the last one of `vRandom` into its place, or only one of its references; `PuttingIsSound` makes it sound again.
* In `MakeTried` the entry leaves all its new buckets, and what it displaces goes back to a bucket that the code says has place: its own, or the one the new entry came from, which has just lost that entry (`ReplacingIs`). Whatever order the inspection leaves the tried bucket in, the position that `SelectTried` returns is one of an entry of that bucket (`SelectTriedReorders`), which cannot be the new one.
* A counter is exact before and after since the set that it counts gains or loses one member (`FS_AddElement`, `FS_RemoveElement`).
* `Reload`: `Rank` numbers a finite set of ids from 0 and `At` is its inverse (`RankIs`), so `Saved` is a bijection from the numbers in the file to the ids in memory (`SavedIs`). `Renumbered` says that the tables after loading are those before under that bijection, and from that alone they are sound; an address keeps its table and its buckets.
* `TablesAreKept` follows step by step: no operation but `Good` changes the set of tried addresses, and `Good` adds one and takes at most one (`Evicts`).

### Induction

The library's induction theorems take an operator as a parameter, which the provers at hand cannot instantiate. Where the code goes through a sequence in order, the proofs do without: a recursive *function*
is shown to satisfy its equation by extending it one number at a time up to the least number where that would fail, and what holds at each step is a *set* of numbers, to which `Upward` and `Downward` of `Counting` apply (they follow from the least element of a set of numbers). `Recursion`
says the same once for every function whose steps are given by a function on pairs, which is enough for the loops of `CoinsCodec`.

### Only model-checked

* Liveness (`WaitReturns`, `WorkersDrain`, `ActivationReturns`, `DisconnectedAreFreed`, `StalledAreGivenUp`) is out of the prover's reach.
* `BranchesConnect`: the recursive operators of `MerkleTree` put it out of the SMT solver's reach.

## 7 Disagreements found

What the source says of itself and the models refute. The first is a run of its own, which TLC ends with a counterexample, and an entry under `findings`. The others are kept as definitions in the modules and not as runs: TLC shows each
when the configuration of the module's run is given that property as its only one, changed as said.

1. **`CommitsSucceed`** of `WalletTx` (`wallet.cpp:1546`; the run `MCWalletTx_commit`). "This must not fail. The transaction has already been signed and recorded." In the share-money period the pool refuses ordinary transactions, `CreateTransaction` makes them all the same,
   and `CommitTransaction` has recorded the payment, and marked its coins as spent, when it fails.
2. **`ControlPrecondition`** of `CheckQueue` (`checkqueue.h:169`). The controller's constructor asserts an unused queue by reading `nTotal` and `nIdle` without the mutex; a worker on its way from
   `cond.wait` back to it makes them differ for a moment.
3. **`ViewCorrespondsToPrevious`** of `ChainState` (`main.cpp:2111`). A failed `WriteChainState` leaves `pcoinsTip` a block ahead of `chainActive`; the next block fails an assertion.
4. **`RightGenesisIsAccepted`** of `ChainState` (`init.cpp:870`). A process killed during its first start leaves an index without a chain, which every later start takes for another network's.
5. **`DamagedAreGivenUp`** of `ChainState` (`main.cpp:2212`). "Try to activate to the most-work chain" (`main.cpp:2189`): of a damaged block nothing is marked, so the same chain is tried for ever, under `cs_main`.
6. **`PoolConnects`** of `TxMemPool` (`main.cpp:2074`). With maturity 0 a reorganisation takes away coinbases the pool spends; the spenders stay, against the assumption stated in `miner.cpp:177`.
7. **`BlocksSparePending`** of `TxMemPool` (`main.cpp:2119`). Every block's coinbase spends the null outpoint and so evicts a pending loose coinbase as a conflict.
8. **`BlocksAreResurrected`** of `TxMemPool` (`main.cpp:2074`). Without a flush, `pcoinsTip` holds the disconnected transactions as fully spent entries; they are taken for known and dropped with their descendants.
   (6 and 8 are shortest with `Blocks <- OrdinaryBlocks` and `Seasons = {FALSE}`.)
9. **`ReacceptsAll`** of `WalletTx` (`init.cpp:1133`). "Add wallet transactions that aren't already in a block to mapTransactions": they are offered in the order of their hashes, and a child whose hash comes before its parent's is left out.
10. **`CreditsAreExact`** of `WalletTx` (`wallet.cpp:706`). A transaction that `DisconnectTip` drops from the pool because its parent is refused is signalled to nobody, and the coins it no longer spends keep their cached credit. `CreditsStayExact` leaves that step out.
11. **`OrphansWithinLimit`** of `BlockSync` (`init.cpp:210`). The holding area is cut down to the limit before a block is added to it: it holds one more.
12. **`AtMostMaxConnections`** of `Nodes` (`rpcnet.cpp:169`; with `MaxInbound = 0`). "Maintain at most <n> connections to peers" (`init.cpp:229`): the semaphore and the limit of inbound connections share out that number, but `addnode onetry` calls `ConnectNode` without a grant, and `-connect` passes `NULL` for one (`net.cpp:1259`).
13. **`RefillWorks`** of `KeyPool` (`wallet.cpp:1800`; with `nKeyPool = 0` and `MaxKeys = 3`). "Keypool ran out, please call keypoolrefill first" (`rpcwallet.cpp:109`). `GenerateBroadCastKey` throws once its key is on record, since `WriteKey` and `WriteCryptedKey` do not overwrite, and `TopUpKeyPool` calls it whenever the pool is empty: then it throws for ever. With `-keypool=0` the first reservation
    empties the pool. `EncryptWallet` empties it too and so
    always ends in that exception (`wallet.cpp:501`), before its second `Lock` and before `Rewrite`, and `walletpassphrase` throws after it has unlocked the wallet and before it has set the time at which to lock it again. A process killed in its very first top-up, after that key was written, never gets a pool.
    Also, `TopUpKeyPool` enters the broadcast key as record 1, which is loaded into the pool at the next start and given out first.
14. **`KeysAreGivenOnce`** of `KeyPool` (`wallet.cpp:1803`; also with `nKeyPool = 0` and `MaxKeys = 3`). "Take key pair from key pool so it won't be used again" (`wallet.cpp:1517`). When all keys of the pool are reserved and one comes back, `keypoolrefill` writes behind the last *free* index, over the record of a reserved one; the return of that one makes the new key free while it is reserved.
    An encrypted wallet may give a key twice with any `-keypool`, since a key that was reserved when the pool was cleared is returned to it.
15. **`TricklersAreGivenUp`** of `BlockSync` (`main.cpp:4457`; `MCBlockSync_live.cfg` with that property). "Detect stalled peers": one that sends bytes and no message that is handled (an incomplete one, a wrong header or checksum, `main.cpp:4203`-`4238`) is neither stalled nor inactive, and the blocks it was asked for are asked of nobody else.
16. **`FoundNodesAreAlive`** of `Nodes` (`net.cpp:447`). `ConnectNode` adds a reference to the node that `FindNode` returned after `cs_vNodes` was released; the socket thread may have deleted it.
17. **`PoolIsEmptied`** of `Nodes` (`net.cpp:764`). A node that was disconnected before its opener set `fNetworkNode`, or that a second opener found, has a reference nobody releases: it stays in `vNodesDisconnected` for ever, and keeps its outbound grant. So does, without a grant, every node of `addnode onetry`, for which nobody sets `fNetworkNode`.
18. **`SyncNodeIsAlive`** of `Nodes` (`net.cpp:512`). "If this was the sync node, we'll need a new one": `pnodeSync` may be a node that was deleted, whose memory another node may get.
19. **`EvictsTheOldest`** of `AddrMan` (`addrman.cpp:144`). `SelectTried` remembers the position the oldest entry was drawn from, and has then swapped another entry there: "find the least recently tried among them" is not what it returns.
20. `BlockFiles` has no claim to refute, but two properties are weaker than one would wish. `ChainIsRecoverable` has three gaps.
    * `broken`: an orderly `Shutdown` flushes the coins, while `CBlockTreeDB::Flush` does nothing (`leveldbwrapper.h:139`) and the block files are not flushed, so the coins may go ahead of what they rest on. The same goes for a block that is connected on a second try after a write of the index failed.
    * `broken` again: `FindBlockPos` counts `nLastBlockFile` up (`main.cpp:2313`) before anything can fail, and only a call that leaves a file writes the number down (`main.cpp:2344`). After a failure the number on record stays old until the next file is left. If the node stops before that, it takes the old file for the last, and `FlushBlockFile` (`main.cpp:1795`) syncs that
      one and not those behind it, which may have blocks of the coins' chain. (`FilesAreConsistent` and `RecordsStay` hold all the same: the next block goes past the full files at the sizes the database has of them.)
    * `gaps`: undo data that is written, in the initial download, to a file that was left (`main.h:360`: it is never synced), and records of undo data that a loss of power took (they are believed for ever).

Properties are stated so as to leave these apart, and say so: `InputsExist` and `QueueIsExact` except outputs of a coinbase that has left the chain (6),
`OnlyConflictsAreRemoved` loose coinbases and what descends from them (7), `OrphansAreBounded` allows one more (11), `ConnectionsAreBounded` is about connections made under a grant (12), `KeysAreApart` and `PoolNeverRunsDry` except encrypted wallets and `-keypool=0` (13, 14), `StalledAreGivenUp` peers that only trickle (15), `NodesInUseAreAlive` and `DisconnectedAreFreed` name what 16 and 17 are about.

## 8 Limits

* In all modules but `BlockFiles` the process may be killed, and the machine does not lose power: a write that has returned is on disk. A LevelDB batch is atomic, and so is a transaction of Berkeley DB.
* In `ChainState` writes of the block index do not fail (in `BlockFiles` they may); reads of block files and writes of the coin database may.
* `ConnectBlock` is a predicate in `ChainState` and a function of coins without amounts or scripts in `Ledger`: signatures, fees and the
  subsidy are not modelled. A block's validity is taken not to depend on the moment it is connected.
* `SpendsAreExact` leaves the null outpoint apart: all coinbases spend it, so `mapNextTx` knows only the last.
* `NoneIsConfirmed` and `InputsExist` hold as long as no coinbase is seen again after all its outputs are spent; `MCTxMemPool`'s coinbases always keep one. The theorems have it as a hypothesis (section 6).
* In `ChainState` a block and its header arrive together, as in this code; `BLOCK_VALID_SCRIPTS` is not told from `BLOCK_HAVE_UNDO`, which are set together.
* `WalletTx`: `WriteChainState` flushes at every call; writes of the wallet do not fail; the properties hold as long as no coinbase of the chain is fully spent and repeated, which the theorems have as a hypothesis (section 6).
* `KeyPool`: the default key that `GetReservedKey` falls back on, the address book and Berkeley DB's own files are left out; a wallet starts with the file its first start leaves.
* `BlockSync`: announcements are taken whoever asked first; misbehaviour scores, `mapBlockSource` and `getblocks` are left out; a message is processed in the unit of time in which it comes, and no two requests are told apart by less than a unit of time.
* `BlockFiles`: positions known beforehand (`fKnown`, for `-reindex`), what pre-allocation writes, the transaction index and a `FlushBlockFile` that cannot open a file, and says nothing, are left out; any child of the tip may be connected. `ExtentsAreDisjoint` compares what one version of the index names.
* `Nodes`: `StopNode`, buffers and the choice of addresses are left out; what StartSync makes the message thread ask for (`fStartSync`), closing a socket twice and a race between `MoveTo` and `Release` on one grant object are not modelled.
* `AddrMan`: `Attempt_`, `Connected_` and `Select_`, which only touch times and counts, are left out, and so is an address that is known under another port.
* `BlockTemplate`: nothing is said of the block when `PoolConnects` is broken and an entry of `pcoinsTip` is empty: `CreateNewBlock` then reads past its outputs.
* `-reindex`, `-loadblock`, `VerifyDB`, checkpoints and the fork warnings are left out.

Components not modelled, with the reason for each, are listed in `PROJECT.json`.

## 9 Plan

Done, with their proofs: the check queue, chain selection, the coins and their stored form, the pool over them and the miner's template, the wallet's transactions and its key pool, block download and orphan blocks, block files, connections and addresses. Done, without: merkle trees. What is left, in the order of
what rests on it:

1. `OrphanTxs`: `mapOrphanTransactions` with its index by parent, `EraseOrphanTx` during the scan of the tx message, `LimitOrphanTxSize`.
2. `DbEnv`: use counts per file against the flush thread that waits for zero, and `CDB::Rewrite`.
3. `LimitedContainers`: `limitedmap` and `mruset`, two structures kept in step at a bound.
4. `Retarget`: `GetNextWorkRequired` and `ComputeMinWork` at their boundaries; the compact form of targets.
5. The mining threads against a moving tip: a template goes stale, and `CheckWork` asks for the tip again.
6. The script interpreter as a predicate over small stacks, as far as its conditionals (`vfExec`) go.

## 10 Running it

    tlc -workers 2 -config MCChainState.cfg MCChainState     (one line of the table in section 4)
    tlapm ChainStateProofs.tla                               (or another of the modules of section 6)

The largest run takes about three minutes with two workers; `LedgerProofs`, `PoolProofs` and `PeerProofs` take a few minutes each, the other proof modules less.
