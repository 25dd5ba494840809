------------------------------ MODULE KeyPool ------------------------------
(***************************************************************************)
(* The wallet's keys (src/wallet.cpp, src/crypter.cpp, src/walletdb.cpp):  *)
(* the pool of keys generated in advance, the reservations of threads that *)
(* may use one or give it back, locking, and the one encryption of the     *)
(* wallet, against a wallet file that survives a kill of the process.      *)
(*                                                                         *)
(* Every operation but KeepKey holds cs_wallet from beginning to end.  The *)
(* process can be killed between any two writes to the file.  The model    *)
(* starts with the file that a wallet's first start leaves.                *)
(*                                                                         *)
(* Abstracted: a key pair is a number, numbered in the order in which keys *)
(* are generated; the broadcast key, which every wallet generates from the *)
(* same constant, is 0.  MaxKeys bounds how many a behaviour generates.    *)
(***************************************************************************)
EXTENDS Naturals, FiniteSets

CONSTANTS
    Holder,         \* CReserveKey objects
    nKeyPool,       \* -keypool, which may be 0
    MaxKeys,
    None            \* nIndex = -1

ASSUME KeyPoolAssumption ==
    /\ IsFiniteSet(Holder)
    /\ nKeyPool \in Nat /\ MaxKeys \in Nat /\ MaxKeys > nKeyPool
    /\ None \notin Nat

BroadCastKey == 0
Key == 0..MaxKeys

VARIABLES
    up,             \* the process runs
    setKeyPool,     \* indices of the pool's keys that are free to take
    mapKeys,        \* keys in memory, as they are and
    mapCryptedKeys, \* encrypted
    fUseCrypto,
    vMasterKey,     \* whether it is known, which unlocks an encrypted wallet
    file,           \* the records of wallet.dat
    encrypting,     \* EncryptWallet is between EncryptKeys and TxnCommit
    reserved,       \* nIndex and vchPubKey of each CReserveKey
    nGenerated,     \* keys generated so far
    given           \* how often a key was taken from the pool for good

memory == <<setKeyPool, mapKeys, mapCryptedKeys, fUseCrypto, vMasterKey>>
vars == <<up, memory, file, encrypting, reserved, nGenerated, given>>

Nobody == [nIndex |-> None, key |-> BroadCastKey]

(* After the first start: TopUpKeyPool on the empty pool, and the first key   *)
(* taken for the wallet's default address.                                    *)
Init ==
    /\ up = FALSE
    /\ setKeyPool = {} /\ mapKeys = {} /\ mapCryptedKeys = {}
    /\ fUseCrypto = FALSE /\ vMasterKey = FALSE
    /\ file = [key |-> 0..(nKeyPool + 1), ckey |-> {}, mkey |-> FALSE,
               pool |-> [i \in {1} \cup 3..(nKeyPool + 2) |-> i - 1]]
    /\ encrypting = FALSE
    /\ reserved = [h \in Holder |-> Nobody]
    /\ nGenerated = nKeyPool + 1
    /\ given = [k \in Key |-> IF k = 1 THEN 1 ELSE 0]

IsLocked == fUseCrypto /\ ~vMasterKey
Oldest(S) == CHOOSE i \in S : \A j \in S : i <= j
Newest(S) == CHOOSE i \in S : \A j \in S : i >= j

-----------------------------------------------------------------------------
(* Filling the pool *)

(* AddKeyPubKey of new keys: to memory and to the file *)
RecordedKeys(K) ==
    IF fUseCrypto THEN [file EXCEPT !.ckey = @ \cup K] ELSE [file EXCEPT !.key = @ \cup K]

(* GenerateBroadCastKey throws when the key is on record: WriteKey and          *)
(* WriteCryptedKey do not overwrite.                                            *)
BroadCastKeyFails == BroadCastKey \in file.key \cup file.ckey

(* The variants named "Slip..." are not part of the model: each is a mistake *)
(* that the property it is paired with in PROJECT.json would notice.         *)

(* one key less *)
SlipnTarget(kpSize) == IF kpSize > 0 THEN kpSize ELSE nKeyPool

(* TopUpKeyPool; a size of 0, the default, stands for -keypool. *)
nTarget(kpSize) == (IF kpSize > 0 THEN kpSize ELSE nKeyPool) + 1
nMissing(kpSize) ==
    IF Cardinality(setKeyPool) < nTarget(kpSize) THEN nTarget(kpSize) - Cardinality(setKeyPool) ELSE 0
TopUpFails == setKeyPool = {} /\ BroadCastKeyFails

nEnd == IF setKeyPool = {} THEN 2 ELSE Newest(setKeyPool) + 1

(* the keys are generated when they are handed out *)
SlipFilled(n, half) ==
    LET places == nEnd .. nEnd + n - 1
    IN [file EXCEPT
          !.pool = [i \in DOMAIN @ \cup places |-> IF i \in places THEN nGenerated + 1 + i - nEnd ELSE @[i]]]

(* The file after n keys were generated and entered in the pool, and one more   *)
(* generated if `half'.                                                         *)
Filled(n, half) ==
    LET new == nGenerated + 1 .. nGenerated + n + (IF half THEN 1 ELSE 0)
        places == nEnd .. nEnd + n - 1
    IN [RecordedKeys(new) EXCEPT
          !.pool = [i \in DOMAIN @ \cup places |-> IF i \in places THEN nGenerated + 1 + i - nEnd ELSE @[i]]]

CanTopUp(kpSize) == ~IsLocked /\ ~TopUpFails /\ nGenerated + nMissing(kpSize) <= MaxKeys

(* The pool, the file and the memory as an operation finds them that has        *)
(* topped the pool up first if the wallet is not locked.                        *)
FreeAfter(kpSize) ==
    IF IsLocked THEN setKeyPool ELSE setKeyPool \cup (nEnd .. nEnd + nMissing(kpSize) - 1)
FileAfter(kpSize) == IF IsLocked THEN file ELSE Filled(nMissing(kpSize), FALSE)
GeneratedAfter(kpSize) == IF IsLocked THEN nGenerated ELSE nGenerated + nMissing(kpSize)
NewKeys(kpSize) == nGenerated + 1 .. GeneratedAfter(kpSize)
Generate(kpSize) ==
    /\ nGenerated' = GeneratedAfter(kpSize)
    /\ mapKeys' = IF fUseCrypto THEN mapKeys ELSE mapKeys \cup NewKeys(kpSize)
    /\ mapCryptedKeys' = IF fUseCrypto THEN mapCryptedKeys \cup NewKeys(kpSize) ELSE mapCryptedKeys
    /\ UNCHANGED <<fUseCrypto, vMasterKey>>

WalletLockFree == up /\ ~encrypting

-----------------------------------------------------------------------------
(* Taking keys.  An operation that throws in TopUpKeyPool changes nothing.   *)

(* keypoolrefill, to a size that the caller gives or to the default, and        *)
(* walletpassphrase once it has unlocked the wallet                             *)
TopUpKeyPool(kpSize) ==
    /\ WalletLockFree /\ CanTopUp(kpSize)
    /\ nMissing(kpSize) > 0
    /\ setKeyPool' = FreeAfter(kpSize) /\ file' = FileAfter(kpSize)
    /\ Generate(kpSize)
    /\ UNCHANGED <<up, encrypting, reserved, given>>

(* ReserveKeyFromKeyPool takes the oldest key, and throws if the file has no    *)
(* such record or memory no such key.                                           *)
CanTake == (IsLocked \/ CanTopUp(0)) /\ FreeAfter(0) # {}
Taken == Oldest(FreeAfter(0))
IsReadable ==
    /\ Taken \in DOMAIN FileAfter(0).pool
    /\ FileAfter(0).pool[Taken] \in mapKeys \cup mapCryptedKeys \cup NewKeys(0)

(* CReserveKey::GetReservedKey; if it throws, ~CReserveKey returns the index. *)
GetReservedKey(h) ==
    /\ WalletLockFree /\ CanTake
    /\ reserved[h].nIndex = None
    /\ IF IsReadable
       THEN /\ setKeyPool' = FreeAfter(0) \ {Taken}
            /\ reserved' = [reserved EXCEPT ![h] = [nIndex |-> Taken, key |-> FileAfter(0).pool[Taken]]]
       ELSE /\ setKeyPool' = FreeAfter(0)
            /\ UNCHANGED reserved
    /\ file' = FileAfter(0)
    /\ Generate(0)
    /\ UNCHANGED <<up, encrypting, given>>

Without(f, i) == [j \in DOMAIN f \ {i} |-> f[j]]
GivenOnceMore(k) == [given EXCEPT ![k] = IF @ < 2 THEN @ + 1 ELSE @]

(* GetKeyFromPool: getnewaddress and the like *)
GetKeyFromPool ==
    /\ WalletLockFree /\ CanTake
    /\ setKeyPool' = FreeAfter(0) \ {Taken}
    /\ IF IsReadable
       THEN /\ file' = [FileAfter(0) EXCEPT !.pool = Without(@, Taken)]
            /\ given' = GivenOnceMore(FileAfter(0).pool[Taken])
       ELSE /\ file' = FileAfter(0)
            /\ UNCHANGED given
    /\ Generate(0)
    /\ UNCHANGED <<up, encrypting, reserved>>

(* the record of the pool stays *)
SlipKeepKey(h) ==
    /\ up /\ reserved[h].nIndex # None
    /\ file' = file
    /\ given' = GivenOnceMore(reserved[h].key)
    /\ reserved' = [reserved EXCEPT ![h] = Nobody]
    /\ UNCHANGED <<up, memory, encrypting, nGenerated>>

(* CReserveKey::KeepKey, which takes no lock *)
KeepKey(h) ==
    /\ up /\ reserved[h].nIndex # None
    /\ file' = [file EXCEPT !.pool = Without(@, reserved[h].nIndex)]
    /\ given' = GivenOnceMore(reserved[h].key)
    /\ reserved' = [reserved EXCEPT ![h] = Nobody]
    /\ UNCHANGED <<up, memory, encrypting, nGenerated>>

(* CReserveKey::ReturnKey *)
ReturnKey(h) ==
    /\ WalletLockFree /\ reserved[h].nIndex # None
    /\ setKeyPool' = setKeyPool \cup {reserved[h].nIndex}
    /\ reserved' = [reserved EXCEPT ![h] = Nobody]
    /\ UNCHANGED <<up, mapKeys, mapCryptedKeys, fUseCrypto, vMasterKey, file, encrypting, nGenerated, given>>


-----------------------------------------------------------------------------
(* Locking and encryption *)

Lock ==
    /\ WalletLockFree /\ fUseCrypto /\ vMasterKey
    /\ vMasterKey' = FALSE
    /\ UNCHANGED <<up, setKeyPool, mapKeys, mapCryptedKeys, fUseCrypto, file, encrypting, reserved, nGenerated, given>>

(* walletpassphrase, up to its TopUpKeyPool *)
Unlock ==
    /\ WalletLockFree /\ IsLocked
    /\ vMasterKey' = TRUE
    /\ UNCHANGED <<up, setKeyPool, mapKeys, mapCryptedKeys, fUseCrypto, file, encrypting, reserved, nGenerated, given>>

(* EncryptWallet up to the commit: the writes are part of a transaction.  A     *)
(* failure ends the process, as in Crash.                                       *)
EncryptKeys ==
    /\ WalletLockFree /\ ~fUseCrypto
    /\ fUseCrypto' = TRUE
    /\ mapCryptedKeys' = mapKeys /\ mapKeys' = {}
    /\ encrypting' = TRUE
    /\ UNCHANGED <<up, setKeyPool, vMasterKey, file, reserved, nGenerated, given>>

(* TxnCommit, Lock, Unlock and NewKeyPool, which erases the records of the keys *)
(* that are free and throws at the broadcast key, so that neither the second    *)
(* Lock nor Rewrite is reached.                                                 *)
TxnCommit ==
    /\ up /\ encrypting
    /\ encrypting' = FALSE
    /\ vMasterKey' = TRUE
    /\ file' = [file EXCEPT !.key = {}, !.ckey = mapCryptedKeys, !.mkey = TRUE,
                            !.pool = [i \in DOMAIN @ \ setKeyPool |-> @[i]]]
    /\ setKeyPool' = {}
    /\ UNCHANGED <<up, mapKeys, mapCryptedKeys, fUseCrypto, reserved, nGenerated, given>>

-----------------------------------------------------------------------------
(* LoadWallet *)
Start ==
    /\ ~up
    /\ up' = TRUE
    /\ setKeyPool' = DOMAIN file.pool
    /\ mapKeys' = file.key /\ mapCryptedKeys' = file.ckey
    /\ fUseCrypto' = (file.ckey # {}) /\ vMasterKey' = FALSE
    /\ UNCHANGED <<file, encrypting, reserved, nGenerated, given>>

Forget ==
    /\ up' = FALSE
    /\ setKeyPool' = {} /\ mapKeys' = {} /\ mapCryptedKeys' = {}
    /\ fUseCrypto' = FALSE /\ vMasterKey' = FALSE
    /\ encrypting' = FALSE
    /\ reserved' = [h \in Holder |-> Nobody]

Crash ==
    /\ up
    /\ Forget
    /\ UNCHANGED <<file, nGenerated, given>>

(* killed with the pool partly filled *)
CrashInTopUp(kpSize) ==
    /\ WalletLockFree /\ CanTopUp(kpSize)
    /\ \E n \in 0..MaxKeys, half \in BOOLEAN :
        /\ n < nMissing(kpSize)
        /\ file' = Filled(n, half)
        /\ nGenerated' = nGenerated + n + (IF half THEN 1 ELSE 0)
    /\ Forget
    /\ UNCHANGED given

(* killed within NewKeyPool, with some records erased *)
CrashInNewKeyPool ==
    /\ up /\ encrypting
    /\ \E n \in 0..Cardinality(setKeyPool) :
        LET erased == {i \in setKeyPool : Cardinality({j \in setKeyPool : j < i}) < n} IN
        file' = [file EXCEPT !.key = {}, !.ckey = mapCryptedKeys, !.mkey = TRUE,
                             !.pool = [i \in DOMAIN @ \ erased |-> @[i]]]
    /\ Forget
    /\ UNCHANGED <<nGenerated, given>>

Next ==
    \/ \E kpSize \in 0..MaxKeys : TopUpKeyPool(kpSize) \/ CrashInTopUp(kpSize)
    \/ GetKeyFromPool \/ Lock \/ Unlock \/ EncryptKeys \/ TxnCommit
    \/ \E h \in Holder : GetReservedKey(h) \/ KeepKey(h) \/ ReturnKey(h)
    \/ Start \/ Crash \/ CrashInNewKeyPool

Spec == Init /\ [][Next]_vars

-----------------------------------------------------------------------------
(* The type invariant of the wallet's keys and its file. *)
KeyPoolTypeOK ==
    /\ up \in BOOLEAN /\ fUseCrypto \in BOOLEAN /\ vMasterKey \in BOOLEAN /\ encrypting \in BOOLEAN
    /\ setKeyPool \subseteq Nat
    /\ mapKeys \subseteq Key /\ mapCryptedKeys \subseteq Key
    /\ file.key \subseteq Key /\ file.ckey \subseteq Key /\ file.mkey \in BOOLEAN
    /\ DOMAIN file.pool \subseteq Nat /\ \A i \in DOMAIN file.pool : file.pool[i] \in Key
    /\ \A h \in Holder : reserved[h].nIndex \in Nat \cup {None} /\ reserved[h].key \in Key
    /\ nGenerated \in Key
    /\ given \in [Key -> 0..2]

(* A wallet that is not encrypted keeps its reservations apart: an index is    *)
(* with one holder or free, never both, its record is still that of the key    *)
(* the holder was shown, and a key that is being used is not in the pool       *)
(* again.  So ReserveKeyFromKeyPool never throws and a returned key was        *)
(* nobody's.                                                                   *)
ReservationsAreApart ==
    up /\ ~fUseCrypto =>
        /\ setKeyPool \subseteq DOMAIN file.pool
        /\ \A h \in Holder : reserved[h].nIndex # None =>
              /\ reserved[h].nIndex \notin setKeyPool
              /\ reserved[h].nIndex \in DOMAIN file.pool
              /\ file.pool[reserved[h].nIndex] = reserved[h].key
              /\ \A k \in Holder \ {h} : reserved[k].nIndex # reserved[h].nIndex

(* "Take key pair from key pool so it won't be used again" (wallet.cpp:1517):  *)
(* until the wallet is encrypted, over any number of starts, no key is given   *)
(* twice.  This is so also of the broadcast key.  It does not hold with        *)
(* -keypool=0: once every key is reserved and the first comes back,            *)
(* keypoolrefill enters a new key where the last one is on record, and the     *)
(* return of that one makes the new key free while it is reserved.             *)
KeysAreGivenOnce == file.ckey = {} => \A k \in Key : given[k] <= 1

(* A key belongs to one place: to the pool, to one reservation, or to the    *)
(* one use that was made of it.                                              *)
KeysAreApart == KeyPoolTypeOK /\ (nKeyPool > 0 => ReservationsAreApart /\ KeysAreGivenOnce)

(* Whenever the process is killed, the file has the secret of every key that   *)
(* was given, is reserved or waits in the pool, and of every key in memory.    *)
SecretsAreOnFile ==
    LET secrets == file.key \cup file.ckey IN
    /\ \A k \in Key : given[k] > 0 => k \in secrets
    /\ \A h \in Holder : reserved[h].nIndex # None => reserved[h].key \in secrets
    /\ \A i \in DOMAIN file.pool : file.pool[i] \in secrets
    /\ up => mapKeys \cup mapCryptedKeys = secrets

(* The file can be loaded at any moment: LoadKey and LoadCryptedKey refuse a   *)
(* mixture of plain and encrypted keys, and an encrypted wallet needs its      *)
(* master key.                                                                 *)
FileIsOfOneKind ==
    /\ file.key = {} \/ file.ckey = {}
    /\ file.ckey # {} <=> file.mkey

(* A kill between any two writes, those of EncryptWallet included, loses no  *)
(* key and leaves a file that loads.                                         *)
FileIsWhole == SecretsAreOnFile /\ FileIsOfOneKind

(* A wallet that is not encrypted can always give a key, if -keypool asks for *)
(* one at least: TopUpKeyPool throws on an empty pool, so the pool must never  *)
(* run empty, whatever is reserved.  With -keypool=0 it is empty after the     *)
(* first reservation, and RefillWorks shows what becomes of it.                *)
PoolNeverRunsDry == nKeyPool > 0 /\ up /\ ~fUseCrypto => setKeyPool # {}

(* "Error: Keypool ran out, please call keypoolrefill first" (rpcwallet.cpp:   *)
(* 109).  It does not hold: once the pool is empty, which -keypool=0 and the    *)
(* encryption of the wallet bring about, keypoolrefill throws.                 *)
RefillWorks == up /\ ~encrypting /\ ~IsLocked => ~TopUpFails
=============================================================================
