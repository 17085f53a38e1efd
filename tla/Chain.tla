------------------------------- MODULE Chain -------------------------------
(***************************************************************************)
(* The block-processing engine of BlockChain (src/integration_tests/       *)
(* circulation.go, package chain): ProcessBlock with its orphan pool,      *)
(* tryAcceptBlock's three cases, processOrphans, findFork / reorganize     *)
(* with revertBlock and applyBlock, SetTailBlock, SetEternal and the two   *)
(* lookups LoadBlockByHash / LoadBlockByHeight.                            *)
(*                                                                         *)
(* A block is a model value; its parent is a CONSTANT function and its    *)
(* kind a function fixed in Init, so hashes, headers and transactions are  *)
(* abstracted to the block tree and to whether a block passes the checks.  *)
(* ProcessBlock runs under chainLock on the single processing loop, so its *)
(* inner steps are actions that only the same call can take until it       *)
(* returns.                                                                *)
(***************************************************************************)
EXTENDS Integers, Sequences, SequencesExt, FiniteSets, FiniteSetsExt

CONSTANTS
    Genesis,      \* the genesis block
    Blocks,       \* the other blocks peers may send
    Parent,       \* Parent[b]: the block named by b.Header.PrevBlockHash
    Setups,       \* [capacity, kind] pairs to check: the capacity of the LRU
                  \* chain.cache (lru.New(512)) and the kind of every block
    MaxMsgs,      \* bound on the block messages delivered
    MaxRestarts,  \* bound on process restarts
    MaxBlocksPerSync, \* headers served per LocateForkPointAndFetchHeaders (1024)
    Txs,          \* Txs[b]: the hashes of block.Txs, in order
    Nil,          \* a nil *types.Block
    None          \* no entry in a height index

(* "valid": passes every check.  "badCoinbase": fails only the checks     *)
(* tryConnectBlockToMainChain makes before applyBlock (scripts, fees,      *)
(* coinbase value); utxoSet.ApplyBlock accepts it.  "missingInput": spends *)
(* an output that is not there, so ValidateTxInputs and ApplyBlock both    *)
(* fail.                                                                   *)
Kinds == {"valid", "badCoinbase", "missingInput"}

AllBlocks == Blocks \cup {Genesis}

RECURSIVE Height(_)
Height(b) == IF b = Genesis THEN 0 ELSE 1 + Height(Parent[b])

Heights == 1..Cardinality(Blocks)

TxIds == UNION {ToSet(Txs[b]) : b \in AllBlocks}

(* The chain from height 1 up to b: MainChain(tail)[h] is the main-chain  *)
(* block at height h.                                                     *)
RECURSIVE ChainTo(_)
ChainTo(b) == IF b = Genesis THEN <<>> ELSE Append(ChainTo(Parent[b]), b)

VARIABLES
    capacity,     \* the capacity chain.cache was created with
    cache,        \* chain.cache as a sequence, least recently used first
    stored,       \* blocks whose key BlockKey(hash) is in the db
    hidx,         \* the db's BlockHashKey(height) -> hash entries
    heightToBlock,\* the LRU chain.heightToBlock (never full: heights < 512)
    tail,         \* chain.tail
    longest,      \* chain.LongestChainHeight
    eternal,      \* chain.eternal
    orphans,      \* the keys of chain.hashToOrphanBlock
    children,     \* chain.orphanBlockHashToChildren
    applied,      \* blocks whose utxo changes are in the db
    txIndex,      \* the db's TxIndexKey(hash) -> (height, idx) entries
    events,       \* the TopicChainUpdate messages published, in order
    phase,        \* where the running ProcessBlock is
    cur,          \* the block tryAcceptBlock is working on
    fromOrphans,  \* whether that tryAcceptBlock was called by processOrphans
    detachQ,      \* reorganize: detachBlocks not yet reverted
    attachQ,      \* reorganize: attachBlocks not yet applied, fork first
    accepted,     \* processOrphans: acceptedBlocks
    ai,           \* processOrphans: the index i
    kids,         \* processOrphans: childOrphans not yet tried
    msgs,         \* block messages delivered so far
    dbTail,       \* the block stored under TailKey
    dbEternal,    \* the block stored under EternalKey
    bootTail,     \* the tail NewBlockChain loaded when the process started
    restarts,     \* process restarts so far
    kind          \* kind[b] \in Kinds: which checks b passes (fixed per behaviour)

vars == <<capacity, cache, stored, hidx, heightToBlock, tail, longest, eternal, orphans,
          children, applied, txIndex, events, phase, cur, fromOrphans, detachQ,
          attachQ, accepted, ai, kids, msgs, dbTail, dbEternal, bootTail,
          restarts, kind>>

chainVars == <<capacity, cache, stored, hidx, heightToBlock, tail, longest, eternal,
               orphans, children, applied, txIndex, events, dbTail, dbEternal, bootTail,
               restarts>>

-----------------------------------------------------------------------------
(* golang-lru: Add moves an existing key to the front or inserts it and   *)
(* evicts the oldest entry when over capacity; Get moves a present key to  *)
(* the front; Contains leaves the order alone.                            *)
LruAdd(c, k) ==
    LET c1 == Append(SelectSeq(c, LAMBDA x : x # k), k)
    IN  IF Len(c1) > capacity THEN Tail(c1) ELSE c1

InCacheOf(c, b) == \E i \in DOMAIN c : c[i] = b

(* A run of Gets with the keys ks: the keys found move to the front, the   *)
(* one looked up last in front of all, and the others keep their order.   *)
LruGetAll(c, ks) ==
    LET hit     == {k \in ToSet(ks) : InCacheOf(c, k)}
        last(k) == CHOOSE i \in DOMAIN ks : ks[i] = k /\ \A j \in DOMAIN ks : ks[j] = k => j <= i
    IN  SelectSeq(c, LAMBDA x : x \notin hit)
        \o SetToSortSeq(hit, LAMBDA x, y : last(x) < last(y))

(* blockExists against the cache c: in the cache or loadable by hash.      *)
BlockExistsIn(c, b) == InCacheOf(c, b) \/ b \in stored

BlockExists(b) == BlockExistsIn(cache, b)

(* verifyExists: on a chain or in the orphan pool.                         *)
VerifyExists(b) == BlockExists(b) \/ b \in orphans

(* getParentBlock: genesis is its own parent; otherwise cache.Get, then    *)
(* LoadBlockByHash, else nil.                                             *)
ParentBlockIn(c, b) ==
    IF b = Genesis THEN Genesis
    ELSE IF BlockExistsIn(c, Parent[b]) THEN Parent[b] ELSE Nil

(* The hashes getParentBlock passes to cache.Get while walking from b.     *)
ParentGets(b) == IF b = Genesis THEN <<>> ELSE <<Parent[b]>>

(* LoadBlockByHash.                                                        *)
LoadBlockByHash(b) == IF b \in stored THEN b ELSE Nil

(* LoadBlockByHeight: genesis at 0, then heightToBlock, then the db.       *)
LoadBlockByHeight(h) ==
    IF h = 0 THEN Genesis
    ELSE IF h \notin Heights THEN Nil
    ELSE IF heightToBlock[h] # None THEN heightToBlock[h]
    ELSE IF hidx[h] # None THEN LoadBlockByHash(hidx[h])
    ELSE Nil

-----------------------------------------------------------------------------
(* findFork(b) against the cache c.  The first loop moves the side chain  *)
(* down to the main chain's height, the second walks both chains down to   *)
(* their common block, at height ForkHeight.  Each step is getParentBlock: *)
(* a parent it cannot find ends the walk and findFork calls                *)
(* logger.Panicf (ok = FALSE).  The other two panics (unequal heights,     *)
(* too few attachBlocks) cannot happen once Height(b) > longest.  gets     *)
(* lists the hashes the walk passes to cache.Get, in order; attach and    *)
(* detach are findFork's lists, tip first.                                *)
At(s, h) == IF h = 0 THEN Genesis ELSE s[h]

ForkHeight(s, t) ==
    CHOOSE h \in 0..Min({Len(s), Len(t)}) :
        /\ \A k \in 1..h : s[k] = t[k]
        /\ h < Min({Len(s), Len(t)}) => s[h + 1] # t[h + 1]

FindFork(c, b) ==
    LET side == ChainTo(b)
        main == ChainTo(tail)
        f    == ForkHeight(side, main)
        hb   == Height(b)
        n    == longest - f
    IN  [ok     |-> /\ \A h \in f..(hb - 1) : h = 0 \/ BlockExistsIn(c, side[h])
                    /\ \A h \in f..(longest - 1) : h = 0 \/ BlockExistsIn(c, main[h]),
         detach |-> [i \in 1..n |-> main[longest + 1 - i]],
         attach |-> [i \in 1..(hb - f) |-> side[hb + 1 - i]],
         gets   |-> [i \in 1..(hb - longest) |-> At(side, hb - i)]
                    \o [i \in 1..(2 * n) |->
                          IF i % 2 = 1 THEN At(main, longest - (i + 1) \div 2)
                                       ELSE At(side, longest - i \div 2)]]

-----------------------------------------------------------------------------
(* The value MarshalTxIndex(height, idx) stores under TxIndexKey(hash).    *)
TxEntry(h, k) == [height |-> h, idx |-> k]

(* The 0-based position of t in block.Txs; with a repeated hash the last   *)
(* batch.Put wins.                                                         *)
TxPos(b, t) == Max({k \in DOMAIN Txs[b] : Txs[b][k] = t}) - 1

(* WriteTxIndex: one batch putting (height, idx) for every tx of b.        *)
WriteTxIndex(b) ==
    txIndex' = [t \in TxIds |-> IF t \in ToSet(Txs[b]) THEN TxEntry(Height(b), TxPos(b, t))
                                                       ELSE txIndex[t]]

(* Mutant: revertBlock leaves the detached block's tx index entries.       *)
DelTxIndexKept(b) == txIndex' = txIndex

(* DelTxIndex: one batch deleting the entry of every tx of b.              *)
DelTxIndex(b) ==
    txIndex' = [t \in TxIds |-> IF t \in ToSet(Txs[b]) THEN None ELSE txIndex[t]]

(* LoadTxByHash: the tx index gives (height, idx), LoadBlockByHeight the   *)
(* block, and block.Txs[idx] the transaction, whose hash is compared.  An  *)
(* idx past the end of that block's Txs is a Go index-out-of-range panic.  *)
TxLookup(status, t) == [status |-> status, tx |-> t]

LoadTxByHash(t) ==
    IF txIndex[t] = None THEN TxLookup("notFound", Nil)
    ELSE LET e   == txIndex[t]
             blk == LoadBlockByHeight(e.height)
         IN  CASE blk = Nil                 -> TxLookup("noBlock", Nil)
               [] e.idx >= Len(Txs[blk])    -> TxLookup("panic", Nil)
               [] Txs[blk][e.idx + 1] = t   -> TxLookup("ok", t)
               [] OTHER                     -> TxLookup("hashMismatch", Nil)

-----------------------------------------------------------------------------
(* Mutant: StoreBlockToDb without the BlockHashKey(height) put.            *)
ApplyBlockNoHeightKey(b) ==
    /\ applied' = applied \cup {b}
    /\ WriteTxIndex(b)
    /\ stored' = stored \cup {b}
    /\ hidx' = hidx
    /\ events' = Append(events, [connected |-> TRUE, block |-> b])

(* applyBlock's effects when utxoSet.ApplyBlock succeeds: the utxo set and *)
(* tx index are written, StoreBlockToDb puts BlockHashKey(height) and      *)
(* BlockKey(hash), and TopicChainUpdate announces the connection.         *)
ApplyBlock(b) ==
    /\ applied' = applied \cup {b}
    /\ WriteTxIndex(b)
    /\ stored' = stored \cup {b}
    /\ hidx' = [hidx EXCEPT ![Height(b)] = b]
    /\ events' = Append(events, [connected |-> TRUE, block |-> b])

(* StoreTailBlock and StoreEternalBlock put TailKey and EternalKey.       *)
StoreTailBlock(b) == dbTail' = b

StoreEternalBlock(b) == dbEternal' = b

(* SetTailBlock: StoreTailBlock puts TailKey first; heightToBlock gets    *)
(* the tail's height only.                                                 *)
SetTailBlock(b) ==
    /\ StoreTailBlock(b)
    /\ heightToBlock' = [heightToBlock EXCEPT ![Height(b)] = b]
    /\ longest' = Height(b)
    /\ tail' = b

(* Mutant: acceptedBlocks starts empty instead of with the passed block.   *)
AcceptOkNoStart ==
    IF fromOrphans
    THEN /\ accepted' = Append(accepted, cur)
         /\ phase' = "orphans"
         /\ UNCHANGED <<capacity, ai, kids>>
    ELSE /\ accepted' = <<>>
         /\ ai' = 1
         /\ kids' = children[cur]
         /\ phase' = "orphans"

(* Mutant: an accepted orphan is not appended to acceptedBlocks, so its    *)
(* own orphans are not looked up.                                          *)
AcceptOkNoAppend ==
    IF fromOrphans
    THEN /\ accepted' = accepted
         /\ phase' = "orphans"
         /\ UNCHANGED <<capacity, ai, kids>>
    ELSE /\ accepted' = <<cur>>
         /\ ai' = 1
         /\ kids' = children[cur]
         /\ phase' = "orphans"

(* tryAcceptBlock returned nil: ProcessBlock goes on to processOrphans,    *)
(* which starts with acceptedBlocks = [block]; under processOrphans the    *)
(* orphan joins acceptedBlocks.                                            *)
AcceptOk ==
    IF fromOrphans
    THEN /\ accepted' = Append(accepted, cur)
         /\ phase' = "orphans"
         /\ UNCHANGED <<capacity, ai, kids>>
    ELSE /\ accepted' = <<cur>>
         /\ ai' = 1
         /\ kids' = children[cur]
         /\ phase' = "orphans"

(* tryAcceptBlock returned an error: ProcessBlock returns it, also from    *)
(* inside processOrphans.                                                  *)
AcceptFail ==
    /\ phase' = "idle"
    /\ UNCHANGED <<capacity, accepted, ai, kids>>

(* loadGenesis: the first start puts genesisBlockKey, a later one loads   *)
(* the same block by hash.                                                 *)
LoadGenesis == Genesis

-----------------------------------------------------------------------------
Init ==
    /\ \E su \in Setups : capacity = su.capacity /\ kind = su.kind
    /\ cache = <<>>
    /\ stored = {LoadGenesis}
    /\ hidx = [h \in Heights |-> None]
    /\ heightToBlock = [h \in Heights |-> None]
    /\ tail = Genesis
    /\ longest = 0
    /\ eternal = Genesis
    /\ orphans = {}
    /\ children = [b \in AllBlocks |-> <<>>]
    /\ applied = {}
    /\ txIndex = [t \in TxIds |-> None]
    /\ events = <<>>
    /\ phase = "idle"
    /\ cur = Genesis
    /\ fromOrphans = FALSE
    /\ detachQ = <<>>
    /\ attachQ = <<>>
    /\ accepted = <<>>
    /\ ai = 1
    /\ kids = <<>>
    /\ msgs = 0
    /\ dbTail = Nil
    /\ dbEternal = Nil
    /\ bootTail = Genesis
    /\ restarts = 0

(* ProcessBlock, up to tryAcceptBlock.  A block already known is refused  *)
(* (ErrBlockExists).                                                       *)
ReceiveKnown(b) ==
    /\ phase = "idle" /\ msgs < MaxMsgs
    /\ VerifyExists(b)
    /\ msgs' = msgs + 1
    /\ UNCHANGED <<chainVars, phase, cur, fromOrphans, detachQ, attachQ,
                   accepted, ai, kids>>

(* A block whose parent is unknown goes to the orphan pool (addOrphanBlock) *)
(* and ProcessBlock returns; the sync it may start is not modelled.        *)
ReceiveOrphan(b) ==
    /\ phase = "idle" /\ msgs < MaxMsgs
    /\ ~VerifyExists(b)
    /\ ~BlockExists(Parent[b])
    /\ orphans' = orphans \cup {b}
    /\ children' = [children EXCEPT ![Parent[b]] = Append(@, b)]
    /\ msgs' = msgs + 1
    /\ UNCHANGED <<capacity, cache, stored, hidx, heightToBlock, tail, longest, eternal,
                   applied, txIndex, events, phase, cur, fromOrphans, detachQ, attachQ,
                   accepted, ai, kids, dbTail, dbEternal, bootTail, restarts>>

ReceiveBlock(b) ==
    /\ phase = "idle" /\ msgs < MaxMsgs
    /\ ~VerifyExists(b)
    /\ BlockExists(Parent[b])
    /\ phase' = "accept"
    /\ cur' = b
    /\ fromOrphans' = FALSE
    /\ msgs' = msgs + 1
    /\ UNCHANGED <<chainVars, detachQ, attachQ, accepted, ai, kids>>

-----------------------------------------------------------------------------
(* tryAcceptBlock(cur).  getParentBlock's cache.Get, then cache.Add of cur *)
(* before any check of the block's contents.                               *)
CacheAfterAdd == LruAdd(LruGetAll(cache, ParentGets(cur)), cur)

(* findFork(cur) as reorganize calls it.                                    *)
Fork == FindFork(CacheAfterAdd, cur)

AcceptNoParent ==
    /\ phase = "accept"
    /\ ParentBlockIn(cache, cur) = Nil
    /\ AcceptFail
    /\ UNCHANGED <<chainVars, cur, fromOrphans, detachQ, attachQ, msgs>>

(* Case 1, tryConnectBlockToMainChain: the scripts, the inputs, the fees   *)
(* and the coinbase are checked, then applyBlock and SetTailBlock.         *)
AcceptExtend ==
    /\ phase = "accept"
    /\ ParentBlockIn(cache, cur) # Nil
    /\ Parent[cur] = tail
    /\ kind[cur] = "valid"
    /\ cache' = CacheAfterAdd
    /\ ApplyBlock(cur)
    /\ SetTailBlock(cur)
    /\ AcceptOk
    /\ UNCHANGED <<capacity, eternal, orphans, children, cur, fromOrphans, detachQ,
                   attachQ, msgs, dbEternal, bootTail, restarts>>

AcceptExtendRejected ==
    /\ phase = "accept"
    /\ ParentBlockIn(cache, cur) # Nil
    /\ Parent[cur] = tail
    /\ kind[cur] # "valid"
    /\ cache' = CacheAfterAdd
    /\ AcceptFail
    /\ UNCHANGED <<capacity, stored, hidx, heightToBlock, tail, longest, eternal,
                   orphans, children, applied, txIndex, events, cur, fromOrphans,
                   detachQ, attachQ, msgs, dbTail, dbEternal, bootTail, restarts>>

(* Case 2: a side chain no longer than the main chain; the block is kept   *)
(* in the cache only.                                                      *)
AcceptSide ==
    /\ phase = "accept"
    /\ ParentBlockIn(cache, cur) # Nil
    /\ Parent[cur] # tail
    /\ Height(cur) <= longest
    /\ cache' = CacheAfterAdd
    /\ AcceptOk
    /\ UNCHANGED <<capacity, stored, hidx, heightToBlock, tail, longest, eternal,
                   orphans, children, applied, txIndex, events, cur, fromOrphans,
                   detachQ, attachQ, msgs, dbTail, dbEternal, bootTail, restarts>>

(* Mutant: attachBlocks applied in findFork's order, tip first.           *)
AcceptReorgTipFirst ==
    /\ phase = "accept"
    /\ ParentBlockIn(cache, cur) # Nil
    /\ Parent[cur] # tail
    /\ Height(cur) > longest
    /\ Fork.ok
    /\ cache' = LruGetAll(CacheAfterAdd, Fork.gets)
    /\ detachQ' = Fork.detach
    /\ attachQ' = Fork.attach
    /\ phase' = "reorg"
    /\ UNCHANGED <<capacity, stored, hidx, heightToBlock, tail, longest, eternal,
                   orphans, children, applied, txIndex, events, cur, fromOrphans,
                   accepted, ai, kids, msgs, dbTail, dbEternal, bootTail, restarts>>

(* Mutant: a side chain as long as the main chain already reorganizes.    *)
AcceptReorgOnTie ==
    /\ phase = "accept"
    /\ ParentBlockIn(cache, cur) # Nil
    /\ Parent[cur] # tail
    /\ Height(cur) >= longest
    /\ Fork.ok
    /\ cache' = LruGetAll(CacheAfterAdd, Fork.gets)
    /\ detachQ' = Fork.detach
    /\ attachQ' = Reverse(Fork.attach)
    /\ phase' = "reorg"
    /\ UNCHANGED <<capacity, stored, hidx, heightToBlock, tail, longest, eternal,
                   orphans, children, applied, txIndex, events, cur, fromOrphans,
                   accepted, ai, kids, msgs, dbTail, dbEternal, bootTail, restarts>>

(* Case 3: reorganize.  findFork runs against the cache after the Add and  *)
(* its getParentBlock calls refresh the entries they find.                 *)
AcceptReorg ==
    /\ phase = "accept"
    /\ ParentBlockIn(cache, cur) # Nil
    /\ Parent[cur] # tail
    /\ Height(cur) > longest
    /\ Fork.ok
    /\ cache' = LruGetAll(CacheAfterAdd, Fork.gets)
    /\ detachQ' = Fork.detach
    /\ attachQ' = Reverse(Fork.attach)
    /\ phase' = "reorg"
    /\ UNCHANGED <<capacity, stored, hidx, heightToBlock, tail, longest, eternal,
                   orphans, children, applied, txIndex, events, cur, fromOrphans,
                   accepted, ai, kids, msgs, dbTail, dbEternal, bootTail, restarts>>

(* findFork's logger.Panicf: the side chain cannot be walked down to the   *)
(* main chain; the process dies.                                           *)
ForkPanic ==
    /\ phase = "accept"
    /\ ParentBlockIn(cache, cur) # Nil
    /\ Parent[cur] # tail
    /\ Height(cur) > longest
    /\ ~Fork.ok
    /\ phase' = "crashed"
    /\ UNCHANGED <<chainVars, cur, fromOrphans, detachQ, attachQ, accepted,
                   ai, kids, msgs>>

(* reorganize: revertBlock on each detachBlock, tip first.  The block's     *)
(* BlockKey is deleted; its BlockHashKey(height) entry is left.            *)
Detach ==
    /\ phase = "reorg"
    /\ detachQ # <<>>
    /\ LET d == Head(detachQ)
       IN  /\ applied' = applied \ {d}
           /\ DelTxIndex(d)
           /\ stored' = stored \ {d}
           /\ events' = Append(events, [connected |-> FALSE, block |-> d])
    /\ detachQ' = Tail(detachQ)
    /\ UNCHANGED <<capacity, cache, hidx, heightToBlock, tail, longest, eternal,
                   orphans, children, phase, cur, fromOrphans, attachQ,
                   accepted, ai, kids, msgs, dbTail, dbEternal, bootTail, restarts>>

(* reorganize: applyBlock(attachBlock, nil), fork first, with none of the  *)
(* checks of tryConnectBlockToMainChain.                                   *)
Attach ==
    /\ phase = "reorg"
    /\ detachQ = <<>> /\ attachQ # <<>>
    /\ kind[Head(attachQ)] # "missingInput"
    /\ ApplyBlock(Head(attachQ))
    /\ attachQ' = Tail(attachQ)
    /\ UNCHANGED <<capacity, cache, heightToBlock, tail, longest, eternal, orphans,
                   children, phase, cur, fromOrphans, detachQ, accepted, ai,
                   kids, msgs, dbTail, dbEternal, bootTail, restarts>>

(* utxoSet.ApplyBlock fails: reorganize returns the error midway.          *)
AttachFails ==
    /\ phase = "reorg"
    /\ detachQ = <<>> /\ attachQ # <<>>
    /\ kind[Head(attachQ)] = "missingInput"
    /\ attachQ' = <<>>
    /\ AcceptFail
    /\ UNCHANGED <<chainVars, cur, fromOrphans, detachQ, msgs>>

(* reorganize returned nil: SetTailBlock(block).                           *)
ReorgDone ==
    /\ phase = "reorg"
    /\ detachQ = <<>> /\ attachQ = <<>>
    /\ SetTailBlock(cur)
    /\ AcceptOk
    /\ UNCHANGED <<capacity, cache, stored, hidx, eternal, orphans, children, applied, txIndex,
                   events, cur, fromOrphans, detachQ, attachQ, msgs, dbEternal, bootTail, restarts>>

-----------------------------------------------------------------------------
(* processOrphans: the next child of acceptedBlocks[i] leaves the pool and *)
(* goes to tryAcceptBlock.                                                 *)
OrphanTry ==
    /\ phase = "orphans"
    /\ kids # <<>>
    /\ orphans' = orphans \ {Head(kids)}
    /\ cur' = Head(kids)
    /\ kids' = Tail(kids)
    /\ fromOrphans' = TRUE
    /\ phase' = "accept"
    /\ UNCHANGED <<capacity, cache, stored, hidx, heightToBlock, tail, longest, eternal,
                   children, applied, txIndex, events, detachQ, attachQ, accepted, ai,
                   msgs, dbTail, dbEternal, bootTail, restarts>>

(* Mutant: the loop index is not advanced.                                 *)
OrphanNextBlockStuck ==
    /\ phase = "orphans"
    /\ kids = <<>>
    /\ ai < Len(accepted)
    /\ children' = [children EXCEPT ![accepted[ai]] = <<>>]
    /\ ai' = ai
    /\ kids' = children'[accepted[ai]]
    /\ UNCHANGED <<capacity, cache, stored, hidx, heightToBlock, tail, longest, eternal,
                   orphans, applied, txIndex, events, phase, cur, fromOrphans, detachQ,
                   attachQ, accepted, msgs, dbTail, dbEternal, bootTail, restarts>>

(* All children tried: the entry of acceptedBlocks[i] is deleted from the  *)
(* children map and the loop moves to i+1, or returns.                     *)
OrphanNextBlock ==
    /\ phase = "orphans"
    /\ kids = <<>>
    /\ ai < Len(accepted)
    /\ children' = [children EXCEPT ![accepted[ai]] = <<>>]
    /\ ai' = ai + 1
    /\ kids' = children'[accepted[ai + 1]]
    /\ UNCHANGED <<capacity, cache, stored, hidx, heightToBlock, tail, longest, eternal,
                   orphans, applied, txIndex, events, phase, cur, fromOrphans, detachQ,
                   attachQ, accepted, msgs, dbTail, dbEternal, bootTail, restarts>>

OrphansDone ==
    /\ phase = "orphans"
    /\ kids = <<>>
    /\ ai = Len(accepted)
    /\ children' = [children EXCEPT ![accepted[ai]] = <<>>]
    /\ phase' = "idle"
    /\ UNCHANGED <<capacity, cache, stored, hidx, heightToBlock, tail, longest, eternal,
                   orphans, applied, txIndex, events, cur, fromOrphans, detachQ,
                   attachQ, accepted, ai, kids, msgs, dbTail, dbEternal, bootTail, restarts>>

-----------------------------------------------------------------------------
(* SetEternal, called by the consensus with a block of the main chain.     *)
SetEternal(b) ==
    /\ phase = "idle"
    /\ b \in ToSet(ChainTo(tail))
    /\ Height(eternal) < Height(b)
    /\ StoreEternalBlock(b)
    /\ eternal' = b
    /\ UNCHANGED <<capacity, cache, stored, hidx, heightToBlock, tail, longest, orphans,
                   children, applied, txIndex, events, phase, cur, fromOrphans, detachQ,
                   attachQ, accepted, ai, kids, msgs, dbTail, bootTail, restarts>>

-----------------------------------------------------------------------------
(* loadEternalBlock and loadTailBlock read EternalKey and TailKey, and    *)
(* fall back on the genesis when the key was never put.                   *)
LoadEternalBlock == IF dbEternal = Nil THEN Genesis ELSE dbEternal

LoadTailBlock == IF dbTail = Nil THEN Genesis ELSE dbTail

(* loadFilters: LoadBlockByHeight for every height 1..LongestChainHeight, *)
(* through the fresh (empty) heightToBlock, so from the db; the first      *)
(* height without a loadable block is ErrWrongBlockHeight.  The utxo and   *)
(* filter loading of each block are taken to succeed.                      *)
LoadFiltersOk ==
    \A h \in 1..Height(LoadTailBlock) : hidx[h] # None /\ LoadBlockByHash(hidx[h]) # Nil

(* The process stops between any two steps, also inside ProcessBlock or   *)
(* after a panic, and NewBlockChain starts a new one over the same db:    *)
(* fresh caches and orphan maps, eternal and tail from their keys,         *)
(* LongestChainHeight from the tail.  The event bus is a new one too.     *)
(* When loadFilters fails NewBlockChain returns the error and the node    *)
(* does not come up ("down"): it takes no more messages.                   *)
Restart ==
    /\ restarts < MaxRestarts
    /\ restarts' = restarts + 1
    /\ cache' = <<>>
    /\ heightToBlock' = [h \in Heights |-> None]
    /\ eternal' = LoadEternalBlock
    /\ tail' = LoadTailBlock
    /\ longest' = Height(LoadTailBlock)
    /\ bootTail' = LoadTailBlock
    /\ orphans' = {}
    /\ children' = [b \in AllBlocks |-> <<>>]
    /\ events' = <<>>
    /\ phase' = IF LoadFiltersOk THEN "idle" ELSE "down"
    /\ detachQ' = <<>>
    /\ attachQ' = <<>>
    /\ accepted' = <<>>
    /\ kids' = <<>>
    /\ UNCHANGED <<capacity, stored, hidx, applied, txIndex, cur, fromOrphans, ai, msgs,
                   dbTail, dbEternal>>

(* The steps of a running ProcessBlock.                                    *)
Process ==
    /\ \/ AcceptNoParent \/ AcceptExtend \/ AcceptExtendRejected \/ AcceptSide
       \/ AcceptReorg \/ ForkPanic
       \/ Detach \/ Attach \/ AttachFails \/ ReorgDone
       \/ OrphanTry \/ OrphanNextBlock \/ OrphansDone
    /\ UNCHANGED kind

(* The calls from outside the loop; no step changes the blocks' kinds.     *)
Next ==
    \/ /\ \/ \E b \in Blocks : ReceiveKnown(b) \/ ReceiveOrphan(b) \/ ReceiveBlock(b)
          \/ \E b \in Blocks : SetEternal(b)
          \/ Restart
       /\ UNCHANGED kind
    \/ Process

(* The processing loop runs each call to its end; new messages and the     *)
(* consensus need no fairness.                                             *)
Spec == Init /\ [][Next]_vars /\ WF_vars(Process)

-----------------------------------------------------------------------------
(* The ChainReader API the RPC and consensus read the chain through.       *)
GetBlockHeight == longest

GetBlockHash(h) == LoadBlockByHeight(h)

TailBlock == tail

EternalBlock == eternal

(* The sync server side: answers to a peer's locator and block requests,  *)
(* read through LoadBlockByHeight without chainLock.  A result is the      *)
(* blocks returned and whether err is nil.                                 *)
SyncResult(bs, ok) == [blocks |-> bs, ok |-> ok]

(* n successive LoadBlockByHeight calls from height from; the first that  *)
(* fails ends the loop with its error.                                     *)
FetchHeights(from, n) ==
    LET bs == [i \in 1..n |-> LoadBlockByHeight(from + i - 1)]
    IN  IF \E i \in 1..n : bs[i] = Nil THEN SyncResult(<<>>, FALSE)
        ELSE SyncResult(bs, TRUE)

(* The uint32 test tailHeight-height+1 < n: the difference wraps to a huge *)
(* value, never below n, when height > tailHeight+1.                        *)
FewerThan(tailHeight, height, n) ==
    height <= tailHeight + 1 /\ tailHeight - height + 1 < n

(* LocateForkPointAndFetchHeaders: the first locator hash the db knows is  *)
(* the fork point; hashes above it up to the tail, or MaxBlocksPerSync of  *)
(* them when that many remain.                                             *)
LocateForkPointAndFetchHeaders(hashes) ==
    LET known == SelectSeq(hashes, LAMBDA b : LoadBlockByHash(b) # Nil)
        t     == Height(tail)
    IN  IF known = <<>> THEN SyncResult(<<>>, TRUE)
        ELSE LET h == Height(known[1]) IN
             IF FewerThan(t, h, MaxBlocksPerSync)
             THEN FetchHeights(h + 1, t - h)
             ELSE FetchHeights(h + 1, MaxBlocksPerSync)

(* FetchNBlockAfterSpecificHash: num blocks from the block with the hash.  *)
FetchNBlockAfterSpecificHash(b, num) ==
    LET t == Height(tail) IN
    CASE LoadBlockByHash(b) = Nil                        -> SyncResult(<<>>, FALSE)
      [] num = 0 \/ FewerThan(t, Height(b), num)        -> SyncResult(<<>>, FALSE)
      [] OTHER -> FetchHeights(Height(b), num)

(* CalcRootHashForNBlocks: the hashes of num blocks from the block with    *)
(* the hash, in height order, go to util.BuildMerkleRoot (not under src/); *)
(* the result stands for the root by the list it commits to.  Unlike      *)
(* FetchNBlockAfterSpecificHash it has no num <= 0 test.                   *)
CalcRootHashForNBlocks(b, num) ==
    LET t == Height(tail) IN
    CASE LoadBlockByHash(b) = Nil                  -> SyncResult(<<>>, FALSE)
      [] FewerThan(t, Height(b), num)             -> SyncResult(<<>>, FALSE)
      [] OTHER -> FetchHeights(Height(b), num)

-----------------------------------------------------------------------------
Phases == {"idle", "accept", "reorg", "orphans", "crashed", "down"}

TypeOK ==
    /\ cache \in Seq(Blocks) /\ Len(cache) <= capacity
    /\ stored \subseteq AllBlocks /\ Genesis \in stored
    /\ hidx \in [Heights -> Blocks \cup {None}]
    /\ heightToBlock \in [Heights -> Blocks \cup {None}]
    /\ tail \in AllBlocks /\ eternal \in AllBlocks
    /\ longest = Height(tail)
    /\ orphans \subseteq Blocks /\ applied \subseteq Blocks
    /\ txIndex \in [TxIds -> [height : Heights, idx : Nat] \cup {None}]
    /\ children \in [AllBlocks -> Seq(Blocks)]
    /\ events \in Seq([connected : BOOLEAN, block : Blocks])
    /\ phase \in Phases /\ cur \in AllBlocks /\ fromOrphans \in BOOLEAN
    /\ detachQ \in Seq(Blocks) /\ attachQ \in Seq(Blocks)
    /\ accepted \in Seq(Blocks) /\ kids \in Seq(Blocks)
    /\ phase = "orphans" => ai \in DOMAIN accepted
    /\ msgs \in 0..MaxMsgs
    /\ dbTail \in AllBlocks \cup {Nil} /\ dbEternal \in AllBlocks \cup {Nil}
    /\ bootTail \in AllBlocks /\ restarts \in 0..MaxRestarts
    /\ [capacity |-> capacity, kind |-> kind] \in Setups

MainChain == ToSet(ChainTo(tail))

(* A TopicChainUpdate subscriber that applies each message to its view of  *)
(* the chain: a connected block must extend the view, a disconnected one   *)
(* must be its tip.                                                        *)
ReplayStep(v, e) ==
    IF e.connected
    THEN [ok  |-> v.ok /\ Parent[e.block] = IF v.seq = <<>> THEN Genesis
                                             ELSE Last(v.seq),
          seq |-> Append(v.seq, e.block)]
    ELSE [ok  |-> v.ok /\ v.seq # <<>> /\ Last(v.seq) = e.block,
          seq |-> IF v.seq = <<>> THEN <<>> ELSE Front(v.seq)]

(* A subscriber starts from the chain NewBlockChain loaded.                *)
Replay == FoldLeft(ReplayStep, [ok |-> TRUE, seq |-> ChainTo(bootTail)], events)

(* When ProcessBlock has returned, the connect / disconnect messages that  *)
(* revertBlock and applyBlock published, in order, take a subscriber       *)
(* (the mempool, the wallet) exactly to the main chain.                    *)
EventsFollowChain ==
    phase = "idle" => Replay.ok /\ Replay.seq = ChainTo(tail)

(* When ProcessBlock has returned, the db holds the main chain and nothing *)
(* else applied: every main-chain block is loadable by hash, its height    *)
(* key names it, and the utxo set / tx index hold exactly its blocks.      *)
MainChainPersisted ==
    phase = "idle" =>
        /\ \A b \in MainChain : b \in stored /\ hidx[Height(b)] = b
        /\ applied = MainChain

(* When ProcessBlock has returned, no orphan in hashToOrphanBlock has its  *)
(* parent in the db: processOrphans tried every child of every accepted    *)
(* block.  A left-over orphan is never retried, and ProcessBlock refuses   *)
(* it again as existing.                                                   *)
OrphansResolved ==
    phase = "idle" => \A o \in orphans : Parent[o] \notin stored

(* LoadBlockByHeight (GetBlockHash, the RPC) returns the main-chain block  *)
(* at every height up to the tail, including after a reorganization.      *)
LoadByHeightMatchesChain ==
    phase = "idle" =>
        \A h \in 1..GetBlockHeight : GetBlockHash(h) = ChainTo(TailBlock)[h]

(* Every block of the main chain passed tryConnectBlockToMainChain's       *)
(* checks (scripts, inputs, fees, coinbase value), also after a reorg.     *)
MainChainValid ==
    phase = "idle" => \A b \in MainChain : kind[b] = "valid"

(* The eternal block set by SetEternal stays on the main chain: no         *)
(* reorganization detaches a finalized block.                              *)
EternalOnMainChain ==
    phase = "idle" => EternalBlock \in MainChain \cup {Genesis}

(* After NewBlockChain, also one that follows a stop inside ProcessBlock,  *)
(* the tail loaded from TailKey is a block LoadBlockByHash finds, and the  *)
(* utxo set holds exactly its chain.                                       *)
RecoveredTailConsistent ==
    phase = "idle" =>
        /\ LoadBlockByHash(TailBlock) = TailBlock
        /\ applied = MainChain

(* The sync server serves the main chain: a peer whose locator names a    *)
(* main-chain block b gets, without error, the main-chain blocks after b   *)
(* up to the tail, at most MaxBlocksPerSync of them; and asking for n      *)
(* blocks from b, as many as the chain has, returns exactly those, and the *)
(* Merkle root over n blocks from b commits to exactly those.             *)
SyncServesMainChain ==
    phase = "idle" =>
        \A b \in ToSet(ChainTo(tail)) \cap stored :
            LET main == ChainTo(tail)
                h    == Height(b)
                r    == LocateForkPointAndFetchHeaders(<<b>>)
                last == IF h + MaxBlocksPerSync < Len(main)
                        THEN h + MaxBlocksPerSync ELSE Len(main)
            IN  /\ r.ok /\ r.blocks = SubSeq(main, h + 1, last)
                /\ \A n \in 1..(Len(main) - h + 1) :
                      /\ FetchNBlockAfterSpecificHash(b, n)
                           = SyncResult(SubSeq(main, h, h + n - 1), TRUE)
                      /\ CalcRootHashForNBlocks(b, n)
                           = SyncResult(SubSeq(main, h, h + n - 1), TRUE)

(* The tx index follows the main chain: once ProcessBlock has returned,   *)
(* exactly the transactions of main-chain blocks have an entry, and it     *)
(* names the height of their block and their position in it.  A           *)
(* transaction mined on both branches moves with the reorganization.       *)
MainChainTxEntry(t) ==
    LET bs == {b \in MainChain : t \in ToSet(Txs[b])}
    IN  IF bs = {} THEN None
        ELSE LET b == CHOOSE b \in bs : TRUE IN TxEntry(Height(b), TxPos(b, t))

TxIndexMatchesMainChain ==
    phase = "idle" => \A t \in TxIds : txIndex[t] = MainChainTxEntry(t)

(* LoadTxByHash (the RPC's transaction lookup) finds every transaction of  *)
(* a main-chain block once ProcessBlock has returned.                      *)
TxLookupServesMainChain ==
    phase = "idle" =>
        \A b \in MainChain : \A t \in ToSet(Txs[b]) : LoadTxByHash(t) = TxLookup("ok", t)

(* The setting the consistency properties are stated for: every block     *)
(* passes the checks, chain.cache has room for every block, and the        *)
(* process has not restarted.  The violation runs show what goes wrong     *)
(* outside it (a failed attach, a rejected orphan, a stop mid-reorg).      *)
FaultFree ==
    /\ \A b \in Blocks : kind[b] = "valid"
    /\ capacity >= Cardinality(Blocks)
    /\ restarts = 0

(* With well-formed blocks and no eviction or restart, the update messages *)
(* take a subscriber to the main chain after every ProcessBlock.           *)
FaultFreeEventsFollowChain == FaultFree => EventsFollowChain

(* In the same setting, the db holds exactly the main chain after every    *)
(* ProcessBlock: blocks, height keys and applied utxo changes.             *)
FaultFreeMainChainPersisted == FaultFree => MainChainPersisted

(* In the same setting, no orphan is left waiting on a parent in the db    *)
(* once ProcessBlock returns.                                              *)
FaultFreeOrphansResolved == FaultFree => OrphansResolved

(* In the same setting, the tx index names exactly the main chain's        *)
(* transactions at their heights and positions after every ProcessBlock.   *)
FaultFreeTxIndexMatchesMainChain == FaultFree => TxIndexMatchesMainChain

(* findFork never panics on a block tryAcceptBlock hands it.               *)
NoPanic == phase # "crashed"

(* The main chain, read at the tail, implements LongestChain: from the    *)
(* genesis it only ever moves to the chain of a strictly higher block, at  *)
(* the SetTailBlock that ends tryConnectBlockToMainChain or reorganize;    *)
(* the detach and attach steps between leave the tail alone, and a restart *)
(* reloads the same tail from TailKey.                                     *)
LC == INSTANCE LongestChain WITH chain <- ChainTo(tail)

LongestChainRule == LC!Spec

(* Every ProcessBlock call returns: the processing loop runs it to its    *)
(* end through reorganize and processOrphans, or it panics in findFork, or *)
(* the process stops and NewBlockChain fails in loadFilters.               *)
ProcessBlockReturns ==
    phase \in {"accept", "reorg", "orphans"} ~> phase \in {"idle", "crashed", "down"}
=============================================================================
