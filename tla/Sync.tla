-------------------------------- MODULE Sync --------------------------------
(***************************************************************************)
(* A node joins: its sync manager (blockchain/sync/sync_mgr.go) fetches    *)
(* the blocks and the transactions of its bootstrap peer from the peer's   *)
(* NetworkService (node/network_service.go), while gossip reaches the same *)
(* chain and the same mempool (blockchain/pool/mempool.go).                *)
(*                                                                         *)
(* Blocks form one long chain, Main, with a stray block beside each of its *)
(* blocks.  A block is stored in one step here; the writes that StoreBlock *)
(* consists of, and their interleavings, are the subject of ChainStore.    *)
(***************************************************************************)
EXTENDS Naturals, FiniteSets, Sequences

CONSTANTS
    MaxBlockCountForRetrieving,        \* the blocks one call may fetch
    MaxTransactionCountForRetrieving,  \* the transactions one call may fetch
    Tx,             \* the transactions, each named by its hash
    None,           \* no entry
    MaxHeight,      \* bound: the height of the chain
    MaxEvents       \* bound: what gossip, time and the peer do meanwhile

ASSUME SyncAssumption ==
    /\ MaxBlockCountForRetrieving \in Nat \ {0}
    /\ MaxTransactionCountForRetrieving \in Nat \ {0}
    /\ MaxHeight \in Nat \ {0} /\ MaxEvents \in Nat /\ IsFiniteSet(Tx)
    /\ None \notin Tx /\ None \notin Nat /\ Tx \cap Nat = {}

VARIABLES
    \* how the node is set up
    bootstrapPeer,   \* whether it has one
    salted,          \* whether the salt flag of the Merkle tree library has an effect
    \* the node
    chain,           \* its blocks above genesis, the block at height h at position h
    mempool,         \* mempool[t]: the pointer stored under the hash of t
    v,               \* v[i]: the loop variable that reply i was stored through
    \* its initial sync
    pc, ourLastHeight, height, heightCount, to, receivedBlocks,
    txsToRetrieve, txHashes, batch,
    \* the peer
    peerHeight,      \* it has this many blocks of the main chain
    peerPool,        \* the transactions in its mempool
    peerUp,          \* its process runs
    events,          \* the steps of gossip, time and the peer so far
    \* what happened, for the properties
    refused,         \* a call for blocks was turned down
    replies,         \* replies[i]: the transactions of reply i
    gone,            \* the transactions that left the peer's mempool since it listed them
    trouble          \* a call failed, a block was turned down or the peer restarted

setup == <<bootstrapPeer, salted>>
blockVars == <<ourLastHeight, height, heightCount, to, receivedBlocks>>
txVars == <<txsToRetrieve, txHashes, batch>>
peer == <<peerHeight, peerPool, peerUp>>
history == <<refused, gone, replies, trouble>>
vars == <<setup, chain, mempool, v, pc, blockVars, txVars, peer, events, history>>

Height == 0..MaxHeight
Branch == {"main", "stray"}
Block == [height : 1..MaxHeight, branch : Branch]

(* Every block builds on the main block below it; genesis is one.          *)
At(c, h) == IF h = 0 THEN "main" ELSE c[h]

Batch == 1..Cardinality(Tx)

SyncTypeOK ==
    /\ bootstrapPeer \in BOOLEAN /\ salted \in BOOLEAN
    /\ chain \in Seq(Branch) /\ Len(chain) \in Height
    /\ mempool \in [Tx -> Tx \cup Batch \cup {None}]
    /\ v \in [Batch -> Tx \cup {None}]
    /\ pc \in {"start", "height", "ranges", "process", "inventory", "fetch", "store", "done"}
    /\ ourLastHeight \in Height /\ height \in Height
    /\ heightCount \in Height /\ to \in Height
    /\ receivedBlocks \in Seq(Block)
    /\ txsToRetrieve \subseteq Tx /\ txHashes \subseteq Tx /\ batch \in Batch \cup {0}
    /\ peerHeight \in Height /\ peerPool \subseteq Tx /\ peerUp \in BOOLEAN
    /\ events \in 0..MaxEvents
    /\ refused \in BOOLEAN /\ gone \subseteq Tx /\ replies \in [Batch -> SUBSET Tx] /\ trouble \in BOOLEAN

(* A node that joins for the first time, or again with blocks it kept.     *)
Init ==
    /\ bootstrapPeer \in BOOLEAN /\ salted \in BOOLEAN
    /\ chain \in {<<>>, <<"main">>, <<"stray">>}
    /\ mempool = [t \in Tx |-> None]
    /\ v = [i \in Batch |-> None]
    /\ pc = "start"
    /\ ourLastHeight = 0 /\ height = 0 /\ heightCount = 0 /\ to = 0
    /\ receivedBlocks = <<>>
    /\ txsToRetrieve = {} /\ txHashes = {} /\ batch = 0
    /\ peerHeight \in Height /\ peerPool \in SUBSET Tx /\ peerUp = TRUE
    /\ events = 0
    /\ refused = FALSE /\ gone = {} /\ replies = [i \in Batch |-> {}] /\ trouble = FALSE

-----------------------------------------------------------------------------
(* The node's chain.                                                       *)

HasBlock(b) == b.height <= Len(chain) /\ chain[b.height] = b.branch

(* ValidateBlock compares with the block at the latest height.             *)
Extends(b) == b.height = Len(chain) + 1 /\ At(chain, Len(chain)) = "main"

(* StoreBlock passes over a block that is there, and turns down one that   *)
(* does not extend the chain.  It may also turn down one that does, for    *)
(* the stakes, the beacon or the foreign chain that it consults.           *)
StoreBlock(b) ==
    \/ ~HasBlock(b) /\ Extends(b) /\ chain' = Append(chain, b.branch)
    \/ UNCHANGED chain /\ (HasBlock(b) \/ ~Extends(b))
    \/ UNCHANGED chain /\ Extends(b)

(* The checks of the sync manager itself: the parent is there and is the   *)
(* right one, and the parent's hash is in the block's Merkle tree, which   *)
(* was built with the salt and is asked without it.                        *)
Linked(b) ==
    /\ b.height - 1 <= Len(chain)
    /\ At(chain, b.height - 1) = "main"
    /\ ~salted

processReceivedBlock(b) ==
    \/ Linked(b) /\ StoreBlock(b)
    \/ ~Linked(b) /\ UNCHANGED chain

-----------------------------------------------------------------------------
(* The node's mempool, in the in-memory cache, which keeps the pointers it *)
(* is given, each until it expires.                                        *)
StoreWithTTL(t, p) == mempool' = [mempool EXCEPT ![t] = p]
Get(t) == mempool[t]
Delete(t) == mempool' = [mempool EXCEPT ![t] = None]

(* GetTransaction finds something under the hash of t.                     *)
Found(t) == Get(t) # None

-----------------------------------------------------------------------------
(* The peer's NetworkService, and its mempool.                             *)

GetAllTransactions == peerPool

RangeRefused(from, upto) ==
    from > upto \/ upto - from > MaxBlockCountForRetrieving

FetchBlockByHeight(h) == [height |-> h, branch |-> "main"]

(* The blocks of the range that the peer has; the others are only counted  *)
(* as failed.                                                              *)
GetRangeOfBlocks(from, upto) ==
    LET last == IF upto < peerHeight THEN upto ELSE peerHeight IN
    [i \in 1..(IF last < from THEN 0 ELSE last - from + 1) |-> FetchBlockByHeight(from + i - 1)]

(* A transaction that is not found is dereferenced all the same.           *)
GetMempoolTxsPanics(items) == ~(items \subseteq peerPool)

-----------------------------------------------------------------------------
(* The initial sync, one step for each call and each block or transaction. *)

(* A call fails: the sync ends, and is not tried again.                    *)
CallFails ==
    /\ pc \in {"height", "ranges", "inventory", "fetch"}
    /\ pc' = "done" /\ trouble' = TRUE
    /\ UNCHANGED <<setup, chain, mempool, v, blockVars, txVars, peer, events, refused, gone, replies>>

readLastHeight ==
    /\ pc = "start"
    /\ ourLastHeight' = Len(chain)
    /\ pc' = IF bootstrapPeer THEN "height" ELSE "done"
    /\ UNCHANGED <<setup, chain, mempool, v, height, heightCount, to, receivedBlocks,
                   txVars, peer, events, history>>

LastBlockHeight ==
    /\ pc = "height" /\ peerUp
    /\ height' = peerHeight
    /\ to' = ourLastHeight
    /\ IF peerHeight > ourLastHeight
       THEN heightCount' = peerHeight - ourLastHeight /\ pc' = "ranges"
       ELSE heightCount' = 0 /\ pc' = "inventory"
    /\ UNCHANGED <<setup, chain, mempool, v, ourLastHeight, receivedBlocks, txVars, peer, events, history>>

MutUncapped == heightCount
MutWholeRanges == MaxBlockCountForRetrieving

addedVal == IF heightCount < MaxBlockCountForRetrieving
            THEN heightCount ELSE MaxBlockCountForRetrieving

MutSkipOne(upto) == upto + 2

nextFrom(upto) == upto + 1

(* All ranges are fetched before the first block is processed.             *)
fetchRange ==
    /\ pc = "ranges" /\ heightCount > 0 /\ peerUp
    /\ heightCount' = heightCount - addedVal
    /\ to' = to + addedVal
    /\ \/ /\ ~RangeRefused(nextFrom(to), to')
          /\ receivedBlocks' = receivedBlocks \o GetRangeOfBlocks(nextFrom(to), to')
          /\ UNCHANGED <<pc, refused, trouble>>
       \/ /\ RangeRefused(nextFrom(to), to')
          /\ pc' = "done" /\ refused' = TRUE /\ trouble' = TRUE
          /\ UNCHANGED receivedBlocks
    /\ UNCHANGED <<setup, chain, mempool, v, ourLastHeight, height, txVars, peer, events, gone, replies>>

rangesFetched ==
    /\ pc = "ranges" /\ heightCount = 0
    /\ pc' = "process"
    /\ UNCHANGED <<setup, chain, mempool, v, blockVars, txVars, peer, events, history>>

MutRetryBlock ==
    /\ pc = "process" /\ receivedBlocks # <<>>
    /\ processReceivedBlock(Head(receivedBlocks))
    /\ receivedBlocks' = IF chain' = chain /\ ~HasBlock(Head(receivedBlocks))
                         THEN receivedBlocks ELSE Tail(receivedBlocks)
    /\ UNCHANGED <<setup, mempool, v, pc, ourLastHeight, height, heightCount, to,
                   txVars, peer, events, history>>

(* A block that is turned down is skipped.                                 *)
processNext ==
    /\ pc = "process" /\ receivedBlocks # <<>>
    /\ processReceivedBlock(Head(receivedBlocks))
    /\ receivedBlocks' = Tail(receivedBlocks)
    /\ trouble' = (trouble \/ (Linked(Head(receivedBlocks)) /\ Extends(Head(receivedBlocks))
                               /\ chain' = chain))
    /\ UNCHANGED <<setup, mempool, v, pc, ourLastHeight, height, heightCount, to,
                   txVars, peer, events, refused, gone, replies>>

blocksProcessed ==
    /\ pc = "process" /\ receivedBlocks = <<>>
    /\ pc' = "inventory"
    /\ UNCHANGED <<setup, chain, mempool, v, blockVars, txVars, peer, events, history>>

(* The hashes in the peer's mempool.                                       *)
MutMempool == Tx

Mempool == GetAllTransactions

fetchInventory ==
    /\ pc = "inventory" /\ peerUp
    /\ txsToRetrieve' = {t \in Mempool : ~Found(t)}
    /\ pc' = "fetch"
    /\ UNCHANGED <<setup, chain, mempool, v, blockVars, txHashes, batch, peer, events, history>>

(* What is asked for next; a set, for the keys of a cache have no order.   *)
NextBatch(items) ==
    /\ items \subseteq txsToRetrieve
    /\ Cardinality(items) =
          IF Cardinality(txsToRetrieve) > MaxTransactionCountForRetrieving
          THEN MaxTransactionCountForRetrieving ELSE Cardinality(txsToRetrieve)

fetchTxs ==
    /\ pc = "fetch" /\ txsToRetrieve # {} /\ peerUp
    /\ \E items \in SUBSET txsToRetrieve :
          /\ NextBatch(items)
          /\ txsToRetrieve' = txsToRetrieve \ items
          /\ \/ /\ ~GetMempoolTxsPanics(items)
                /\ txHashes' = items /\ batch' = batch + 1
                /\ replies' = [replies EXCEPT ![batch'] = items]
                /\ pc' = "store"
                /\ UNCHANGED <<peerUp, trouble>>
             \/ /\ GetMempoolTxsPanics(items)
                /\ peerUp' = FALSE /\ pc' = "done" /\ trouble' = TRUE
                /\ UNCHANGED <<txHashes, batch, replies>>
    /\ UNCHANGED <<setup, chain, mempool, v, blockVars, peerHeight, peerPool, events, refused, gone>>

MutStoreTx(t) ==
    /\ v' = [v EXCEPT ![1] = t]
    /\ StoreWithTTL(t, 1)

(* StoreTx(&v): what is stored is the address of the loop variable, which  *)
(* the loops for one reply share.                                          *)
StoreTx(t) ==
    /\ v' = [v EXCEPT ![batch] = t]
    /\ StoreWithTTL(t, batch)

storeNext ==
    /\ pc = "store" /\ txHashes # {}
    /\ \E t \in txHashes : StoreTx(t) /\ txHashes' = txHashes \ {t}
    /\ UNCHANGED <<setup, chain, pc, blockVars, txsToRetrieve, batch, peer, events, history>>

batchStored ==
    /\ pc = "store" /\ txHashes = {}
    /\ pc' = "fetch"
    /\ UNCHANGED <<setup, chain, mempool, v, blockVars, txVars, peer, events, history>>

initialSyncCompleted ==
    /\ pc = "fetch" /\ txsToRetrieve = {}
    /\ pc' = "done"
    /\ UNCHANGED <<setup, chain, mempool, v, blockVars, txVars, peer, events, history>>

initialSync ==
    \/ CallFails \/ readLastHeight
    \/ LastBlockHeight \/ fetchRange \/ rangesFetched \/ processNext \/ blocksProcessed
    \/ fetchInventory \/ fetchTxs \/ storeNext \/ batchStored \/ initialSyncCompleted

-----------------------------------------------------------------------------
(* What goes on meanwhile.                                                 *)

Event == events < MaxEvents /\ events' = events + 1

(* A gossiped block goes to StoreBlock without the checks of the sync.     *)
onNewBlock(b) ==
    /\ Event
    /\ StoreBlock(b)
    /\ UNCHANGED <<setup, mempool, v, pc, blockVars, txVars, peer, history>>

onNewTransaction(t) ==
    /\ Event
    /\ StoreWithTTL(t, t)
    /\ UNCHANGED <<setup, chain, v, pc, blockVars, txVars, peer, history>>

(* An entry expires, or its transaction went into a block.                 *)
DeleteTx(t) ==
    /\ Event
    /\ Found(t)
    /\ Delete(t)
    /\ UNCHANGED <<setup, chain, v, pc, blockVars, txVars, peer, history>>

peerCommits ==
    /\ Event
    /\ peerUp /\ peerHeight < MaxHeight
    /\ peerHeight' = peerHeight + 1
    /\ UNCHANGED <<setup, chain, mempool, v, pc, blockVars, txVars, peerPool, peerUp, history>>

peerDeletesTx(t) ==
    /\ Event
    /\ peerUp /\ t \in peerPool
    /\ peerPool' = peerPool \ {t}
    /\ gone' = IF pc \in {"fetch", "store"} THEN gone \cup {t} ELSE gone
    /\ UNCHANGED <<setup, chain, mempool, v, pc, blockVars, txVars, peerHeight, peerUp,
                   refused, replies, trouble>>

(* The peer starts again; unless it is configured otherwise its database   *)
(* is in memory, as its mempool is.                                        *)
peerRestarts ==
    /\ Event
    /\ peerHeight' \in {0, peerHeight}
    /\ peerPool' = {} /\ peerUp' = TRUE
    /\ gone' = IF pc \in {"fetch", "store"} THEN gone \cup peerPool ELSE gone
    /\ trouble' = TRUE
    /\ UNCHANGED <<setup, chain, mempool, v, pc, blockVars, txVars, refused, replies>>

Next ==
    \/ initialSync
    \/ \E b \in Block : onNewBlock(b)
    \/ \E t \in Tx : onNewTransaction(t) \/ DeleteTx(t) \/ peerDeletesTx(t)
    \/ peerCommits
    \/ peerRestarts

(* The sync runs in a goroutine of its own, and a call returns: with the   *)
(* reply, or with an error when the peer does not answer.                  *)
Fairness == WF_vars(initialSync)

Spec == Init /\ [][Next]_vars /\ Fairness

-----------------------------------------------------------------------------
(* A node catches up: when the peer answered throughout and no block was   *)
(* turned down, the sync leaves the node at least at the height that the   *)
(* peer reported, unless the node holds a stray block below it, or the     *)
(* salt flag has an effect and the proofs of all blocks are rejected.      *)
CaughtUp ==
    /\ pc \in {"inventory", "fetch", "store", "done"} /\ bootstrapPeer
    /\ ~trouble /\ ~salted
    /\ \A h \in DOMAIN chain : h <= height => chain[h] = "main"
    => Len(chain) >= height

(* The ranges that doInitialBlockPoolSync cuts the missing heights into    *)
(* are ones that GetRangeOfBlocks accepts.                                 *)
RangeAccepted == ~refused

(* GetMempoolTxs takes the peer down only if a transaction that it listed  *)
(* has left its mempool since: the client asks for nothing else.           *)
StaleInventoryOnly == ~peerUp => gone # {}

(* What the mempool holds under the hash of a transaction that was synced  *)
(* came in the same reply: the loop variable that the entries of a reply   *)
(* share never mixes replies, and a reply of one transaction is intact.    *)
FoundInSameReply ==
    \A t \in Tx : mempool[t] \in Batch =>
        {t, v[mempool[t]]} \subseteq replies[mempool[t]]

(* The initial sync ends, whatever the peer and gossip do meanwhile.       *)
SyncEnds == <>(pc = "done")
=============================================================================
