----------------------------- MODULE ChainStore -----------------------------
(***************************************************************************)
(* The block store of one node: BlockChain.StoreBlock and ValidateBlock    *)
(* (blockchain/blockchain.go) over the LMDB database                       *)
(* (blockchain/database/lmdb), one database transaction per step.          *)
(*                                                                         *)
(* Nothing locks StoreBlock: the beacon round calls it, and so does every  *)
(* goroutine that handles a NewBlock message.  Each call is a writer.  A   *)
(* crash stops them all; what the transactions wrote stays.                *)
(***************************************************************************)
EXTENDS Integers

CONSTANTS
    Block,     \* the blocks that honest miners make, genesis included
    Genesis,   \* the block of GenesisBlock
    Parent,    \* the block whose hash is each block's LastHash
    Height,    \* Header.Height of each block
    Writer,    \* the calls of StoreBlock that may run at once
    None       \* no value under a key

(* CreateBlock puts a block one above the block it extends.                *)
ASSUME BlockAssumption ==
    /\ Genesis \in Block /\ None \notin Block
    /\ Parent \in [Block \ {Genesis} -> Block]
    /\ Height \in [Block -> Nat] /\ Height[Genesis] = 0
    /\ \A b \in Block \ {Genesis} : Height[b] = Height[Parent[b]] + 1

VARIABLES
    stored,   \* the blocks whose header and data are in the database
    index,    \* index[h]: the hash under height h in the height index
    latest,   \* the LatestBlockHeight key; -1 when it is not set
    up,       \* whether the node has started
    writer    \* writer[w]: where the call w is

vars == <<stored, index, latest, up, writer>>

Heights == {Height[b] : b \in Block}

(* A call: its next step, its block, and the latest height it has read.    *)
Call ==
    [at : {"idle", "latest", "parent", "put", "index", "height", "set"},
     block : Block \cup {None}, height : Heights \cup {-1}]

Idle == [at |-> "idle", block |-> None, height |-> -1]

At(step, b) == [at |-> step, block |-> b, height |-> -1]

TypeOK ==
    /\ stored \subseteq Block
    /\ index \in [Heights -> Block \cup {None}]
    /\ latest \in Heights \cup {-1}
    /\ up \in BOOLEAN
    /\ writer \in [Writer -> Call]

Init ==
    /\ stored = {}
    /\ index = [h \in Heights |-> None]
    /\ latest = -1
    /\ up = FALSE
    /\ writer = [w \in Writer |-> Idle]

-----------------------------------------------------------------------------
(* The database: what its read transactions find and its write             *)
(* transactions leave.  The block that its hash leads to is None if there  *)
(* is no header under the hash.                                            *)
HasBlock(b) == b \in stored
FetchBlockHeader(b) == IF b \in stored THEN b ELSE None

(* The index "height -> block hash", and the metadata index.               *)
GetBytes(h) == index[h]
PutBytes(h, b) == index' = [index EXCEPT ![h] = b]
GetUint64 == latest
PutUint64(h) == latest' = h

FetchBlockHeaderByHeight(h) == FetchBlockHeader(GetBytes(h))

-----------------------------------------------------------------------------
(* StoreBlock.  A call for a block that HasBlock finds returns at once.    *)
StoreBlock(w, b) ==
    /\ up
    /\ writer[w] = Idle
    /\ b # Genesis
    /\ ~HasBlock(b)
    /\ writer' = [writer EXCEPT ![w] = At("latest", b)]
    /\ UNCHANGED <<stored, index, latest, up>>

(* ValidateBlock reads the latest height, which fails if there is none ... *)
GetLatestBlockHeight(w) ==
    /\ writer[w].at = "latest"
    /\ writer' = [writer EXCEPT ![w] =
                     IF GetUint64 = -1 THEN Idle
                     ELSE [at |-> "parent", block |-> writer[w].block, height |-> GetUint64]]
    /\ UNCHANGED <<stored, index, latest, up>>

MutCompareHeights(w) ==
    /\ writer[w].at = "parent"
    /\ Height[writer[w].block] = writer[w].height + 1
    /\ writer' = [writer EXCEPT ![w] = At("put", writer[w].block)]
    /\ UNCHANGED <<stored, index, latest, up>>

(* ... and compares LastHash with the hash of the header at that height.   *)
checkLastHash(w) ==
    /\ writer[w].at = "parent"
    /\ FetchBlockHeaderByHeight(writer[w].height) = Parent[writer[w].block]
    /\ writer' = [writer EXCEPT ![w] = At("put", writer[w].block)]
    /\ UNCHANGED <<stored, index, latest, up>>

(* The comparison, or one of the tests after it, fails.                    *)
rejectBlock(w) ==
    /\ writer[w].at = "parent"
    /\ writer' = [writer EXCEPT ![w] = Idle]
    /\ UNCHANGED <<stored, index, latest, up>>

(* db.StoreBlock: one transaction for the block, ...                       *)
putBlock(w) ==
    /\ writer[w].at = "put"
    /\ stored' = stored \cup {writer[w].block}
    /\ writer' = [writer EXCEPT ![w] = At("index", writer[w].block)]
    /\ UNCHANGED <<index, latest, up>>

MutIndexAtLatest(w) ==
    /\ writer[w].at = "index"
    /\ index' = [index EXCEPT ![IF latest = -1 THEN 0 ELSE latest] = writer[w].block]
    /\ writer' = [writer EXCEPT ![w] = At("height", writer[w].block)]
    /\ UNCHANGED <<stored, latest, up>>

(* ... another for the height index.                                       *)
putIndex(w) ==
    /\ writer[w].at = "index"
    /\ PutBytes(Height[writer[w].block], writer[w].block)
    /\ writer' = [writer EXCEPT ![w] = At("height", writer[w].block)]
    /\ UNCHANGED <<stored, latest, up>>

(* The latest height is read again ...                                     *)
readHeight(w) ==
    /\ writer[w].at = "height"
    /\ writer' = [writer EXCEPT ![w] =
                     [at |-> "set", block |-> writer[w].block, height |-> GetUint64]]
    /\ UNCHANGED <<stored, index, latest, up>>

MutRaiseByOne(w) ==
    /\ writer[w].at = "set"
    /\ latest' = latest + 1
    /\ writer' = [writer EXCEPT ![w] = Idle]
    /\ UNCHANGED <<stored, index, up>>

(* ... and raised by what was read, not by what it is by now.              *)
SetLatestBlockHeight(w) ==
    /\ writer[w].at = "set"
    /\ IF Height[writer[w].block] > writer[w].height
       THEN PutUint64(Height[writer[w].block]) ELSE UNCHANGED latest
    /\ writer' = [writer EXCEPT ![w] = Idle]
    /\ UNCHANGED <<stored, index, up>>

-----------------------------------------------------------------------------
(* initializeBlockchain on an empty database stores genesis, unvalidated.  *)
storeGenesis(w) ==
    /\ ~up
    /\ GetUint64 = -1
    /\ ~HasBlock(Genesis)
    /\ \A v \in Writer : writer[v] = Idle
    /\ writer' = [writer EXCEPT ![w] = At("put", Genesis)]
    /\ UNCHANGED <<stored, index, latest, up>>

(* The height that SetBlockchainInstance reads; it ignores the error.      *)
StartHeight == IF GetUint64 = -1 THEN 0 ELSE GetUint64

(* Otherwise initializeBlockchain does nothing, and SetBlockchainInstance  *)
(* starts the node if there is a header at the latest height.              *)
start ==
    /\ ~up
    /\ GetUint64 # -1 \/ HasBlock(Genesis)
    /\ \A v \in Writer : writer[v] = Idle
    /\ FetchBlockHeaderByHeight(StartHeight) # None
    /\ up' = TRUE
    /\ UNCHANGED <<stored, index, latest, writer>>

crash ==
    /\ up' = FALSE
    /\ writer' = [w \in Writer |-> Idle]
    /\ UNCHANGED <<stored, index, latest>>

Next ==
    \/ \E w \in Writer :
        \/ \E b \in Block : StoreBlock(w, b)
        \/ GetLatestBlockHeight(w) \/ checkLastHash(w) \/ rejectBlock(w)
        \/ putBlock(w) \/ putIndex(w) \/ readHeight(w) \/ SetLatestBlockHeight(w)
        \/ storeGenesis(w)
    \/ start
    \/ crash

Spec == Init /\ [][Next]_vars

-----------------------------------------------------------------------------
(* The height index only names blocks that are stored, at their heights.   *)
IndexSound ==
    \A h \in Heights : index[h] # None => index[h] \in stored /\ Height[index[h]] = h

Indexed(n) == \A h \in 0..n : h \in Heights /\ index[h] # None

(* However calls and crashes interleave, every height up to the latest has *)
(* a block: FetchBlockHeaderByHeight never fails in ValidateBlock, in      *)
(* SetBlockchainInstance or in GetRangeOfBlocks (blockchain.go:133,        *)
(* miner.go:70).                                                           *)
NoGaps == Indexed(latest)

(* However calls and crashes interleave, a block is stored only if the     *)
(* block it extends is, down to genesis (blockchain.go:137).               *)
AncestorsStored == \A b \in stored \ {Genesis} : Parent[b] \in stored

(* What a call relies on at each of its steps: a height it has read is     *)
(* covered by the index, and what it writes sits on what is there.         *)
CallSound(c) ==
    /\ c.at # "idle" => c.block \in Block
    /\ c.at = "latest" => c.block # Genesis
    /\ c.at = "parent" => c.block # Genesis /\ c.height \in Heights /\ Indexed(c.height)
    /\ c.at \in {"put", "index", "height", "set"} =>
           /\ c.block # Genesis => Parent[c.block] \in stored
           /\ Indexed(Height[c.block] - 1)
    /\ c.at \in {"index", "height", "set"} => c.block \in stored
    /\ c.at \in {"height", "set"} => index[Height[c.block]] # None

(* The inductive invariant of the concurrent store: the index, the latest  *)
(* height and every call in flight are sound at every step of StoreBlock   *)
(* (blockchain.go:53), whatever the other calls have done in between.      *)
StoreSound ==
    /\ IndexSound
    /\ NoGaps
    /\ AncestorsStored
    /\ \A w \in Writer : CallSound(writer[w])

(* The block at each height extends the block at the height below.         *)
Linked == \A h \in 1..latest : Parent[index[h]] = index[h - 1]

(* What a call knows when no other can run: the latest height it has read  *)
(* is still the latest, and its block is the next one.                     *)
SoleCallSound(c) ==
    /\ c.at = "parent" => c.height = latest
    /\ c.at \in {"put", "index", "height", "set"} =>
           /\ Height[c.block] = latest + 1
           /\ c.block # Genesis => latest # -1 /\ Parent[c.block] = index[latest]
    /\ c.at \in {"height", "set"} => index[Height[c.block]] = c.block
    /\ c.at = "set" => c.height = latest

(* The inductive invariant of the store with one call at a time: the chain *)
(* is linked, and the value that StoreBlock compares its height with       *)
(* (blockchain.go:78) is not stale.                                        *)
SoleWriterSound == Linked /\ \A w \in Writer : SoleCallSound(writer[w])

(* The node's chain as the others see it (LastBlockHeight and              *)
(* GetRangeOfBlocks): what the height index holds up to the latest height. *)
L == INSTANCE Ledger WITH height <- latest, ledger <- [h \in 0..latest |-> index[h]]

(* As long as StoreBlock is not called twice at once, the store is a       *)
(* ledger, crashes between its transactions included (blockchain.go:53).   *)
ImplementsLedger == L!Spec
=============================================================================
