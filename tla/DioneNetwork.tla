---------------------------- MODULE DioneNetwork ----------------------------
(***************************************************************************)
(* The nodes of a Dione network as they produce blocks: the voting core of *)
(* module Consensus, driven by the beacon rounds of every node             *)
(* (consensus/consensus_handler.go), its miner (blockchain/miner.go), its  *)
(* mempool (blockchain/pool/mempool.go), its chain (blockchain/blockchain  *)
(* .go) and the NewBlock gossip (blockchain/sync/sync_mgr.go).             *)
(*                                                                         *)
(* StoreBlock is one step here; module ChainStore takes it apart.  A chain *)
(* is the sequence of the blocks above genesis that the height index of    *)
(* the node reaches, so its last block is the one ValidateBlock compares   *)
(* LastHash with.                                                          *)
(***************************************************************************)
EXTENDS Consensus, Sequences, Functions

CONSTANTS
    Tx,          \* the oracle requests, as the transactions made from them
    Genesis,     \* the hash of the genesis block
    Stake,       \* DioneStaking's stake of each node
    Timestamp,   \* Header.Timestamp of each block
    Faults       \* what may go wrong: a subset of {"restart", "eth", "expire"}

ASSUME GenesisAssumption == Genesis \notin Block
ASSUME RankAssumption == Stake \in [Node -> Nat] /\ Timestamp \in [Block -> Nat]

VARIABLES
    header,     \* header[b]: what b's proposer put into it, once it is mined
    chain,      \* chain[n]: n's blocks above genesis, oldest first (on disk)
    mempool,    \* mempool[n]: the transactions waiting at n
    seen,       \* seen[n]: the oracle requests n has been told of
    latestBlockHeader, \* latestBlockHeader[n]: the miner's cached header
    heightUpdated,     \* heightUpdated[n]: the events that refresh it, in order
    round,      \* round[n]: where onNewBeaconEntry is at n
    checked,    \* checked[n]: proposals validated at n and not yet logged
    announced,  \* announced[b]: who has broadcast b as a NewBlock
    submits     \* submits[b]: how often b's tasks were posted to Ethereum

nodeVars == <<header, chain, mempool, seen, latestBlockHeader, heightUpdated, round,
              checked, announced, submits>>

netVars == <<vars, nodeVars>>

Hash == Block \cup {Genesis}

NotMined == [parent |-> Genesis, height |-> 0, data |-> {}]

Idle == [at |-> "idle"]

Round ==
    [at : {"idle", "mine"}] \cup [at : {"prune", "store", "announce", "propose"}, block : Block]

NetTypeOK ==
    /\ TypeOK
    /\ header \in [Block -> [parent : Hash, height : Nat, data : SUBSET Tx]]
    /\ chain \in [Node -> Seq(Block)]
    /\ mempool \in [Node -> SUBSET Tx]
    /\ seen \in [Node -> SUBSET Tx]
    /\ latestBlockHeader \in [Node -> Hash]
    /\ heightUpdated \in [Node -> Seq(Block)]
    /\ round \in [Node -> Round]
    /\ checked \in [Node -> SUBSET Block]
    /\ announced \in [Block -> SUBSET Node]
    /\ submits \in [Block -> Nat]

NetInit ==
    /\ Init
    /\ header = [b \in Block |-> NotMined]
    /\ chain = [n \in Node |-> <<>>]
    /\ mempool = [n \in Node |-> {}]
    /\ seen = [n \in Node |-> {}]
    /\ latestBlockHeader = [n \in Node |-> Genesis]
    /\ heightUpdated = [n \in Node |-> <<>>]
    /\ round = [n \in Node |-> Idle]
    /\ checked = [n \in Node |-> {}]
    /\ announced = [b \in Block |-> {}]
    /\ submits = [b \in Block |-> 0]

-----------------------------------------------------------------------------
(* The chain.                                                              *)

HasBlock(n, b) == b \in Range(chain[n])

(* The header at the latest height.                                        *)
LatestBlock(n) == IF chain[n] = <<>> THEN Genesis ELSE chain[n][Len(chain[n])]

MutAcceptAnyParent(n, b) == TRUE

(* Of ValidateBlock's tests, the ones an honest proposer's block can fail: *)
(* that on LastHash, and any that asks Ethereum or the beacon.             *)
ValidateBlock(n, b) == header[b].parent = LatestBlock(n)

Height(h) == IF h = Genesis THEN 0 ELSE header[h].height

(* StoreBlock of a valid block, which is one higher than the latest.       *)
StoreBlock(n, b) ==
    /\ chain' = [chain EXCEPT ![n] = Append(@, b)]
    /\ heightUpdated' = [heightUpdated EXCEPT ![n] = Append(@, b)]

(* The miner's subscriber of blockchain:latestBlockHeightUpdated.          *)
onLatestBlockHeightUpdated(n) ==
    /\ heightUpdated[n] # <<>>
    /\ latestBlockHeader' = [latestBlockHeader EXCEPT ![n] = Head(heightUpdated[n])]
    /\ heightUpdated' = [heightUpdated EXCEPT ![n] = Tail(@)]
    /\ UNCHANGED <<vars, header, chain, mempool, seen, round, checked, announced,
                   submits>>

-----------------------------------------------------------------------------
(* A round: onNewBeaconEntry, step by step.                                *)

(* commitAcceptedBlocks prefers the higher stake, then the later block.    *)
Preferred(b, c) ==
    \/ Stake[Proposer[b]] > Stake[Proposer[c]]
    \/ Stake[Proposer[b]] = Stake[Proposer[c]] /\ Timestamp[b] >= Timestamp[c]

(* The blocks n may still mine: Block bounds how many a behaviour has.     *)
Unmined(n) == {b \in Block : Proposer[b] = n /\ header[b] = NotMined}

MutSelectPrepared(n) == {b \in Block : cinfo[n][b].state >= Prepared}

GetAllBlocksWithCommit(n) == {b \in Block : cinfo[n][b].state = Commited}

(* The block sorted first.  A stake that Ethereum does not report compares *)
(* as not-less, so that any block may then come first.                     *)
selectBlock(n) ==
    LET blocks == GetAllBlocksWithCommit(n) IN
    /\ round[n] = Idle
    /\ \E b \in blocks :
        /\ "eth" \in Faults \/ \A c \in blocks : Preferred(b, c)
        /\ round' = [round EXCEPT ![n] = [at |-> "prune", block |-> b]]
    /\ UNCHANGED <<vars, header, chain, mempool, seen, latestBlockHeader, heightUpdated,
                   checked, announced, submits>>

(* ErrNoAcceptedBlocks: nothing is pruned and the node goes on to mine ... *)
noAcceptedBlocks(n) ==
    /\ round[n] = Idle
    /\ mempool[n] # {}
    /\ Unmined(n) # {}
    /\ GetAllBlocksWithCommit(n) = {}
    /\ round' = [round EXCEPT ![n] = [at |-> "mine"]]
    /\ UNCHANGED <<vars, header, chain, mempool, seen, latestBlockHeader, heightUpdated,
                   checked, announced, submits>>

(* ... unless there is nothing to mine: such a round leaves no trace.      *)
emptyRound(n) ==
    /\ round[n] = Idle
    /\ mempool[n] = {} \/ Unmined(n) = {}
    /\ GetAllBlocksWithCommit(n) = {}
    /\ UNCHANGED netVars

MutNoPrune(n) ==
    /\ round[n].at = "prune"
    /\ mempool' = [mempool EXCEPT ![n] = @ \ header[round[n].block].data]
    /\ round' = [round EXCEPT ![n].at = "store"]
    /\ UNCHANGED <<vars, header, chain, seen, latestBlockHeader, heightUpdated, checked,
                   announced, submits>>

(* The rest of commitAcceptedBlocks up to StoreBlock: the transactions are *)
(* deleted from the mempool before the block is known to be stored.        *)
pruneAndDeleteTxs(n) ==
    /\ round[n].at = "prune"
    /\ Prune(n)
    /\ mempool' = [mempool EXCEPT ![n] = @ \ header[round[n].block].data]
    /\ round' = [round EXCEPT ![n].at = "store"]
    /\ UNCHANGED <<header, chain, seen, latestBlockHeader, heightUpdated, checked,
                   announced, submits>>

(* StoreBlock at the end of commitAcceptedBlocks.  A block that is already *)
(* stored (a NewBlock was faster) counts as stored; one that no longer     *)
(* extends the chain, or cannot be validated, ends the round.              *)
storeSelected(n) ==
    LET b == round[n].block IN
    /\ round[n].at = "store"
    /\ \/ /\ HasBlock(n, b)
          /\ round' = [round EXCEPT ![n].at = "announce"]
          /\ UNCHANGED <<chain, heightUpdated>>
       \/ /\ ~HasBlock(n, b) /\ ValidateBlock(n, b)
          /\ StoreBlock(n, b)
          /\ round' = [round EXCEPT ![n].at = "announce"]
       \/ /\ ~HasBlock(n, b) /\ (~ValidateBlock(n, b) \/ "eth" \in Faults)
          /\ round' = [round EXCEPT ![n] = Idle]
          /\ UNCHANGED <<chain, heightUpdated>>
    /\ UNCHANGED <<vars, header, mempool, seen, latestBlockHeader, checked, announced, submits>>

(* The NewBlock broadcast, and submitTasksFromBlock at the block's miner.  *)
announceAndSubmit(n) ==
    LET b == round[n].block IN
    /\ round[n].at = "announce"
    /\ announced' = [announced EXCEPT ![b] = @ \cup {n}]
    /\ submits' = [submits EXCEPT ![b] = @ + (IF Proposer[b] = n THEN 1 ELSE 0)]
    /\ round' = [round EXCEPT ![n] = [at |-> "mine"]]
    /\ UNCHANGED <<vars, header, chain, mempool, seen, latestBlockHeader, heightUpdated,
                   checked>>

(* MineBlock at a round winner.  It builds on the cached header, which may *)
(* lag behind the chain.  A node's own blocks get growing timestamps.      *)
MineBlock(n) ==
    /\ round[n] = [at |-> "mine"]
    /\ mempool[n] # {}
    /\ \E b \in Unmined(n) :
        /\ \A c \in Unmined(n) : Timestamp[b] <= Timestamp[c]
        /\ header' = [header EXCEPT ![b] = [parent |-> latestBlockHeader[n],
                                           height |-> Height(latestBlockHeader[n]) + 1,
                                           data   |-> mempool[n]]]
        /\ round' = [round EXCEPT ![n] = [at |-> "propose", block |-> b]]
    /\ UNCHANGED <<vars, chain, mempool, seen, latestBlockHeader, heightUpdated, checked,
                   announced, submits>>

(* Not a winner, no transactions, or no answer from Ethereum.              *)
skipMining(n) ==
    /\ round[n] = [at |-> "mine"]
    /\ round' = [round EXCEPT ![n] = Idle]
    /\ UNCHANGED <<vars, header, chain, mempool, seen, latestBlockHeader, heightUpdated,
                   checked, announced, submits>>

proposeMined(n) ==
    /\ round[n].at = "propose"
    /\ propose(n, round[n].block)
    /\ round' = [round EXCEPT ![n] = Idle]
    /\ UNCHANGED <<header, chain, mempool, seen, latestBlockHeader, heightUpdated, checked,
                   announced, submits>>

-----------------------------------------------------------------------------
(* What arrives from the other nodes, from Ethereum, and from outside.     *)

MutVoteAtOnce(n, b) ==
    /\ \E k \in Node : k \in sent[b]["PREPREPARE"] /\ k # n /\ k \notin got[n][b]["PREPREPARE"]
    /\ Proposer[b] # n
    /\ b \notin checked[n]
    /\ ValidateBlock(n, b)
    /\ checked' = [checked EXCEPT ![n] = @ \cup {b}]
    /\ Broadcast(n, b, "PREPARE")
    /\ UNCHANGED <<cinfo, pending, got, header, chain, mempool, seen, latestBlockHeader,
                   heightUpdated, round, announced, submits>>

(* handlePrePrepare runs in a goroutine of its own: it validates ...       *)
validatePrePrepare(n, b) ==
    /\ \E k \in Node : k \in sent[b]["PREPREPARE"] /\ k # n /\ k \notin got[n][b]["PREPREPARE"]
    /\ Proposer[b] # n
    /\ b \notin checked[n]
    /\ ValidateBlock(n, b)
    /\ checked' = [checked EXCEPT ![n] = @ \cup {b}]
    /\ UNCHANGED <<vars, header, chain, mempool, seen, latestBlockHeader, heightUpdated,
                   round, announced, submits>>

(* ... and logs the proposal later, whatever has become of the chain.      *)
logPrePrepare(n, b) ==
    /\ b \in checked[n]
    /\ handlePrePrepare(n, b, Proposer[b])
    /\ checked' = [checked EXCEPT ![n] = @ \ {b}]
    /\ UNCHANGED <<header, chain, mempool, seen, latestBlockHeader, heightUpdated, round,
                   announced, submits>>

dropPrePrepare(n, b) ==
    /\ b \notin checked[n]
    /\ ~ValidateBlock(n, b) \/ "eth" \in Faults
    /\ rejectPrePrepare(n, b, Proposer[b])
    /\ UNCHANGED nodeVars

onVote(n, b, t, k) == handleVote(n, b, t, k) /\ UNCHANGED nodeVars

onState(n, b, s) == onNewState(n, b, s) /\ UNCHANGED nodeVars

(* A NewBlock, which comes from every node that committed the block, at    *)
(* any time.  It changes nothing unless it is new and extends the chain,   *)
(* and then the mempool keeps its transactions.                            *)
onNewBlock(n, b) ==
    /\ announced[b] \ {n} # {}
    /\ ~HasBlock(n, b)
    /\ ValidateBlock(n, b)
    /\ StoreBlock(n, b)
    /\ UNCHANGED <<vars, header, mempool, seen, latestBlockHeader, round, checked,
                   announced, submits>>

(* An oracle request: every node makes the same transaction from it.       *)
onOracleEvent(n, t) ==
    /\ t \notin seen[n]
    /\ seen' = [seen EXCEPT ![n] = @ \cup {t}]
    /\ mempool' = [mempool EXCEPT ![n] = @ \cup {t}]
    /\ UNCHANGED <<vars, header, chain, latestBlockHeader, heightUpdated, round, checked,
                   announced, submits>>

(* A transaction's time in the cache runs out.                             *)
expireTx(n, t) ==
    /\ "expire" \in Faults
    /\ t \in mempool[n]
    /\ mempool' = [mempool EXCEPT ![n] = @ \ {t}]
    /\ UNCHANGED <<vars, header, chain, seen, latestBlockHeader, heightUpdated, round,
                   checked, announced, submits>>

(* A crash loses all but the chain; SetBlockchainInstance reads the cached *)
(* header back from it.                                                    *)
restart(n) ==
    /\ "restart" \in Faults
    /\ Restart(n)
    /\ latestBlockHeader' = [latestBlockHeader EXCEPT ![n] = LatestBlock(n)]
    /\ heightUpdated' = [heightUpdated EXCEPT ![n] = <<>>]
    /\ mempool' = [mempool EXCEPT ![n] = {}]
    /\ checked' = [checked EXCEPT ![n] = {}]
    /\ round' = [round EXCEPT ![n] = Idle]
    /\ UNCHANGED <<header, chain, seen, announced, submits>>

onNewBeaconEntry(n) ==
    \/ selectBlock(n) \/ noAcceptedBlocks(n) \/ emptyRound(n)
    \/ pruneAndDeleteTxs(n) \/ storeSelected(n) \/ announceAndSubmit(n)
    \/ MineBlock(n) \/ skipMining(n) \/ proposeMined(n)

(* Whatever else runs at n: message handlers and event subscribers.        *)
handleEvent(n) ==
    \/ onLatestBlockHeightUpdated(n)
    \/ \E b \in Block : validatePrePrepare(n, b) \/ logPrePrepare(n, b) \/ dropPrePrepare(n, b)
    \/ \E b \in Block : onNewBlock(n, b)
    \/ \E b \in Block, k \in Node, t \in {"PREPARE", "COMMIT"} : onVote(n, b, t, k)
    \/ \E b \in Block, s \in {PrePrepared, Prepared} : onState(n, b, s)

NetNext ==
    \E n \in Node :
        \/ onNewBeaconEntry(n)
        \/ handleEvent(n)
        \/ \E t \in Tx : onOracleEvent(n, t) \/ expireTx(n, t)
        \/ restart(n)

NetSpec == NetInit /\ [][NetNext]_netVars

-----------------------------------------------------------------------------
(* The tasks of a block are posted to Ethereum at most once, and only when *)
(* the block is on the chain of the node that mined it: late votes, a      *)
(* NewBlock that overtakes the round, and restarts do not make the         *)
(* proposer commit its block a second time (consensus_handler.go:295).     *)
SubmitOnce ==
    \A b \in Block :
        /\ submits[b] <= 1
        /\ submits[b] = 1 => HasBlock(Proposer[b], b)

(* A node proposes, or votes PREPARE for, only a block whose parent it     *)
(* stores, although the miner builds on a cached header (miner.go:154) and *)
(* the chain may move between the validation and the vote                  *)
(* (consensus_handler.go:185).                                             *)
VotersHoldParent ==
    \A b \in Block : \A k \in sent[b]["PREPREPARE"] \cup sent[b]["PREPARE"] :
        header[b].parent = Genesis \/ HasBlock(k, header[b].parent)

(* Every stored block was committed by vote: even one that came as a       *)
(* NewBlock, which onNewBlock stores without looking at votes, has COMMITs *)
(* of minApprovals nodes behind it (sync_mgr.go:283).                      *)
StoredWasVoted ==
    \A n \in Node : \A b \in Range(chain[n]) :
        Cardinality(sent[b]["COMMIT"]) >= minApprovals

(* Two nodes that store the same block store the same blocks below it, at  *)
(* the same heights, whatever they store above (blockchain.go:137).        *)
CommonPrefix ==
    \A n, m \in Node : \A i \in 1..Len(chain[n]), j \in 1..Len(chain[m]) :
        chain[n][i] = chain[m][j] =>
            /\ i = j /\ i = header[chain[n][i]].height
            /\ \A h \in 1..i : chain[n][h] = chain[m][h]

(* What the four rest on, as one inductive invariant.  A mined header      *)
(* never changes, and names a mined parent one block below it; whoever     *)
(* proposes, or remembers a header to mine on, does so with mined ones.    *)
Mined(b) == header[b] # NotMined
Known(h) == h = Genesis \/ Mined(h)

HeadersSound ==
    /\ \A b \in Block : Mined(b) =>
          Known(header[b].parent) /\ header[b].height = Height(header[b].parent) + 1
    /\ \A b \in Block : sent[b]["PREPREPARE"] # {} => Mined(b)
    /\ \A n \in Node :
          /\ round[n].at = "propose" => Mined(round[n].block)
          /\ Known(latestBlockHeader[n])
          /\ \A i \in 1..Len(heightUpdated[n]) : Mined(heightUpdated[n][i])

(* A block that a round has selected, that was announced, or that is       *)
(* stored is mined and has its votes, and stays so.                        *)
Working == {"prune", "store", "announce"}

Backed(b) == Mined(b) /\ Cardinality(sent[b]["COMMIT"]) >= minApprovals

VotesBack ==
    /\ \A n \in Node : round[n].at \in Working => Backed(round[n].block)
    /\ \A b \in Block : announced[b] # {} => Backed(b)
    /\ \A n \in Node : \A i \in 1..Len(chain[n]) : Backed(chain[n][i])

(* A chain is linked by its headers from genesis up.                       *)
ChainsLinked ==
    \A n \in Node : \A i \in 1..Len(chain[n]) :
        /\ header[chain[n][i]].height = i
        /\ header[chain[n][i]].parent = IF i = 1 THEN Genesis ELSE chain[n][i - 1]

(* The miner's cached header and the events that will refresh it are       *)
(* together the end of the node's own chain, so the cache may lag behind   *)
(* the chain and never leaves it.                                          *)
Cached(n) == Len(chain[n]) - Len(heightUpdated[n])

CacheSound ==
    \A n \in Node :
        /\ Cached(n) >= 0
        /\ latestBlockHeader[n] = IF Cached(n) = 0 THEN Genesis ELSE chain[n][Cached(n)]
        /\ \A i \in 1..Len(heightUpdated[n]) : heightUpdated[n][i] = chain[n][Cached(n) + i]

(* From its mining on, its miner holds a block's parent; from its          *)
(* validation to its vote, so does any other node.                         *)
ParentHeld(n, b) ==
    Mined(b) /\ (header[b].parent = Genesis \/ HasBlock(n, header[b].parent))

ParentsHeld ==
    /\ \A b \in Block : Mined(b) => ParentHeld(Proposer[b], b)
    /\ \A n \in Node : \A b \in checked[n] : ParentHeld(n, b)
    /\ \A n \in Node, b \in Block :
          Proposer[b] # n /\ <<b, PrePrepared>> \in pending[n] => ParentHeld(n, b)
    /\ \A b \in Block : \A k \in sent[b]["PREPARE"] : ParentHeld(k, b)

(* The miner of b works on b in one of the places at.                      *)
Commits(b, at) == round[Proposer[b]].at \in at /\ round[Proposer[b]].block = b

(* A block that its miner has selected is gone from the miner's entries    *)
(* once they are pruned, and does not come back.                           *)
SubmitsSound ==
    \A b \in Block :
        LET p == Proposer[b] IN
        /\ submits[b] <= 1
        /\ submits[b] = 1 => HasBlock(p, b) /\ ~Commits(b, Working)
        /\ submits[b] = 1 \/ Commits(b, Working) => p \in sent[b]["PREPREPARE"]
        /\ submits[b] = 1 \/ Commits(b, {"store", "announce"}) => ~cinfo[p][b].hasBlock
        /\ Commits(b, {"announce"}) => HasBlock(p, b)

(* All of it together: what a round selects, what onNewBlock accepts and   *)
(* what the miner builds on rests on mined headers, on votes and on a      *)
(* linked chain, through every restart, failing call and late vote         *)
(* (onNewBeaconEntry, consensus_handler.go:266; onNewBlock,                *)
(* sync_mgr.go:283).  With the voting core's Evidence, it is inductive.    *)
NetSound ==
    /\ HeadersSound /\ VotesBack /\ ChainsLinked /\ CacheSound
    /\ CommonPrefix /\ ParentsHeld /\ SubmitsSound

(* The network implements the specification of its voting core: no round,  *)
(* crash or missing answer makes a node's entries, votes and events move   *)
(* in a way that module Consensus does not allow, so that its certificates *)
(* hold here too (consensus_handler.go:266).                               *)
ImplementsVoting == Spec

VotedByTwoThirds(b) == 3 * Cardinality(sent[b]["COMMIT"]) >= 2 * Cardinality(Node)

(* README.md:52: "other network operators has to vote up to 2/3 of total   *)
(* amount of nodes running in the network. This enforces Dione network as  *)
(* fast-finality chain."  Two nodes never store at one height different    *)
(* blocks that both have those votes.                                      *)
FastFinality ==
    \A n, m \in Node : \A h \in 1..Len(chain[n]) \cap 1..Len(chain[m]) :
        VotedByTwoThirds(chain[n][h]) /\ VotedByTwoThirds(chain[m][h])
            => chain[n][h] = chain[m][h]

(* consensus_manager.go:100: "Prune cleans known blocks list. It is called *)
(* when new consensus round starts."  A round that has nothing to commit   *)
(* and goes on to mine leaves no known block of earlier rounds behind.     *)
PrunedEachRound ==
    [][\A n \in Node : round[n] = Idle /\ round'[n].at = "mine" =>
          \A b \in Block : ~cinfo'[n][b].hasBlock]_netVars

-----------------------------------------------------------------------------
(* Liveness.  The beacon keeps ticking at every node, the topic delivers,  *)
(* and handlers and event subscribers run; as each event is handled once,  *)
(* it is enough that a node does not ignore all of them for ever.          *)
Fairness ==
    \A n \in Node : WF_netVars(onNewBeaconEntry(n)) /\ WF_netVars(handleEvent(n))

FairNetSpec == NetSpec /\ Fairness

(* A proposed block that has no rival reaches every chain, its tasks are   *)
(* posted to Ethereum, and its transactions leave its miner's mempool.     *)
Delivered ==
    \A b \in Block :
        sent[b]["PREPREPARE"] # {} ~>
            /\ \A n \in Node : HasBlock(n, b)
            /\ submits[b] = 1
            /\ mempool[Proposer[b]] \cap header[b].data = {}
=============================================================================
