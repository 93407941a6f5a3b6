----------------------------- MODULE SyncProofs -----------------------------
(***************************************************************************)
(* Proofs about the initial sync, for every limit on a call, every set of  *)
(* transactions and every behaviour of the peer and of gossip.             *)
(***************************************************************************)
EXTENDS Sync, SequenceTheorems, FiniteSetTheorems, TLAPS

(* The backends a leaf is tried with, in this order, unless it names one.  *)
USE SMTT(60), Z3T(60), ZenonT(60)
USE SyncAssumption

-----------------------------------------------------------------------------
(* The blocks.                                                             *)

AnyBlock == [height : Nat, branch : Branch]

BlockTypes ==
    /\ ourLastHeight \in Nat /\ height \in Nat /\ heightCount \in Nat /\ to \in Nat
    /\ peerHeight \in Nat /\ chain \in Seq(Branch) /\ receivedBlocks \in Seq(AnyBlock)
    /\ trouble \in BOOLEAN /\ refused \in BOOLEAN

(* The last n of the blocks that were received end at height h.            *)
EndsAt(h) ==
    /\ Len(receivedBlocks) <= h
    /\ \A i \in 1..Len(receivedBlocks) :
          receivedBlocks[i] = FetchBlockByHeight(h - Len(receivedBlocks) + i)

(* The node holds a block off the main chain at a height that the peer     *)
(* reported.                                                               *)
Strayed == \E h \in DOMAIN chain : h <= height /\ chain[h] # "main"

Excused == trouble \/ salted \/ Strayed

(* What the sync knows at each of its steps: the ranges are cut from the   *)
(* heights that are missing, without a gap, and the chain is never behind  *)
(* the first block that is still to be processed.                          *)
Progress ==
    /\ ~refused
    /\ ourLastHeight <= Len(chain)
    /\ trouble \/ height <= peerHeight
    /\ pc \in {"start", "height"} => Len(receivedBlocks) = 0
    /\ pc = "ranges" =>
          /\ to + heightCount = height
          /\ trouble \/ (EndsAt(to) /\ Len(receivedBlocks) = to - ourLastHeight
                         /\ ourLastHeight <= to)
    /\ pc = "process" =>
          Excused \/ (EndsAt(height) /\ Len(chain) >= height - Len(receivedBlocks))
    /\ pc \in {"inventory", "fetch", "store", "done"} /\ bootstrapPeer =>
          Excused \/ Len(chain) >= height

LEMMA AddedVal ==
    ASSUME heightCount \in Nat, heightCount > 0
    PROVE  /\ addedVal \in Nat /\ addedVal > 0 /\ addedVal <= heightCount
           /\ addedVal <= MaxBlockCountForRetrieving
BY DEF addedVal

(* Storing a block appends it, or leaves the chain alone.                  *)
LEMMA ChainGrows ==
    ASSUME chain \in Seq(Branch), NEW b, b.branch \in Branch,
           StoreBlock(b) \/ processReceivedBlock(b)
    PROVE  /\ chain' = chain \/ chain' = Append(chain, b.branch)
           /\ chain' \in Seq(Branch)
           /\ Len(chain) <= Len(chain')
           /\ \A h \in DOMAIN chain : h \in DOMAIN chain' /\ chain'[h] = chain[h]
<1>1. chain' = chain \/ chain' = Append(chain, b.branch)
  BY DEF StoreBlock, processReceivedBlock
<1>2. CASE chain' = chain
  BY <1>2
<1>3. CASE chain' = Append(chain, b.branch)
  BY <1>3
<1> QED BY <1>1, <1>2, <1>3

(* The peer's answer to a call for the k blocks above height t.            *)
LEMMA RangeServed ==
    ASSUME NEW t \in Nat, NEW k \in Nat, k > 0, peerHeight \in Nat
    PROVE  /\ GetRangeOfBlocks(t + 1, t + k) \in Seq(AnyBlock)
           /\ t + k <= peerHeight =>
                 /\ Len(GetRangeOfBlocks(t + 1, t + k)) = k
                 /\ \A i \in 1..k : GetRangeOfBlocks(t + 1, t + k)[i] = FetchBlockByHeight(t + i)
<1> DEFINE last == IF t + k < peerHeight THEN t + k ELSE peerHeight
           n == IF last < t + 1 THEN 0 ELSE last - (t + 1) + 1
           blocks == [i \in 1..n |-> FetchBlockByHeight(t + 1 + i - 1)]
<1>1. n \in Nat
  OBVIOUS
<1>2. \A i \in 1..n : FetchBlockByHeight(t + 1 + i - 1) \in AnyBlock
  BY DEF FetchBlockByHeight, AnyBlock, Branch
<1>3. GetRangeOfBlocks(t + 1, t + k) = blocks
  BY DEF GetRangeOfBlocks
<1>4. blocks \in Seq(AnyBlock) /\ Len(blocks) = n
  <2> HIDE DEF n
  <2> QED BY <1>1, <1>2, IsASeq
<1>5. t + k <= peerHeight => n = k
  OBVIOUS
<1>6. \A i \in 1..n : t + 1 + i - 1 = t + i
  BY <1>1
<1> QED
  <2> HIDE DEF n
  <2> QED BY ZenonT(60), <1>1, <1>3, <1>4, <1>5, <1>6

LEMMA BlockInit == Init => BlockTypes /\ Progress
<1> SUFFICES ASSUME Init PROVE BlockTypes /\ Progress
  OBVIOUS
<1>1. <<"main">> \in Seq(Branch) /\ <<"stray">> \in Seq(Branch) /\ <<>> \in Seq(Branch)
  BY DEF Branch
<1>2. chain \in Seq(Branch)
  BY ZenonT(60), <1>1 DEF Init
<1>3. receivedBlocks \in Seq(AnyBlock) /\ Len(receivedBlocks) = 0
  BY DEF Init
<1>4. BlockTypes
  <2>1. peerHeight \in Nat
    BY DEF Init, Height
  <2>2. trouble \in BOOLEAN /\ refused \in BOOLEAN
    BY ZenonT(60) DEF Init
  <2>3. ourLastHeight \in Nat /\ height \in Nat /\ heightCount \in Nat /\ to \in Nat
    BY DEF Init
  <2> QED BY <1>2, <1>3, <2>1, <2>2, <2>3 DEF BlockTypes
<1>5. Len(chain) \in Nat
  BY <1>2
<1> QED BY <1>4, <1>5 DEF Init, Progress, BlockTypes

(* The steps that leave the blocks, the peer's height and the place in the *)
(* sync alone, or only move on within its second half.                     *)
LEMMA BlocksUntouched ==
    ASSUME BlockTypes, Progress,
           UNCHANGED <<setup, chain, blockVars, peerHeight, refused, trouble>>,
           \/ pc' = pc
           \/ /\ pc \in {"inventory", "fetch", "store", "done"}
              /\ pc' \in {"inventory", "fetch", "store", "done"}
    PROVE  BlockTypes' /\ Progress'
<1> USE DEF setup, blockVars
<1>1. BlockTypes'
  BY DEF BlockTypes
<1>2. (Excused' = Excused) /\ (EndsAt(to)' = EndsAt(to)) /\ (EndsAt(height)' = EndsAt(height))
  BY DEF Excused, Strayed, EndsAt, FetchBlockByHeight
<1> QED BY <1>1, <1>2 DEF Progress

(* The steps after which the sync is in trouble.                           *)
LEMMA InTrouble ==
    ASSUME BlockTypes, Progress,
           UNCHANGED <<setup, chain, blockVars, refused>>, peerHeight' \in Nat,
           trouble' = TRUE, pc' = pc \/ pc' = "done"
    PROVE  BlockTypes' /\ Progress'
<1> USE DEF setup, blockVars
<1>1. BlockTypes'
  BY DEF BlockTypes
<1>2. Excused'
  BY DEF Excused
<1> QED BY <1>1, <1>2 DEF Progress

LEMMA BlockStep == BlockTypes /\ Progress /\ [Next]_vars => BlockTypes' /\ Progress'
<1> SUFFICES ASSUME BlockTypes, Progress, [Next]_vars
             PROVE  BlockTypes' /\ Progress'
  OBVIOUS
<1> USE DEF setup, blockVars, txVars, peer, history
<1>1. CASE CallFails
  BY <1>1, InTrouble DEF CallFails, BlockTypes
<1>2. CASE readLastHeight
  <2>1. Len(chain) \in Nat
    BY DEF BlockTypes
  <2> QED BY <1>2, <2>1 DEF readLastHeight, BlockTypes, Progress
<1>3. CASE LastBlockHeight
  <2>1. Len(chain) \in Nat
    BY DEF BlockTypes
  <2>2. BlockTypes'
    BY <1>3 DEF LastBlockHeight, BlockTypes
  <2>3. Len(receivedBlocks) = 0 /\ ourLastHeight <= Len(chain) /\ ~refused
    BY <1>3 DEF LastBlockHeight, Progress
  <2>4. CASE peerHeight > ourLastHeight
    <3>1. EndsAt(to)'
      BY <1>3, <2>3 DEF LastBlockHeight, BlockTypes, EndsAt
    <3> QED BY <1>3, <2>1, <2>2, <2>3, <2>4, <3>1 DEF LastBlockHeight, BlockTypes, Progress
  <2>5. CASE ~(peerHeight > ourLastHeight)
    BY <1>3, <2>1, <2>2, <2>3, <2>5 DEF LastBlockHeight, BlockTypes, Progress
  <2> QED BY <2>4, <2>5
<1>4. CASE fetchRange
  <2>1. /\ addedVal \in Nat /\ addedVal > 0 /\ addedVal <= heightCount
        /\ addedVal <= MaxBlockCountForRetrieving
    BY <1>4, AddedVal DEF fetchRange, BlockTypes
  <2> DEFINE blocks == GetRangeOfBlocks(to + 1, to + addedVal)
  <2>2. /\ pc = "ranges" /\ heightCount' = heightCount - addedVal /\ to' = to + addedVal
        /\ UNCHANGED <<setup, chain, ourLastHeight, height, peerHeight>>
    BY <1>4 DEF fetchRange
  <2>3. ~RangeRefused(nextFrom(to), to')
    BY <2>1, <2>2 DEF RangeRefused, nextFrom, BlockTypes
  <2>4. /\ receivedBlocks' = receivedBlocks \o blocks
        /\ UNCHANGED <<pc, refused, trouble>>
    BY <1>4, <2>2, <2>3 DEF fetchRange, nextFrom
  <2>5. /\ blocks \in Seq(AnyBlock)
        /\ to + addedVal <= peerHeight =>
              /\ Len(blocks) = addedVal
              /\ \A i \in 1..addedVal : blocks[i] = FetchBlockByHeight(to + i)
    <3>1. to \in Nat /\ peerHeight \in Nat
      BY DEF BlockTypes
    <3> QED BY <2>1, <3>1, RangeServed
  <2> HIDE DEF blocks
  <2>6. BlockTypes'
    BY <2>1, <2>2, <2>4, <2>5 DEF BlockTypes
  <2>7. ASSUME ~trouble
        PROVE  (EndsAt(to) /\ Len(receivedBlocks) = to - ourLastHeight /\ ourLastHeight <= to)'
    <3>1. /\ to + heightCount = height /\ height <= peerHeight
          /\ EndsAt(to) /\ Len(receivedBlocks) = to - ourLastHeight /\ ourLastHeight <= to
      BY <2>2, <2>7 DEF Progress
    <3>2. /\ Len(blocks) = addedVal
          /\ \A i \in 1..addedVal : blocks[i] = FetchBlockByHeight(to + i)
      BY <2>1, <2>5, <3>1 DEF BlockTypes
    <3>3. Len(receivedBlocks') = Len(receivedBlocks) + addedVal
      <4>1. receivedBlocks \in Seq(AnyBlock)
        BY DEF BlockTypes
      <4> QED BY ZenonT(60), <2>4, <2>5, <3>2, <4>1, ConcatProperties
    <3>4. ASSUME NEW i \in 1..Len(receivedBlocks')
          PROVE  receivedBlocks'[i] = FetchBlockByHeight(to' - Len(receivedBlocks') + i)
      <4>1. to' - Len(receivedBlocks') + i = to - Len(receivedBlocks) + i
        BY <2>1, <2>2, <3>1, <3>3 DEF BlockTypes
      <4>2. CASE i <= Len(receivedBlocks)
        <5>1. receivedBlocks'[i] = receivedBlocks[i]
          BY <2>4, <2>5, <4>2 DEF BlockTypes
        <5> QED BY <3>1, <4>1, <4>2, <5>1 DEF EndsAt
      <4>3. CASE i > Len(receivedBlocks)
        <5>1. /\ i - Len(receivedBlocks) \in 1..addedVal
              /\ to + (i - Len(receivedBlocks)) = to - Len(receivedBlocks) + i
          BY <2>1, <3>1, <3>3, <4>3 DEF BlockTypes
        <5>2. receivedBlocks'[i] = blocks[i - Len(receivedBlocks)]
          BY <2>4, <2>5, <4>3, <3>2, <3>3 DEF BlockTypes
        <5> QED BY <3>2, <4>1, <5>1, <5>2
      <4> QED BY <3>1, <4>2, <4>3 DEF BlockTypes
    <3>5. EndsAt(to)'
      <4>1. Len(receivedBlocks') <= to'
        BY <2>1, <2>2, <3>1, <3>3 DEF BlockTypes
      <4> QED BY <3>4, <4>1 DEF EndsAt, FetchBlockByHeight
    <3> QED BY <2>1, <2>2, <3>1, <3>3, <3>5 DEF BlockTypes
  <2> QED BY <2>1, <2>2, <2>4, <2>6, <2>7 DEF BlockTypes, Progress
<1>5. CASE rangesFetched
  <2>1. BlockTypes'
    BY <1>5 DEF rangesFetched, BlockTypes
  <2>2. to = height
    BY <1>5 DEF rangesFetched, BlockTypes, Progress
  <2>3. Len(chain) \in Nat
    BY DEF BlockTypes
  <2>4. trouble \/ (EndsAt(height) /\ Len(chain) >= height - Len(receivedBlocks))
    BY <1>5, <2>2, <2>3 DEF rangesFetched, BlockTypes, Progress
  <2>5. (Excused' = Excused) /\ (EndsAt(height)' = EndsAt(height))
    BY <1>5 DEF rangesFetched, Excused, Strayed, EndsAt, FetchBlockByHeight
  <2> QED BY <1>5, <2>1, <2>4, <2>5 DEF rangesFetched, Progress, Excused
<1>6. CASE processNext
  <2> DEFINE b == Head(receivedBlocks)
  <2>1. receivedBlocks # <<>> /\ receivedBlocks \in Seq(AnyBlock)
    BY <1>6 DEF processNext, BlockTypes
  <2>2. /\ Len(receivedBlocks) \in Nat /\ Len(receivedBlocks) > 0 /\ b = receivedBlocks[1]
        /\ b \in AnyBlock
    BY <2>1
  <2>3. /\ pc = "process" /\ receivedBlocks' = Tail(receivedBlocks)
        /\ processReceivedBlock(b)
        /\ trouble' = (trouble \/ (Linked(b) /\ Extends(b) /\ chain' = chain))
        /\ UNCHANGED <<setup, pc, ourLastHeight, height, heightCount, to, peerHeight, refused>>
    BY <1>6 DEF processNext
  <2>4. /\ receivedBlocks' \in Seq(AnyBlock)
        /\ Len(receivedBlocks') = Len(receivedBlocks) - 1
        /\ \A i \in 1..Len(receivedBlocks') : receivedBlocks'[i] = receivedBlocks[i + 1]
    BY <2>1, <2>2, <2>3
  <2>5. /\ chain' = chain \/ chain' = Append(chain, b.branch)
        /\ chain' \in Seq(Branch) /\ Len(chain) <= Len(chain')
        /\ \A h \in DOMAIN chain : h \in DOMAIN chain' /\ chain'[h] = chain[h]
    BY <2>2, <2>3, ChainGrows DEF BlockTypes, AnyBlock
  <2>6. Len(chain) \in Nat /\ Len(chain') \in Nat /\ DOMAIN chain = 1..Len(chain)
    BY <2>5 DEF BlockTypes
  <2> HIDE DEF b
  <2>7. BlockTypes'
    BY <2>3, <2>4, <2>5 DEF BlockTypes
  <2>8. ASSUME ~Excused'
        PROVE  (EndsAt(height) /\ Len(chain) >= height - Len(receivedBlocks))'
    <3>1. ~trouble' /\ ~trouble /\ ~salted /\ ~Strayed'
      BY ZenonT(60), <2>3, <2>8 DEF Excused
    <3>2. \A h \in DOMAIN chain : h <= height => chain[h] = "main"
      BY <2>3, <2>5, <3>1 DEF Strayed
    <3>3. ~Strayed
      BY <3>2 DEF Strayed
    <3>4. EndsAt(height) /\ Len(chain) >= height - Len(receivedBlocks)
      BY <2>3, <3>1, <3>3 DEF Progress, Excused
    <3> DEFINE k == height - Len(receivedBlocks) + 1
    <3>5. /\ k \in Nat /\ k > 0 /\ k <= height /\ Len(chain) >= k - 1
          /\ height - Len(receivedBlocks') = k
      BY <2>2, <2>4, <2>6, <3>4 DEF EndsAt, BlockTypes
    <3>6. b.height = k /\ b.branch = "main"
      <4>1. 1 \in 1..Len(receivedBlocks)
        BY <2>2
      <4>2. receivedBlocks[1] = FetchBlockByHeight(k)
        BY <3>4, <4>1 DEF EndsAt
      <4> QED BY <2>2, <4>2 DEF FetchBlockByHeight
    <3>7. EndsAt(height)'
      <4>1. ASSUME NEW i \in 1..Len(receivedBlocks')
            PROVE  receivedBlocks'[i] = FetchBlockByHeight(height' - Len(receivedBlocks') + i)
        <5>1. /\ i + 1 \in 1..Len(receivedBlocks)
              /\ height' - Len(receivedBlocks') + i = height - Len(receivedBlocks) + (i + 1)
          BY <2>2, <2>3, <2>4, <4>1 DEF BlockTypes
        <5> QED BY <2>4, <3>4, <5>1 DEF EndsAt
      <4>2. Len(receivedBlocks') <= height'
        BY <2>2, <2>3, <2>4, <3>4 DEF EndsAt, BlockTypes
      <4> QED BY <4>1, <4>2 DEF EndsAt, FetchBlockByHeight
    <3> HIDE DEF k
    <3>8. Len(chain') >= k
      <4>1. CASE Len(chain) >= k
        BY <2>5, <2>6, <3>5, <4>1
      <4>2. CASE Len(chain) = k - 1
        <5>1. At(chain, k - 1) = "main"
          BY <2>6, <3>2, <3>5, <4>2 DEF At, BlockTypes
        <5>2. Linked(b) /\ Extends(b)
          BY <2>6, <3>1, <3>5, <3>6, <4>2, <5>1 DEF Linked, Extends
        <5>3. chain' = Append(chain, b.branch)
          BY ZenonT(60), <2>3, <2>5, <3>1, <5>2
        <5> QED BY <2>6, <3>5, <3>6, <4>2, <5>3 DEF BlockTypes
      <4> QED BY <2>6, <3>5, <4>1, <4>2
    <3> QED BY <2>3, <3>5, <3>7, <3>8
  <2>9. ourLastHeight' <= Len(chain') /\ ~refused' /\ (trouble' \/ height' <= peerHeight')
    BY <2>3, <2>5, <2>6 DEF Progress, BlockTypes
  <2> QED BY <2>3, <2>7, <2>8, <2>9 DEF Progress
<1>7. CASE blocksProcessed
  <2>1. BlockTypes'
    BY <1>7 DEF blocksProcessed, BlockTypes
  <2>2. Excused' = Excused
    BY <1>7 DEF blocksProcessed, Excused, Strayed
  <2>3. Len(receivedBlocks) = 0
    BY <1>7 DEF blocksProcessed
  <2> QED BY <1>7, <2>1, <2>2, <2>3 DEF blocksProcessed, Progress, BlockTypes
<1>8. CASE fetchInventory
  BY <1>8, BlocksUntouched DEF fetchInventory
<1>9. CASE fetchTxs
  <2>1. UNCHANGED <<setup, chain, blockVars, peerHeight, refused>>
    BY <1>9 DEF fetchTxs
  <2>2. \/ pc' = "store" /\ UNCHANGED trouble
        \/ pc' = "done" /\ trouble' = TRUE
    BY ZenonT(60), <1>9 DEF fetchTxs
  <2>3. pc = "fetch" /\ peerHeight' \in Nat
    BY <1>9 DEF fetchTxs, BlockTypes
  <2> QED BY ZenonT(60), <2>1, <2>2, <2>3, BlocksUntouched, InTrouble
<1>10. CASE storeNext
  BY <1>10, BlocksUntouched DEF storeNext
<1>11. CASE batchStored
  BY <1>11, BlocksUntouched DEF batchStored
<1>12. CASE initialSyncCompleted
  BY <1>12, BlocksUntouched DEF initialSyncCompleted
<1>13. ASSUME NEW b \in Block, onNewBlock(b)
       PROVE  BlockTypes' /\ Progress'
  <2>1. /\ StoreBlock(b) /\ b.branch \in Branch
        /\ UNCHANGED <<setup, pc, blockVars, peerHeight, refused, trouble>>
    BY <1>13 DEF onNewBlock, Block
  <2>2. /\ chain' \in Seq(Branch) /\ Len(chain) <= Len(chain')
        /\ \A h \in DOMAIN chain : h \in DOMAIN chain' /\ chain'[h] = chain[h]
    BY <2>1, ChainGrows DEF BlockTypes
  <2>3. BlockTypes'
    BY <2>1, <2>2 DEF BlockTypes
  <2>4. (Excused => Excused') /\ (EndsAt(to)' = EndsAt(to)) /\ (EndsAt(height)' = EndsAt(height))
    BY <2>1, <2>2 DEF Excused, Strayed, EndsAt, FetchBlockByHeight
  <2>5. Len(chain) \in Nat /\ Len(chain') \in Nat /\ Len(receivedBlocks) \in Nat
    BY <2>2 DEF BlockTypes
  <2> QED BY <2>1, <2>2, <2>3, <2>4, <2>5 DEF Progress, BlockTypes
<1>14. ASSUME NEW t \in Tx, onNewTransaction(t) \/ DeleteTx(t) \/ peerDeletesTx(t)
       PROVE  BlockTypes' /\ Progress'
  BY <1>14, BlocksUntouched DEF onNewTransaction, DeleteTx, peerDeletesTx
<1>15. CASE peerCommits
  <2>1. BlockTypes'
    BY <1>15 DEF peerCommits, BlockTypes
  <2>2. (Excused' = Excused) /\ (EndsAt(to)' = EndsAt(to)) /\ (EndsAt(height)' = EndsAt(height))
    BY <1>15 DEF peerCommits, Excused, Strayed, EndsAt, FetchBlockByHeight
  <2> QED BY <1>15, <2>1, <2>2 DEF peerCommits, Progress, BlockTypes
<1>16. CASE peerRestarts
  <2>1. peerHeight' \in Nat
    BY <1>16 DEF peerRestarts, BlockTypes
  <2> QED BY <1>16, <2>1, InTrouble DEF peerRestarts
<1>17. CASE UNCHANGED vars
  BY <1>17, BlocksUntouched DEF vars
<1> QED
  BY <1>1, <1>2, <1>3, <1>4, <1>5, <1>6, <1>7, <1>8, <1>9, <1>10, <1>11, <1>12, <1>13,
     <1>14, <1>15, <1>16, <1>17
  DEF Next, initialSync

-----------------------------------------------------------------------------
(* The inductive invariant of the blocks' part of the initial sync         *)
(* (doInitialBlockPoolSync): what was received is where it belongs.        *)
LEMMA BlocksSynced == Spec => [](BlockTypes /\ Progress)
BY BlockInit, BlockStep, PTL DEF Spec

(* The ranges that doInitialBlockPoolSync asks for are never turned down   *)
(* by GetRangeOfBlocks, whatever limit the two share.                      *)
THEOREM RangesAreAccepted == Spec => []RangeAccepted
<1>1. BlockTypes /\ Progress => RangeAccepted
  BY DEF Progress, RangeAccepted
<1> QED BY <1>1, BlocksSynced, PTL

(* The initial sync brings the node to the height that its bootstrap peer  *)
(* reported, with the exceptions that CaughtUp names.                      *)
THEOREM NodeCatchesUp == Spec => []CaughtUp
<1>1. BlockTypes /\ Progress => CaughtUp
  BY DEF Progress, CaughtUp, Excused, Strayed
<1> QED BY <1>1, BlocksSynced, PTL

-----------------------------------------------------------------------------
(* The transactions.                                                       *)

(* What is still to be asked for is in the peer's mempool, or has left it  *)
(* since the peer listed it.                                               *)
Listed ==
    /\ ~peerUp => gone # {}
    /\ pc \in {"fetch", "store"} => txsToRetrieve \subseteq peerPool \cup gone

(* An entry that is the address of a loop variable belongs to a reply that *)
(* was received, and the variable holds a transaction of the same reply.   *)
TxTypes ==
    /\ batch \in Nat
    /\ DOMAIN mempool = Tx /\ DOMAIN v = Batch /\ DOMAIN replies = Batch
    /\ txsToRetrieve \subseteq Tx /\ txHashes \subseteq Tx /\ peerPool \subseteq Tx

SameReply ==
    /\ \A t \in Tx : mempool[t] \in Batch =>
          /\ mempool[t] <= batch
          /\ t \in replies[mempool[t]] /\ v[mempool[t]] \in replies[mempool[t]]
    /\ pc = "store" /\ batch \in Batch => txHashes \subseteq replies[batch]

LEMMA ListedStep == Listed /\ [Next]_vars => Listed'
<1> SUFFICES ASSUME Listed, [Next]_vars PROVE Listed'
  OBVIOUS
<1> USE DEF setup, blockVars, txVars, peer, history, Listed
<1>1. CASE fetchInventory
  BY <1>1 DEF fetchInventory, Mempool, GetAllTransactions
<1>2. CASE fetchTxs
  <2>1. PICK items \in SUBSET txsToRetrieve :
           /\ txsToRetrieve' = txsToRetrieve \ items
           /\ \/ ~GetMempoolTxsPanics(items) /\ UNCHANGED peerUp
              \/ GetMempoolTxsPanics(items)
    BY ZenonT(60), <1>2 DEF fetchTxs
  <2>2. pc = "fetch" /\ peerUp /\ UNCHANGED <<peerPool, gone>>
    BY <1>2 DEF fetchTxs
  <2>3. GetMempoolTxsPanics(items) => gone # {}
    BY <2>2 DEF GetMempoolTxsPanics
  <2> QED BY ZenonT(60), <2>1, <2>2, <2>3
<1>3. CASE CallFails \/ readLastHeight \/ LastBlockHeight \/ rangesFetched \/ blocksProcessed
  BY <1>3 DEF CallFails, readLastHeight, LastBlockHeight, rangesFetched, blocksProcessed
<1>4. CASE fetchRange \/ processNext
  BY <1>4 DEF fetchRange, processNext
<1>5. CASE storeNext \/ batchStored \/ initialSyncCompleted
  BY <1>5 DEF storeNext, batchStored, initialSyncCompleted
<1>6. ASSUME NEW b \in Block, onNewBlock(b) PROVE Listed'
  BY <1>6 DEF onNewBlock
<1>7. ASSUME NEW t \in Tx, onNewTransaction(t) \/ DeleteTx(t) \/ peerDeletesTx(t) PROVE Listed'
  BY <1>7 DEF onNewTransaction, DeleteTx, peerDeletesTx
<1>8. CASE peerCommits \/ peerRestarts
  BY <1>8 DEF peerCommits, peerRestarts
<1>9. CASE UNCHANGED vars
  BY <1>9 DEF vars
<1> QED
  BY <1>1, <1>2, <1>3, <1>4, <1>5, <1>6, <1>7, <1>8, <1>9 DEF Next, initialSync

(* The peer's process dies of a call for transactions only when one that   *)
(* it listed has left its mempool, for every way to cut the calls.         *)
THEOREM PeerDiesOfStaleInventory == Spec => []StaleInventoryOnly
<1>1. Init => Listed
  BY DEF Init, Listed
<1>2. Listed => StaleInventoryOnly
  BY DEF Listed, StaleInventoryOnly
<1> QED BY <1>1, <1>2, ListedStep, PTL DEF Spec

LEMMA TxTypesStep == TxTypes /\ [Next]_vars => TxTypes'
<1> SUFFICES ASSUME TxTypes, [Next]_vars PROVE TxTypes'
  OBVIOUS
<1> USE DEF setup, blockVars, txVars, peer, history, TxTypes
<1>1. CASE fetchInventory
  BY <1>1 DEF fetchInventory, Mempool, GetAllTransactions
<1>2. CASE fetchTxs
  <2>1. PICK items \in SUBSET txsToRetrieve :
           /\ txsToRetrieve' = txsToRetrieve \ items
           /\ \/ /\ txHashes' = items /\ batch' = batch + 1
                 /\ replies' = [replies EXCEPT ![batch'] = items]
              \/ UNCHANGED <<txHashes, batch, replies>>
    BY ZenonT(60), <1>2 DEF fetchTxs
  <2>2. UNCHANGED <<mempool, v, peerPool>>
    BY <1>2 DEF fetchTxs
  <2>3. DOMAIN replies' = Batch
    BY <2>1
  <2> QED BY <2>1, <2>2, <2>3 DEF Batch
<1>3. CASE CallFails \/ readLastHeight \/ LastBlockHeight \/ rangesFetched \/ blocksProcessed
  BY ZenonT(60), <1>3 DEF CallFails, readLastHeight, LastBlockHeight, rangesFetched, blocksProcessed
<1>4. CASE fetchRange \/ processNext
  BY ZenonT(60), <1>4 DEF fetchRange, processNext
<1>5. CASE storeNext \/ batchStored \/ initialSyncCompleted
  BY <1>5 DEF storeNext, batchStored, initialSyncCompleted, StoreTx, StoreWithTTL
<1>6. ASSUME NEW b \in Block, onNewBlock(b) PROVE TxTypes'
  BY <1>6 DEF onNewBlock
<1>7. ASSUME NEW t \in Tx, onNewTransaction(t) \/ DeleteTx(t) \/ peerDeletesTx(t) PROVE TxTypes'
  BY ZenonT(60), <1>7 DEF onNewTransaction, DeleteTx, peerDeletesTx, StoreWithTTL, Delete
<1>8. CASE peerCommits \/ peerRestarts
  BY ZenonT(60), <1>8 DEF peerCommits, peerRestarts
<1>9. CASE UNCHANGED vars
  BY ZenonT(60), <1>9 DEF vars
<1> QED
  BY ZenonT(60), <1>1, <1>2, <1>3, <1>4, <1>5, <1>6, <1>7, <1>8, <1>9 DEF Next, initialSync

LEMMA SameReplyStep == TxTypes /\ SameReply /\ [Next]_vars => SameReply'
<1> SUFFICES ASSUME TxTypes, SameReply, [Next]_vars PROVE SameReply'
  OBVIOUS
<1> USE DEF setup, blockVars, txVars, peer, history
<1>0. Batch \subseteq Nat /\ None \notin Batch /\ \A t \in Tx : t \notin Batch
  <2>1. Cardinality(Tx) \in Nat
    BY FS_CardinalityType
  <2> QED BY <2>1 DEF Batch
<1>1. ASSUME UNCHANGED <<mempool, v, txHashes, batch, replies>>, pc' = pc \/ pc' # "store"
      PROVE  SameReply'
  BY <1>1 DEF SameReply, Batch
<1>2. CASE fetchTxs
  <2>1. UNCHANGED <<mempool, v>> /\ pc' # pc
    BY ZenonT(60), <1>2 DEF fetchTxs
  <2>2. CASE UNCHANGED <<txHashes, batch, replies>> /\ pc' = "done"
    BY <1>1, <2>1, <2>2
  <2>3. CASE \E items \in SUBSET txsToRetrieve :
               /\ txHashes' = items /\ batch' = batch + 1
               /\ replies' = [replies EXCEPT ![batch'] = items]
    <3>1. PICK items \in SUBSET txsToRetrieve :
             /\ txHashes' = items /\ batch' = batch + 1
             /\ replies' = [replies EXCEPT ![batch'] = items]
      BY ZenonT(60), <2>3
    <3>2. \A i \in Batch : i <= batch => replies'[i] = replies[i] /\ i <= batch'
      BY <1>0, <3>1 DEF TxTypes
    <3>3. batch' \in Batch => replies'[batch'] = txHashes'
      BY <3>1 DEF TxTypes
    <3> QED BY <2>1, <3>2, <3>3 DEF SameReply, Batch
  <2> QED BY ZenonT(60), <1>2, <2>2, <2>3 DEF fetchTxs
<1>3. CASE storeNext
  <2>1. PICK t \in txHashes : StoreTx(t) /\ txHashes' = txHashes \ {t}
    BY <1>3 DEF storeNext
  <2>2. pc = "store" /\ UNCHANGED <<pc, batch, replies>>
    BY <1>3 DEF storeNext
  <2>3. t \in Tx
    BY <2>1 DEF TxTypes
  <2>4. /\ mempool' = [mempool EXCEPT ![t] = batch] /\ v' = [v EXCEPT ![batch] = t]
    BY <2>1 DEF StoreTx, StoreWithTTL
  <2>5. batch \in Batch => txHashes \subseteq replies[batch]
    BY <2>2 DEF SameReply
  <2>6. ASSUME NEW s \in Tx, mempool'[s] \in Batch
        PROVE  /\ mempool'[s] <= batch'
               /\ s \in replies'[mempool'[s]] /\ v'[mempool'[s]] \in replies'[mempool'[s]]
    <3>1. CASE mempool'[s] = batch
      <4>1. v'[batch] = t /\ batch \in Batch /\ t \in replies[batch]
        BY <2>1, <2>4, <2>5, <2>6, <3>1 DEF TxTypes
      <4>2. s \in replies[batch]
        BY <2>3, <2>4, <2>6, <3>1, <4>1 DEF TxTypes, SameReply
      <4> QED BY <2>2, <3>1, <4>1, <4>2 DEF TxTypes
    <3>2. CASE mempool'[s] # batch
      <4>1. mempool'[s] = mempool[s]
        BY <2>3, <2>4, <3>2 DEF TxTypes
      <4>2. v'[mempool[s]] = v[mempool[s]]
        BY <2>4, <2>6, <3>2, <4>1 DEF TxTypes
      <4> QED BY <2>2, <2>6, <4>1, <4>2 DEF SameReply
    <3> QED BY <3>1, <3>2
  <2> QED BY <2>1, <2>2, <2>5, <2>6 DEF SameReply, Batch
<1>4. CASE CallFails \/ readLastHeight \/ LastBlockHeight \/ rangesFetched \/ blocksProcessed
  BY <1>1, <1>4 DEF CallFails, readLastHeight, LastBlockHeight, rangesFetched, blocksProcessed
<1>5. CASE fetchRange \/ processNext
  BY <1>1, <1>5 DEF fetchRange, processNext
<1>6. CASE fetchInventory \/ batchStored \/ initialSyncCompleted
  BY <1>1, <1>6 DEF fetchInventory, batchStored, initialSyncCompleted
<1>7. ASSUME NEW b \in Block, onNewBlock(b) PROVE SameReply'
  BY ZenonT(60), <1>1, <1>7 DEF onNewBlock
<1>8. ASSUME NEW t \in Tx, onNewTransaction(t) \/ DeleteTx(t) PROVE SameReply'
  <2>1. PICK p \in {t, None} : mempool' = [mempool EXCEPT ![t] = p]
    BY <1>8 DEF onNewTransaction, DeleteTx, StoreWithTTL, Delete
  <2>2. UNCHANGED <<v, pc, txHashes, batch, replies>>
    BY <1>8 DEF onNewTransaction, DeleteTx
  <2>3. \A s \in Tx : mempool'[s] \in Batch => mempool'[s] = mempool[s]
    BY <1>0, <2>1 DEF TxTypes
  <2> QED BY ZenonT(60), <2>2, <2>3 DEF SameReply, Batch
<1>9. ASSUME NEW t \in Tx, peerDeletesTx(t) PROVE SameReply'
  BY <1>1, <1>9 DEF peerDeletesTx
<1>10. CASE peerCommits \/ peerRestarts
  BY <1>1, <1>10 DEF peerCommits, peerRestarts
<1>11. CASE UNCHANGED vars
  BY <1>1, <1>11 DEF vars
<1> QED
  BY <1>2, <1>3, <1>4, <1>5, <1>6, <1>7, <1>8, <1>9, <1>10, <1>11 DEF Next, initialSync

(* What the mempool holds under the hash of a synced transaction is a      *)
(* transaction of the same reply, for every limit on the size of a reply.  *)
THEOREM RepliesAreNotMixed == Spec => []FoundInSameReply
<1>1. Init => TxTypes /\ SameReply
  <2>1. None \notin Batch
    <3>1. Cardinality(Tx) \in Nat
      BY FS_CardinalityType
    <3> QED BY <3>1 DEF Batch
  <2> QED BY <2>1 DEF Init, TxTypes, SameReply
<1>2. TxTypes /\ SameReply => FoundInSameReply
  BY DEF SameReply, FoundInSameReply
<1> QED BY <1>1, <1>2, TxTypesStep, SameReplyStep, PTL DEF Spec

-----------------------------------------------------------------------------
(* The types, with the bounds on heights and on the number of replies.     *)

BlockBounds ==
    /\ ourLastHeight \in Height /\ height \in Height /\ heightCount \in Height /\ to \in Height
    /\ peerHeight \in Height /\ Len(chain) \in Height /\ receivedBlocks \in Seq(Block)

(* A block that is stored lies above the chain, within the bound.          *)
LEMMA ChainBounded ==
    ASSUME chain \in Seq(Branch), Len(chain) \in Height, NEW b \in Block,
           StoreBlock(b) \/ processReceivedBlock(b)
    PROVE  Len(chain') \in Height
<1>1. b.height \in 1..MaxHeight /\ b.branch \in Branch
  BY DEF Block
<1>2. chain' = chain \/ (Extends(b) /\ chain' = Append(chain, b.branch))
  BY ZenonT(60) DEF StoreBlock, processReceivedBlock
<1>3. CASE chain' = chain
  BY ZenonT(60), <1>3
<1>4. CASE Extends(b) /\ chain' = Append(chain, b.branch)
  <2>1. Len(chain') = Len(chain) + 1
    BY <1>1, <1>4
  <2>2. b.height = Len(chain) + 1
    BY <1>4 DEF Extends
  <2> QED BY <1>1, <2>1, <2>2 DEF Height
<1> QED BY <1>2, <1>3, <1>4

(* The peer serves blocks that it has.                                     *)
LEMMA ServedBounded ==
    ASSUME NEW t \in Nat, NEW k \in Nat, peerHeight \in Height
    PROVE  GetRangeOfBlocks(t + 1, t + k) \in Seq(Block)
<1> DEFINE last == IF t + k < peerHeight THEN t + k ELSE peerHeight
           n == IF last < t + 1 THEN 0 ELSE last - (t + 1) + 1
<1>1. n \in Nat /\ \A i \in 1..n : t + 1 + i - 1 \in 1..MaxHeight
  BY DEF Height
<1>2. \A i \in 1..n : FetchBlockByHeight(t + 1 + i - 1) \in Block
  <2> HIDE DEF n
  <2> QED BY <1>1 DEF FetchBlockByHeight, Block, Branch
<1>3. GetRangeOfBlocks(t + 1, t + k) = [i \in 1..n |-> FetchBlockByHeight(t + 1 + i - 1)]
  BY DEF GetRangeOfBlocks
<1> HIDE DEF n
<1>4. [i \in 1..n |-> FetchBlockByHeight(t + 1 + i - 1)] \in Seq(Block)
  BY <1>1, <1>2, IsASeq
<1> QED BY ZenonT(60), <1>3, <1>4

LEMMA BlockBoundsStep ==
    BlockTypes /\ Progress /\ BlockBounds /\ [Next]_vars => BlockBounds'
<1> SUFFICES ASSUME BlockTypes, Progress, BlockBounds, [Next]_vars PROVE BlockBounds'
  OBVIOUS
<1> USE DEF setup, blockVars, txVars, peer, history
<1>0. chain \in Seq(Branch) /\ Len(chain) \in Height /\ receivedBlocks \in Seq(Block)
  BY DEF BlockTypes, BlockBounds
<1>1. CASE readLastHeight
  BY <1>1 DEF readLastHeight, BlockBounds
<1>2. CASE LastBlockHeight
  BY <1>2 DEF LastBlockHeight, BlockBounds, Height
<1>3. CASE fetchRange
  <2>1. /\ heightCount \in Nat /\ heightCount > 0 /\ to \in Nat /\ to + heightCount = height
        /\ height <= MaxHeight
    BY <1>3 DEF fetchRange, BlockTypes, Progress, BlockBounds, Height
  <2>2. addedVal \in Nat /\ addedVal <= heightCount
    BY <2>1, AddedVal
  <2>3. heightCount' = heightCount - addedVal /\ to' = to + addedVal
    BY <1>3 DEF fetchRange
  <2>4. heightCount' \in Height /\ to' \in Height
    BY <2>1, <2>2, <2>3 DEF Height
  <2>5. GetRangeOfBlocks(to + 1, to + addedVal) \in Seq(Block)
    BY ZenonT(60), <2>1, <2>2, ServedBounded DEF BlockBounds
  <2>6. \/ receivedBlocks' = receivedBlocks
        \/ receivedBlocks' = receivedBlocks \o GetRangeOfBlocks(to + 1, to + addedVal)
    BY ZenonT(60), <1>3, <2>3 DEF fetchRange, nextFrom
  <2>7. \A s \in Seq(Block), u \in Seq(Block) : s \o u \in Seq(Block)
    OBVIOUS
  <2>8. receivedBlocks' \in Seq(Block)
    BY ZenonT(60), <1>0, <2>5, <2>6, <2>7
  <2> QED BY <1>3, <2>4, <2>8 DEF fetchRange, BlockBounds
<1>4. CASE processNext
  <2>1. receivedBlocks # <<>> /\ processReceivedBlock(Head(receivedBlocks))
    BY ZenonT(60), <1>4 DEF processNext
  <2>2. Head(receivedBlocks) \in Block /\ Tail(receivedBlocks) \in Seq(Block)
    BY <1>0, <2>1
  <2>3. Len(chain') \in Height
    BY ZenonT(60), <1>0, <2>1, <2>2, ChainBounded
  <2> QED BY <1>4, <2>2, <2>3 DEF processNext, BlockBounds
<1>5. ASSUME NEW b \in Block, onNewBlock(b) PROVE BlockBounds'
  <2>1. Len(chain') \in Height
    BY ZenonT(60), <1>0, <1>5, ChainBounded DEF onNewBlock
  <2> QED BY <1>5, <2>1 DEF onNewBlock, BlockBounds
<1>6. CASE peerCommits \/ peerRestarts
  <2>1. \/ peerHeight < MaxHeight /\ peerHeight' = peerHeight + 1
        \/ peerHeight' \in {0, peerHeight}
    BY ZenonT(60), <1>6 DEF peerCommits, peerRestarts
  <2>2. peerHeight' \in Height
    <3>1. peerHeight \in Height
      BY ZenonT(60) DEF BlockBounds
    <3> QED BY <2>1, <3>1, SyncAssumption DEF Height
  <2> QED BY ZenonT(60), <1>6, <2>2 DEF peerCommits, peerRestarts, BlockBounds
<1>7. CASE CallFails \/ rangesFetched \/ blocksProcessed \/ fetchInventory \/ fetchTxs
  BY <1>7 DEF CallFails, rangesFetched, blocksProcessed, fetchInventory, fetchTxs, BlockBounds
<1>8. CASE storeNext \/ batchStored \/ initialSyncCompleted
  BY <1>8 DEF storeNext, batchStored, initialSyncCompleted, BlockBounds
<1>9. ASSUME NEW t \in Tx, onNewTransaction(t) \/ DeleteTx(t) \/ peerDeletesTx(t)
      PROVE  BlockBounds'
  BY <1>9 DEF onNewTransaction, DeleteTx, peerDeletesTx, BlockBounds
<1>10. CASE UNCHANGED vars
  BY <1>10 DEF vars, BlockBounds
<1> QED
  BY ZenonT(60), <1>1, <1>2, <1>3, <1>4, <1>5, <1>6, <1>7, <1>8, <1>9, <1>10 DEF Next, initialSync

PoolTypes ==
    /\ mempool \in [Tx -> Tx \cup Batch \cup {None}] /\ v \in [Batch -> Tx \cup {None}]
    /\ replies \in [Batch -> SUBSET Tx] /\ batch \in Batch \cup {0}

(* Every call for transactions takes one at least off the list, so that    *)
(* there are no more replies than transactions.                            *)
Room ==
    /\ pc = "store" => batch \in Batch
    /\ pc \in {"start", "height", "ranges", "process", "inventory"} => batch = 0
    /\ pc \in {"fetch", "store"} => batch + Cardinality(txsToRetrieve) <= Cardinality(Tx)

LEMMA SubsetCount ==
    ASSUME NEW S \in SUBSET Tx
    PROVE  IsFiniteSet(S) /\ Cardinality(S) \in Nat /\ Cardinality(S) <= Cardinality(Tx)
<1>1. IsFiniteSet(S) /\ Cardinality(S) <= Cardinality(Tx)
  BY FS_Subset
<1> QED BY <1>1, FS_CardinalityType

LEMMA FewerLeft ==
    ASSUME TxTypes, txsToRetrieve # {}, NEW items \in SUBSET txsToRetrieve, NextBatch(items)
    PROVE  Cardinality(txsToRetrieve \ items) + 1 <= Cardinality(txsToRetrieve)
<1>1. txsToRetrieve \in SUBSET Tx /\ items \in SUBSET Tx
  BY DEF TxTypes
<1>2. /\ IsFiniteSet(txsToRetrieve) /\ Cardinality(txsToRetrieve) \in Nat
      /\ Cardinality(items) \in Nat
  BY ZenonT(60), <1>1, SubsetCount
<1>3. Cardinality(txsToRetrieve) # 0
  BY ZenonT(60), <1>2, FS_EmptySet
<1>4. Cardinality(items) >= 1
  BY <1>2, <1>3 DEF NextBatch
<1>5. txsToRetrieve \cap items = items
  OBVIOUS
<1>6. Cardinality(txsToRetrieve \ items) = Cardinality(txsToRetrieve) - Cardinality(items)
  BY ZenonT(60), <1>2, <1>5, FS_Difference
<1> QED BY <1>2, <1>4, <1>6

LEMMA PoolStep == TxTypes /\ PoolTypes /\ Room /\ [Next]_vars => PoolTypes' /\ Room'
<1> SUFFICES ASSUME TxTypes, PoolTypes, Room, [Next]_vars PROVE PoolTypes' /\ Room'
  OBVIOUS
<1> USE DEF setup, blockVars, txVars, peer, history
<1>0. Cardinality(Tx) \in Nat /\ txsToRetrieve \in SUBSET Tx /\ txHashes \subseteq Tx
  BY FS_CardinalityType DEF TxTypes
<1>1. CASE fetchInventory
  <2>1. txsToRetrieve' \in SUBSET Tx
    BY <1>1 DEF fetchInventory, Mempool, GetAllTransactions, TxTypes
  <2>2. Cardinality(txsToRetrieve') \in Nat /\ Cardinality(txsToRetrieve') <= Cardinality(Tx)
    BY ZenonT(60), <2>1, SubsetCount
  <2>3. pc = "inventory" /\ pc' = "fetch" /\ UNCHANGED <<mempool, v, replies, batch>>
    BY <1>1 DEF fetchInventory
  <2>4. Room'
    BY <1>0, <2>2, <2>3 DEF Room
  <2> QED BY ZenonT(60), <2>3, <2>4 DEF PoolTypes
<1>2. CASE fetchTxs
  <2>1. PICK items \in SUBSET txsToRetrieve :
           /\ NextBatch(items)
           /\ txsToRetrieve' = txsToRetrieve \ items
           /\ \/ /\ batch' = batch + 1 /\ pc' = "store"
                 /\ replies' = [replies EXCEPT ![batch'] = items]
              \/ pc' = "done" /\ UNCHANGED <<batch, replies>>
    BY ZenonT(60), <1>2 DEF fetchTxs
  <2>2. pc = "fetch" /\ txsToRetrieve # {} /\ UNCHANGED <<mempool, v>>
    BY <1>2 DEF fetchTxs
  <2>3. CASE pc' = "done" /\ UNCHANGED <<batch, replies>>
    BY <2>2, <2>3 DEF PoolTypes, Room
  <2>4. CASE /\ batch' = batch + 1 /\ pc' = "store"
             /\ replies' = [replies EXCEPT ![batch'] = items]
    <3>1. Cardinality(txsToRetrieve \ items) + 1 <= Cardinality(txsToRetrieve)
      BY ZenonT(60), <2>1, <2>2, FewerLeft
    <3>2. txsToRetrieve \ items \in SUBSET Tx
      BY <1>0
    <3>3. Cardinality(txsToRetrieve \ items) \in Nat /\ Cardinality(txsToRetrieve) \in Nat
      BY ZenonT(60), <1>0, <3>2, SubsetCount
    <3>4. batch \in Nat /\ batch + Cardinality(txsToRetrieve) <= Cardinality(Tx)
      BY <2>2 DEF TxTypes, Room
    <3>5. batch' + Cardinality(txsToRetrieve \ items) <= Cardinality(Tx) /\ batch' \in Batch
      BY <1>0, <2>4, <3>1, <3>3, <3>4 DEF Batch
    <3>6. Room'
      BY ZenonT(60), <2>1, <2>4, <3>5 DEF Room
    <3>7. replies' \in [Batch -> SUBSET Tx]
      BY <1>0, <2>4, <3>5 DEF PoolTypes
    <3> QED BY <2>2, <3>5, <3>6, <3>7 DEF PoolTypes
  <2> QED BY ZenonT(60), <2>1, <2>3, <2>4
<1>3. CASE storeNext
  <2>1. PICK t \in txHashes : StoreTx(t)
    BY ZenonT(60), <1>3 DEF storeNext
  <2>2. pc = "store" /\ UNCHANGED <<pc, txsToRetrieve, batch, replies>>
    BY <1>3 DEF storeNext
  <2>3. batch \in Batch /\ t \in Tx
    BY ZenonT(60), <1>0, <2>1, <2>2 DEF Room
  <2>4. mempool' \in [Tx -> Tx \cup Batch \cup {None}] /\ v' \in [Batch -> Tx \cup {None}]
    BY <2>1, <2>3 DEF StoreTx, StoreWithTTL, PoolTypes
  <2>5. Room'
    BY ZenonT(60), <2>2 DEF Room
  <2> QED BY <2>2, <2>4, <2>5 DEF PoolTypes
<1>4. CASE CallFails \/ readLastHeight \/ LastBlockHeight \/ rangesFetched \/ blocksProcessed
  BY ZenonT(60), <1>4 DEF CallFails, readLastHeight, LastBlockHeight, rangesFetched, blocksProcessed,
              PoolTypes, Room
<1>5. CASE fetchRange \/ processNext \/ batchStored \/ initialSyncCompleted
  BY <1>5 DEF fetchRange, processNext, batchStored, initialSyncCompleted, PoolTypes, Room
<1>6. ASSUME NEW b \in Block, onNewBlock(b) PROVE PoolTypes' /\ Room'
  BY <1>6 DEF onNewBlock, PoolTypes, Room
<1>7. ASSUME NEW t \in Tx, onNewTransaction(t) \/ DeleteTx(t) \/ peerDeletesTx(t)
      PROVE  PoolTypes' /\ Room'
  BY <1>7 DEF onNewTransaction, DeleteTx, peerDeletesTx, StoreWithTTL, Delete, PoolTypes, Room
<1>8. CASE peerCommits \/ peerRestarts
  BY <1>8 DEF peerCommits, peerRestarts, PoolTypes, Room
<1>9. CASE UNCHANGED vars
  BY <1>9 DEF vars, PoolTypes, Room
<1> QED
  BY ZenonT(60), <1>1, <1>2, <1>3, <1>4, <1>5, <1>6, <1>7, <1>8, <1>9 DEF Next, initialSync

ControlTypes ==
    /\ bootstrapPeer \in BOOLEAN /\ salted \in BOOLEAN /\ peerUp \in BOOLEAN
    /\ pc \in {"start", "height", "ranges", "process", "inventory", "fetch", "store", "done"}
    /\ events \in 0..MaxEvents /\ gone \subseteq Tx

LEMMA ControlStep == TxTypes /\ ControlTypes /\ [Next]_vars => ControlTypes'
<1> SUFFICES ASSUME TxTypes, ControlTypes, [Next]_vars PROVE ControlTypes'
  OBVIOUS
<1> USE DEF setup, blockVars, txVars, peer, history
<1>1. CASE CallFails \/ readLastHeight \/ LastBlockHeight \/ rangesFetched \/ blocksProcessed
  BY ZenonT(60), <1>1
     DEF CallFails, readLastHeight, LastBlockHeight, rangesFetched, blocksProcessed, ControlTypes
<1>2. CASE fetchRange \/ processNext \/ fetchInventory
  BY ZenonT(60), <1>2 DEF fetchRange, processNext, fetchInventory, ControlTypes
<1>3. CASE fetchTxs
  <2>1. pc' \in {"store", "done"} /\ peerUp' \in BOOLEAN
    BY ZenonT(60), <1>3 DEF fetchTxs, ControlTypes
  <2>2. UNCHANGED <<setup, events, gone>>
    BY ZenonT(60), <1>3 DEF fetchTxs
  <2> QED BY ZenonT(60), <2>1, <2>2 DEF ControlTypes
<1>4. CASE storeNext \/ batchStored \/ initialSyncCompleted
  BY ZenonT(60), <1>4 DEF storeNext, batchStored, initialSyncCompleted, ControlTypes
<1>5. Event => events' \in 0..MaxEvents
  BY DEF Event, ControlTypes
<1>6. ASSUME NEW b \in Block, onNewBlock(b) PROVE ControlTypes'
  BY ZenonT(60), <1>5, <1>6 DEF onNewBlock, ControlTypes
<1>7. ASSUME NEW t \in Tx, onNewTransaction(t) \/ DeleteTx(t) \/ peerDeletesTx(t)
      PROVE  ControlTypes'
  <2>1. gone' \subseteq Tx
    BY <1>7 DEF onNewTransaction, DeleteTx, peerDeletesTx, ControlTypes
  <2> QED BY ZenonT(60), <1>5, <1>7, <2>1 DEF onNewTransaction, DeleteTx, peerDeletesTx, ControlTypes
<1>8. CASE peerCommits \/ peerRestarts
  <2>1. gone' \subseteq Tx
    BY ZenonT(60), <1>8 DEF peerCommits, peerRestarts, ControlTypes, TxTypes
  <2> QED BY ZenonT(60), <1>5, <1>8, <2>1 DEF peerCommits, peerRestarts, ControlTypes
<1>9. CASE UNCHANGED vars
  BY ZenonT(60), <1>9 DEF vars, ControlTypes
<1> QED
  BY ZenonT(60), <1>1, <1>2, <1>3, <1>4, <1>6, <1>7, <1>8, <1>9 DEF Next, initialSync

LEMMA InitBounds == Init => TxTypes /\ BlockBounds /\ PoolTypes /\ Room /\ ControlTypes
<1> SUFFICES ASSUME Init PROVE TxTypes /\ BlockBounds /\ PoolTypes /\ Room /\ ControlTypes
  OBVIOUS
<1>1. Len(<<>>) \in Height /\ Len(<<"main">>) \in Height /\ Len(<<"stray">>) \in Height
  BY DEF Height
<1>2. Len(chain) \in Height
  BY ZenonT(60), <1>1 DEF Init
<1>3. 0 \in Height /\ <<>> \in Seq(Block) /\ 0 \in 0..MaxEvents
  BY DEF Height
<1>4. BlockBounds
  BY ZenonT(60), <1>2, <1>3 DEF Init, BlockBounds
<1>5. TxTypes /\ PoolTypes
  BY DEF Init, TxTypes, PoolTypes
<1>6. Room
  BY DEF Init, Room
<1>7. ControlTypes
  BY ZenonT(60), <1>3 DEF Init, ControlTypes
<1> QED BY <1>4, <1>5, <1>6, <1>7

(* Every height stays within the chain of the peer, and the sync makes no  *)
(* more calls for transactions than there are transactions, whatever the   *)
(* limits on a call are (doInitialBlockPoolSync, doInitialMempoolSync).    *)
THEOREM SyncTypeCorrect == Spec => []SyncTypeOK
<1>1. ASSUME BlockTypes, TxTypes, BlockBounds, PoolTypes, ControlTypes PROVE SyncTypeOK
  BY ZenonT(60), <1>1 DEF BlockTypes, TxTypes, BlockBounds, PoolTypes, ControlTypes, SyncTypeOK
<1> QED
  BY <1>1, InitBounds, BlocksSynced, TxTypesStep, BlockBoundsStep, PoolStep, ControlStep, PTL DEF Spec
=============================================================================
