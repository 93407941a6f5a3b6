------------------------- MODULE DioneNetworkProofs -------------------------
(***************************************************************************)
(* The composed network keeps what is proved of its voting core, stores    *)
(* nothing that was not voted for, and its nodes agree on their chains.    *)
(***************************************************************************)
EXTENDS DioneNetwork, ConsensusProofs

(* The backends a leaf is tried with, in this order, unless it names one.  *)
USE SMTT(60), Z3T(60), ZenonT(60)

(* A round that has a block to work on.                                    *)
LEMMA RoundBlock ==
    ASSUME NEW r \in Round, r.at \notin {"idle", "mine"}
    PROVE  /\ r.block \in Block
           /\ [r EXCEPT !.at = "store"] \in Round
           /\ [r EXCEPT !.at = "announce"] \in Round
BY DEF Round

(* A step of a beacon round is a step of the voting core, or none to it.   *)
LEMMA RoundStep ==
    ASSUME NetTypeOK, NEW n \in Node, onNewBeaconEntry(n)
    PROVE  [Next]_vars
<1>1. CASE pruneAndDeleteTxs(n)
  BY <1>1 DEF pruneAndDeleteTxs, Next
<1>2. CASE proposeMined(n)
  <2>1. round[n].block \in Block /\ propose(n, round[n].block)
    BY ZenonT(60), <1>2, RoundBlock DEF proposeMined, NetTypeOK
  <2> QED BY <2>1 DEF Next
<1>3. CASE ~pruneAndDeleteTxs(n) /\ ~proposeMined(n)
  <2>1. UNCHANGED vars
    BY <1>3 DEF onNewBeaconEntry, selectBlock, noAcceptedBlocks, emptyRound, storeSelected,
                announceAndSubmit, MineBlock, skipMining, netVars
  <2> QED BY <2>1
<1> QED BY <1>1, <1>2, <1>3

LEMMA EventStep ==
    ASSUME NEW n \in Node, handleEvent(n)
    PROVE  [Next]_vars
<1> USE ProposerAssumption
<1>1. ASSUME NEW b \in Block, logPrePrepare(n, b) PROVE [Next]_vars
  BY <1>1 DEF logPrePrepare, Next
<1>2. ASSUME NEW b \in Block, dropPrePrepare(n, b) PROVE [Next]_vars
  BY <1>2 DEF dropPrePrepare, Next
<1>3. ASSUME NEW b \in Block, NEW k \in Node, NEW t \in {"PREPARE", "COMMIT"}, onVote(n, b, t, k)
      PROVE  [Next]_vars
  BY <1>3 DEF onVote, Next, MsgType
<1>4. ASSUME NEW b \in Block, NEW s \in {PrePrepared, Prepared}, onState(n, b, s)
      PROVE  [Next]_vars
  BY <1>4 DEF onState, Next
<1>5. ASSUME NEW b \in Block, validatePrePrepare(n, b) \/ onNewBlock(n, b) PROVE [Next]_vars
  BY <1>5 DEF validatePrePrepare, onNewBlock
<1>6. CASE onLatestBlockHeightUpdated(n)
  BY <1>6 DEF onLatestBlockHeightUpdated
<1> QED BY <1>1, <1>2, <1>3, <1>4, <1>5, <1>6 DEF handleEvent

LEMMA NetStep == NetTypeOK /\ [NetNext]_netVars => [Next]_vars
<1> SUFFICES ASSUME NetTypeOK, [NetNext]_netVars PROVE [Next]_vars
  OBVIOUS
<1>1. ASSUME NEW n \in Node, restart(n) PROVE [Next]_vars
  BY <1>1 DEF restart, Next
<1>2. ASSUME NEW n \in Node, NEW t \in Tx, onOracleEvent(n, t) \/ expireTx(n, t)
      PROVE  [Next]_vars
  BY <1>2 DEF onOracleEvent, expireTx
<1>3. CASE UNCHANGED netVars
  BY <1>3 DEF netVars
<1> QED BY <1>1, <1>2, <1>3, RoundStep, EventStep DEF NetNext

-----------------------------------------------------------------------------
(* The type invariant of the network.                                      *)

NodeTypeOK ==
    /\ header \in [Block -> [parent : Hash, height : Nat, data : SUBSET Tx]]
    /\ chain \in [Node -> Seq(Block)]
    /\ mempool \in [Node -> SUBSET Tx]
    /\ seen \in [Node -> SUBSET Tx]
    /\ latestBlockHeader \in [Node -> Hash]
    /\ heightUpdated \in [Node -> Seq(Block)]
    /\ round \in [Node -> Round]
    /\ checked \in [Node -> SUBSET Block]
    /\ announced \in [Block -> SUBSET Node]
    /\ submits \in [Block -> Nat]

LEMMA AppendTypes ==
    ASSUME NodeTypeOK, NEW n \in Node, NEW b \in Block, StoreBlock(n, b)
    PROVE  chain' \in [Node -> Seq(Block)] /\ heightUpdated' \in [Node -> Seq(Block)]
<1>1. Append(chain[n], b) \in Seq(Block) /\ Append(heightUpdated[n], b) \in Seq(Block)
  BY DEF NodeTypeOK
<1> QED BY <1>1 DEF NodeTypeOK, StoreBlock

LEMMA RoundTypes ==
    ASSUME NodeTypeOK, NEW n \in Node, onNewBeaconEntry(n)
    PROVE  NodeTypeOK'
<1> USE DEF NodeTypeOK
<1>1. [at |-> "mine"] \in Round /\ Idle \in Round
      /\ \A b \in Block : [at |-> "prune", block |-> b] \in Round
                         /\ [at |-> "propose", block |-> b] \in Round
  BY DEF Round, Idle
<1>2. CASE selectBlock(n)
  BY <1>1, <1>2, ZenonT(60) DEF selectBlock, GetAllBlocksWithCommit
<1>3. CASE noAcceptedBlocks(n) \/ skipMining(n)
  BY <1>1, <1>3, ZenonT(60) DEF noAcceptedBlocks, skipMining
<1>4. CASE emptyRound(n)
  BY <1>4 DEF emptyRound, netVars, nodeVars
<1>5. CASE pruneAndDeleteTxs(n)
  BY ZenonT(60), <1>5, RoundBlock DEF pruneAndDeleteTxs
<1>6. CASE storeSelected(n)
  <2>1. round[n].at = "store"
        /\ UNCHANGED <<header, mempool, seen, latestBlockHeader, checked, announced, submits>>
    BY <1>6 DEF storeSelected
  <2>2. round[n].block \in Block /\ [round[n] EXCEPT !.at = "announce"] \in Round
    BY ZenonT(60), <2>1, RoundBlock
  <2>3. \/ round' = [round EXCEPT ![n].at = "announce"]
        \/ round' = [round EXCEPT ![n] = Idle]
    BY <1>6 DEF storeSelected
  <2>4. round' \in [Node -> Round]
    BY ZenonT(60), <1>1, <2>2, <2>3
  <2>5. UNCHANGED <<chain, heightUpdated>> \/ StoreBlock(n, round[n].block)
    BY <1>6 DEF storeSelected
  <2>6. chain' \in [Node -> Seq(Block)] /\ heightUpdated' \in [Node -> Seq(Block)]
    BY ZenonT(60), <2>2, <2>5, AppendTypes
  <2> QED BY <2>1, <2>4, <2>6
<1>7. CASE announceAndSubmit(n)
  <2> DEFINE b == round[n].block
  <2>1. /\ round[n].at = "announce"
        /\ announced' = [announced EXCEPT ![b] = @ \cup {n}]
        /\ submits' = [submits EXCEPT ![b] = @ + (IF Proposer[b] = n THEN 1 ELSE 0)]
        /\ round' = [round EXCEPT ![n] = [at |-> "mine"]]
        /\ UNCHANGED <<header, chain, mempool, seen, latestBlockHeader, heightUpdated, checked>>
    BY <1>7 DEF announceAndSubmit
  <2>2. b \in Block
    BY ZenonT(60), <2>1, RoundBlock
  <2>3. announced' \in [Block -> SUBSET Node]
    BY <2>1, <2>2
  <2>4. submits' \in [Block -> Nat]
    BY <2>1, <2>2
  <2> QED BY <1>1, <2>1, <2>3, <2>4
<1>8. CASE MineBlock(n)
  <2>1. PICK b \in Unmined(n) :
            /\ header' = [header EXCEPT ![b] = [parent |-> latestBlockHeader[n],
                                              height |-> Height(latestBlockHeader[n]) + 1,
                                              data   |-> mempool[n]]]
            /\ round' = [round EXCEPT ![n] = [at |-> "propose", block |-> b]]
    BY ZenonT(60), <1>8 DEF MineBlock
  <2>2. b \in Block
    BY DEF Unmined
  <2>3. Height(latestBlockHeader[n]) \in Nat
    BY DEF Height, Hash
  <2>4. header' \in [Block -> [parent : Hash, height : Nat, data : SUBSET Tx]]
    BY <2>1, <2>2, <2>3
  <2> QED BY ZenonT(60), <1>1, <1>8, <2>1, <2>2, <2>4 DEF MineBlock
<1>9. CASE proposeMined(n)
  BY <1>1, <1>9 DEF proposeMined
<1> QED BY ZenonT(60), <1>2, <1>3, <1>4, <1>5, <1>6, <1>7, <1>8, <1>9 DEF onNewBeaconEntry

LEMMA NetTypes == NodeTypeOK /\ [NetNext]_netVars => NodeTypeOK'
<1> SUFFICES ASSUME NodeTypeOK, [NetNext]_netVars PROVE NodeTypeOK'
  OBVIOUS
<1>1. ASSUME NEW n \in Node, onLatestBlockHeightUpdated(n) PROVE NodeTypeOK'
  <2>1. Head(heightUpdated[n]) \in Block /\ Tail(heightUpdated[n]) \in Seq(Block)
    BY <1>1 DEF onLatestBlockHeightUpdated, NodeTypeOK
  <2> QED BY <1>1, <2>1 DEF onLatestBlockHeightUpdated, NodeTypeOK, Hash
<1>2. ASSUME checked' \in [Node -> SUBSET Block],
             UNCHANGED <<header, chain, mempool, seen, latestBlockHeader, heightUpdated, round,
                         announced, submits>>
      PROVE  NodeTypeOK'
  BY <1>2 DEF NodeTypeOK
<1>3. ASSUME NEW n \in Node, NEW b \in Block, validatePrePrepare(n, b) \/ logPrePrepare(n, b)
      PROVE  NodeTypeOK'
  <2>1. \/ checked' = [checked EXCEPT ![n] = @ \cup {b}]
        \/ checked' = [checked EXCEPT ![n] = @ \ {b}]
    BY <1>3 DEF validatePrePrepare, logPrePrepare
  <2>2. checked[n] \cup {b} \in SUBSET Block /\ checked[n] \ {b} \in SUBSET Block
    BY DEF NodeTypeOK
  <2>3. checked' \in [Node -> SUBSET Block]
    BY ZenonT(60), <2>1, <2>2 DEF NodeTypeOK
  <2> QED BY <1>2, <1>3, <2>3 DEF validatePrePrepare, logPrePrepare
<1>4. CASE UNCHANGED nodeVars
  BY <1>4 DEF nodeVars, NodeTypeOK
<1>5. ASSUME NEW n \in Node, NEW b \in Block, onNewBlock(n, b) PROVE NodeTypeOK'
  BY <1>5, AppendTypes DEF onNewBlock, NodeTypeOK
<1>6. ASSUME NEW n \in Node, handleEvent(n) PROVE NodeTypeOK'
  BY <1>1, <1>3, <1>4, <1>5, <1>6 DEF handleEvent, onVote, onState, dropPrePrepare
<1>8. ASSUME NEW n \in Node, NEW t \in Tx, onOracleEvent(n, t) \/ expireTx(n, t)
      PROVE  NodeTypeOK'
  <2>1. /\ mempool[n] \cup {t} \in SUBSET Tx /\ mempool[n] \ {t} \in SUBSET Tx
        /\ seen[n] \cup {t} \in SUBSET Tx
    BY DEF NodeTypeOK
  <2>2. CASE onOracleEvent(n, t)
    BY <2>1, <2>2 DEF onOracleEvent, NodeTypeOK
  <2>3. CASE expireTx(n, t)
    BY <2>1, <2>3 DEF expireTx, NodeTypeOK
  <2> QED BY <1>8, <2>2, <2>3
<1>7. ASSUME NEW n \in Node, restart(n) PROVE NodeTypeOK'
  <2>1. LatestBlock(n) \in Hash /\ Idle \in Round
    BY DEF LatestBlock, Hash, NodeTypeOK, Round, Idle
  <2> QED BY <1>7, <2>1 DEF restart, NodeTypeOK
<1> QED BY <1>4, <1>6, <1>7, <1>8, RoundTypes DEF NetNext, netVars

(* The voting core and the state around it keep their types.               *)
THEOREM NetTypeCorrect == NetSpec => []NetTypeOK
<1>1. NetTypeOK <=> TypeOK /\ NodeTypeOK
  BY DEF NetTypeOK, NodeTypeOK
<1>2. NetInit => NetTypeOK
  <2> SUFFICES ASSUME NetInit PROVE NodeTypeOK
    BY <1>1, InitTypeOK DEF NetInit
  <2>1. Idle \in Round /\ NotMined \in [parent : Hash, height : Nat, data : SUBSET Tx]
    BY DEF Round, Idle, NotMined, Hash
  <2> QED BY <2>1 DEF NetInit, NodeTypeOK, Hash
<1>3. NetTypeOK /\ [NetNext]_netVars => NetTypeOK'
  <2> SUFFICES ASSUME NetTypeOK, [NetNext]_netVars PROVE TypeOK' /\ NodeTypeOK'
    BY DEF NetTypeOK, NodeTypeOK
  <2>1. TypeOK'
    BY <1>1, NetStep, TypeStep
  <2>2. NodeTypeOK'
    BY <1>1, NetTypes
  <2> QED BY <2>1, <2>2
<1> QED BY <1>2, <1>3, PTL DEF NetSpec

-----------------------------------------------------------------------------
(* Whatever rounds, chains, mempools and faults do, the network implements *)
(* the specification of its voting core.                                   *)
THEOREM NetworkImplementsVoting == NetSpec => ImplementsVoting
<1>1. NetInit => Init
  BY DEF NetInit
<1> QED BY <1>1, NetStep, NetTypeCorrect, PTL DEF NetSpec, ImplementsVoting, Spec

(* So in the network, too, a node commits a block only with the COMMITs of *)
(* minApprovals other nodes behind it.                                     *)
THEOREM NetworkCommitCertified == NetSpec => []CommitCertificate
BY NetworkImplementsVoting, CommitCertified DEF ImplementsVoting

-----------------------------------------------------------------------------
(* Which steps move the headers, the chains and what was announced.        *)

LEMMA HeaderMoves ==
    ASSUME [NetNext]_netVars
    PROVE  header' = header \/ \E n \in Node : MineBlock(n)
<1>1. ASSUME NEW n \in Node, onNewBeaconEntry(n), ~MineBlock(n) PROVE header' = header
  BY ZenonT(60), <1>1 DEF onNewBeaconEntry, selectBlock, noAcceptedBlocks, emptyRound, netVars,
        nodeVars,
        pruneAndDeleteTxs, storeSelected, announceAndSubmit, skipMining, proposeMined
<1>2. ASSUME NEW n \in Node, handleEvent(n) PROVE header' = header
  BY ZenonT(60), <1>2 DEF handleEvent, onLatestBlockHeightUpdated, validatePrePrepare,
        logPrePrepare,
        dropPrePrepare, onNewBlock, onVote, onState, nodeVars
<1>3. ASSUME NEW n \in Node, NEW t \in Tx, onOracleEvent(n, t) \/ expireTx(n, t)
      PROVE  header' = header
  BY <1>3 DEF onOracleEvent, expireTx
<1>4. ASSUME NEW n \in Node, restart(n) PROVE header' = header
  BY <1>4 DEF restart
<1>5. CASE UNCHANGED netVars
  BY <1>5 DEF netVars, nodeVars
<1> QED BY ZenonT(60), <1>1, <1>2, <1>3, <1>4, <1>5 DEF NetNext

(* A stored block is a valid one that a round selected or that was         *)
(* announced.                                                              *)
Stores(n, b) ==
    /\ StoreBlock(n, b) /\ ValidateBlock(n, b) /\ ~HasBlock(n, b)
    /\ (round[n].at = "store" /\ round[n].block = b) \/ announced[b] # {}

LEMMA LatestMoves ==
    ASSUME NetTypeOK, [NetNext]_netVars
    PROVE  \/ UNCHANGED <<chain, latestBlockHeader, heightUpdated>>
           \/ chain' = chain /\ \E n \in Node : onLatestBlockHeightUpdated(n) \/ restart(n)
           \/ \E n \in Node, b \in Block : Stores(n, b) /\ UNCHANGED <<header, latestBlockHeader>>
<1> DEFINE P == \E n \in Node, b \in Block : Stores(n, b) /\ UNCHANGED <<header, latestBlockHeader>>
           Q == UNCHANGED <<chain, latestBlockHeader, heightUpdated>>
           R == chain' = chain /\ \E n \in Node : onLatestBlockHeightUpdated(n) \/ restart(n)
<1>1. ASSUME NEW n \in Node, storeSelected(n) PROVE P \/ Q
  <2>1. round[n].block \in Block
    BY ZenonT(60), <1>1, RoundBlock DEF storeSelected, NetTypeOK
  <2>2. Q \/ (Stores(n, round[n].block) /\ UNCHANGED <<header, latestBlockHeader>>)
    BY ZenonT(60), <1>1 DEF storeSelected, Stores
  <2> QED BY ZenonT(60), <2>1, <2>2
<1>2. ASSUME NEW n \in Node, NEW b \in Block, onNewBlock(n, b) PROVE P
  <2>1. Stores(n, b) /\ UNCHANGED <<header, latestBlockHeader>>
    BY ZenonT(60), <1>2 DEF onNewBlock, Stores
  <2> QED BY ZenonT(60), <2>1
<1>3. ASSUME NEW n \in Node, onNewBeaconEntry(n), ~storeSelected(n) PROVE Q
  BY ZenonT(60), <1>3 DEF onNewBeaconEntry, selectBlock, noAcceptedBlocks, emptyRound, netVars,
        nodeVars,
        pruneAndDeleteTxs, announceAndSubmit, MineBlock, skipMining, proposeMined
<1>4. ASSUME NEW n \in Node, onLatestBlockHeightUpdated(n) \/ restart(n) PROVE R
  BY ZenonT(60), <1>4 DEF onLatestBlockHeightUpdated, restart
<1>5. ASSUME NEW n \in Node, handleEvent(n), ~onLatestBlockHeightUpdated(n),
             ~\E b \in Block : onNewBlock(n, b)
      PROVE  Q
  BY ZenonT(60), <1>5 DEF handleEvent, validatePrePrepare, logPrePrepare,
        dropPrePrepare, onVote, onState, nodeVars
<1>6. ASSUME NEW n \in Node, NEW t \in Tx, onOracleEvent(n, t) \/ expireTx(n, t) PROVE Q
  BY ZenonT(60), <1>6 DEF onOracleEvent, expireTx
<1>7. ASSUME UNCHANGED netVars PROVE Q
  BY ZenonT(60), <1>7 DEF netVars, nodeVars
<1> HIDE DEF P, Q, R
<1>8. ASSUME NEW n \in Node, onNewBeaconEntry(n) \/ handleEvent(n) PROVE P \/ Q \/ R
  BY ZenonT(60), <1>1, <1>2, <1>3, <1>4, <1>5, <1>8
<1>9. P \/ Q \/ R
  BY ZenonT(60), <1>4, <1>6, <1>7, <1>8 DEF NetNext
<1> QED BY ZenonT(60), <1>9 DEF P, Q, R

LEMMA ChainMoves ==
    ASSUME NetTypeOK, [NetNext]_netVars
    PROVE  \/ chain' = chain
           \/ \E n \in Node, b \in Block : Stores(n, b) /\ header' = header
BY ZenonT(60), LatestMoves

(* The header of a mined block never changes.                              *)
LEMMA MineEffect ==
    ASSUME NetTypeOK, NEW n \in Node, MineBlock(n)
    PROVE  \E b \in Block :
              /\ Proposer[b] = n /\ ~Mined(b)
              /\ header'[b].parent = latestBlockHeader[n]
              /\ header'[b].height = Height(latestBlockHeader[n]) + 1
              /\ \A c \in Block \ {b} : header'[c] = header[c]
              /\ round' = [round EXCEPT ![n] = [at |-> "propose", block |-> b]]
              /\ Mined(b)'
<1>1. PICK b \in Unmined(n) :
          /\ header' = [header EXCEPT ![b] = [parent |-> latestBlockHeader[n],
                                            height |-> Height(latestBlockHeader[n]) + 1,
                                            data   |-> mempool[n]]]
          /\ round' = [round EXCEPT ![n] = [at |-> "propose", block |-> b]]
  BY ZenonT(60) DEF MineBlock
<1>2. b \in Block /\ Proposer[b] = n /\ ~Mined(b)
  BY DEF Unmined, Mined
<1>3. header \in [Block -> [parent : Hash, height : Nat, data : SUBSET Tx]] /\ latestBlockHeader[n] \in Hash
  BY DEF NetTypeOK
<1>4. Height(latestBlockHeader[n]) \in Nat
  BY <1>3 DEF Height, Hash
<1>5. /\ header'[b] = [parent |-> latestBlockHeader[n], height |-> Height(latestBlockHeader[n]) + 1,
                       data   |-> mempool[n]]
      /\ \A c \in Block \ {b} : header'[c] = header[c]
  BY <1>1, <1>2, <1>3
<1>6. header'[b].parent = latestBlockHeader[n] /\ header'[b].height = Height(latestBlockHeader[n]) + 1
  BY <1>5
<1>7. NotMined.height = 0
  BY DEF NotMined
<1>8. header'[b] # NotMined
  BY <1>4, <1>6, <1>7
<1> QED BY ZenonT(60), <1>1, <1>2, <1>5, <1>6, <1>8 DEF Mined

LEMMA MinedStable ==
    ASSUME NetTypeOK, [NetNext]_netVars, NEW c \in Block, Mined(c)
    PROVE  header'[c] = header[c] /\ Mined(c)'
<1>1. ASSUME NEW n \in Node, MineBlock(n) PROVE header'[c] = header[c]
  <2>1. PICK b \in Block : ~Mined(b) /\ \A d \in Block \ {b} : header'[d] = header[d]
    BY ZenonT(60), <1>1, MineEffect
  <2> QED BY ZenonT(60), <2>1
<1>2. header'[c] = header[c]
  BY ZenonT(60), <1>1, HeaderMoves
<1> QED BY ZenonT(60), <1>2 DEF Mined

(* Chains only grow.                                                       *)
LEMMA StoreEffect ==
    ASSUME NetTypeOK, NEW n \in Node, NEW b \in Block, StoreBlock(n, b)
    PROVE  /\ Len(chain[n]) \in Nat
           /\ Len(chain'[n]) = Len(chain[n]) + 1
           /\ chain'[n][Len(chain[n]) + 1] = b
           /\ \A i \in 1..Len(chain[n]) : chain'[n][i] = chain[n][i]
           /\ \A m \in Node : m # n => chain'[m] = chain[m]
<1>1. chain \in [Node -> Seq(Block)]
  BY DEF NetTypeOK
<1>2. chain[n] \in Seq(Block)
  BY <1>1
<1>3. chain'[n] = Append(chain[n], b) /\ \A m \in Node : m # n => chain'[m] = chain[m]
  BY <1>1 DEF StoreBlock
<1>4. /\ Len(Append(chain[n], b)) = Len(chain[n]) + 1
      /\ Append(chain[n], b)[Len(chain[n]) + 1] = b
      /\ \A i \in 1..Len(chain[n]) : Append(chain[n], b)[i] = chain[n][i]
      /\ Len(chain[n]) \in Nat
  BY <1>2
<1> QED BY ZenonT(60), <1>3, <1>4

LEMMA HeldAt ==
    ASSUME NEW n \in Node, NEW b, chain[n] \in Seq(Block)
    PROVE  HasBlock(n, b) <=> \E i \in 1..Len(chain[n]) : chain[n][i] = b
<1>1. DOMAIN chain[n] = 1..Len(chain[n])
  OBVIOUS
<1> QED BY ZenonT(60), <1>1 DEF HasBlock, Range

LEMMA ChainGrows ==
    ASSUME NetTypeOK, NetTypeOK', [NetNext]_netVars, NEW n \in Node
    PROVE  /\ \A i \in 1..Len(chain[n]) : i \in 1..Len(chain'[n]) /\ chain'[n][i] = chain[n][i]
           /\ \A b : HasBlock(n, b) => HasBlock(n, b)'
<1>1. ASSUME NEW m \in Node, NEW b \in Block, StoreBlock(m, b)
      PROVE  \A i \in 1..Len(chain[n]) : i \in 1..Len(chain'[n]) /\ chain'[n][i] = chain[n][i]
  <2>1. CASE n = m
    BY <1>1, <2>1, StoreEffect
  <2>2. CASE n # m
    BY ZenonT(60), <1>1, <2>2, StoreEffect
  <2> QED BY <2>1, <2>2
<1>2. \A i \in 1..Len(chain[n]) : i \in 1..Len(chain'[n]) /\ chain'[n][i] = chain[n][i]
  BY ZenonT(60), <1>1, ChainMoves DEF Stores
<1>3. chain[n] \in Seq(Block) /\ chain'[n] \in Seq(Block)
  BY DEF NetTypeOK
<1>4. DOMAIN chain[n] = 1..Len(chain[n]) /\ DOMAIN chain'[n] = 1..Len(chain'[n])
  BY <1>3
<1> QED BY ZenonT(60), <1>2, <1>4 DEF HasBlock, Range

-----------------------------------------------------------------------------
(* The rounds: what a step makes of the round of n.                        *)

LEMMA RoundFields ==
    ASSUME NEW r \in Round, r.at \notin {"idle", "mine"}, NEW a \in {"store", "announce"}
    PROVE  [r EXCEPT !.at = a].at = a /\ [r EXCEPT !.at = a].block = r.block
BY DEF Round

Rests(n) == round'[n].at \in {"idle", "mine"}
Mines(n) == round'[n].at = "propose" /\ MineBlock(n)
Selects(n) ==
    /\ round'[n].at = "prune" /\ round'[n].block \in GetAllBlocksWithCommit(n)
    /\ UNCHANGED <<vars, submits>>
Prunes(n) ==
    /\ round[n].at = "prune" /\ round'[n].at = "store" /\ round'[n].block = round[n].block
    /\ Prune(n)
Keeps(n) ==
    /\ round[n].at = "store" /\ round'[n].at = "announce" /\ round'[n].block = round[n].block
    /\ HasBlock(n, round[n].block)'

LEMMA RoundMoves ==
    ASSUME NetTypeOK, NetTypeOK', [NetNext]_netVars, NEW n \in Node
    PROVE  round'[n] = round[n] \/ Rests(n) \/ Mines(n) \/ Selects(n) \/ Prunes(n) \/ Keeps(n)
<1>1. round \in [Node -> Round] /\ chain \in [Node -> Seq(Block)] /\ chain' \in [Node -> Seq(Block)]
  BY DEF NetTypeOK
<1>2. ASSUME NEW m \in Node, NEW r, round' = [round EXCEPT ![m] = r]
      PROVE  round'[m] = r /\ (n # m => round'[n] = round[n])
  BY <1>1, <1>2
<1>3. CASE selectBlock(n)
  <2>1. PICK b \in GetAllBlocksWithCommit(n) : round' = [round EXCEPT ![n] = [at |-> "prune", block |-> b]]
    BY ZenonT(60), <1>3 DEF selectBlock
  <2>2. round'[n] = [at |-> "prune", block |-> b]
    BY ZenonT(60), <1>2, <2>1
  <2>3. round'[n].at = "prune" /\ round'[n].block = b
    BY <2>2
  <2> QED BY ZenonT(60), <1>3, <2>1, <2>3 DEF selectBlock, Selects
<1>4. CASE noAcceptedBlocks(n) \/ skipMining(n) \/ proposeMined(n) \/ announceAndSubmit(n) \/ restart(n)
  <2>1. \/ round' = [round EXCEPT ![n] = [at |-> "mine"]]
        \/ round' = [round EXCEPT ![n] = [at |-> "idle"]]
    BY ZenonT(60), <1>4 DEF noAcceptedBlocks, skipMining, proposeMined, announceAndSubmit,
          restart, Idle
  <2>2. round'[n] = [at |-> "mine"] \/ round'[n] = [at |-> "idle"]
    BY ZenonT(60), <1>2, <2>1
  <2> QED BY <2>2 DEF Rests
<1>5. CASE pruneAndDeleteTxs(n)
  <2>1. /\ round[n].at = "prune" /\ Prune(n)
        /\ round' = [round EXCEPT ![n] = [round[n] EXCEPT !.at = "store"]]
    BY ZenonT(60), <1>5 DEF pruneAndDeleteTxs
  <2>2. round'[n] = [round[n] EXCEPT !.at = "store"] /\ round[n] \in Round
    BY ZenonT(60), <1>1, <1>2, <2>1
  <2>3. round'[n].at = "store" /\ round'[n].block = round[n].block
    BY ZenonT(60), <2>1, <2>2, RoundFields
  <2> QED BY ZenonT(60), <2>1, <2>3 DEF Prunes
<1>6. CASE storeSelected(n)
  <2>1. CASE round' = [round EXCEPT ![n] = Idle]
    BY ZenonT(60), <1>2, <2>1 DEF Rests, Idle
  <2>2. CASE /\ round' = [round EXCEPT ![n] = [round[n] EXCEPT !.at = "announce"]]
             /\ (chain' = chain /\ HasBlock(n, round[n].block)) \/ StoreBlock(n, round[n].block)
    <3>1. round'[n] = [round[n] EXCEPT !.at = "announce"] /\ round[n] \in Round /\ round[n].at = "store"
      BY ZenonT(60), <1>1, <1>2, <1>6, <2>2 DEF storeSelected
    <3>2. round'[n].at = "announce" /\ round'[n].block = round[n].block
      BY ZenonT(60), <3>1, RoundFields
    <3>3. CASE StoreBlock(n, round[n].block)
      <4>1. round[n].block \in Block
        BY ZenonT(60), <3>1, RoundBlock
      <4>2. Len(chain'[n]) = Len(chain[n]) + 1 /\ chain'[n][Len(chain'[n])] = round[n].block /\ Len(chain[n]) \in Nat
        BY <3>3, <4>1, StoreEffect
      <4>3. DOMAIN chain'[n] = 1..Len(chain'[n]) /\ Len(chain'[n]) \in 1..Len(chain'[n])
        BY <1>1, <4>2
      <4>4. HasBlock(n, round[n].block)'
        BY ZenonT(60), <3>2, <4>2, <4>3 DEF HasBlock, Range
      <4> QED BY ZenonT(60), <3>1, <3>2, <4>4 DEF Keeps
    <3>4. CASE chain' = chain /\ HasBlock(n, round[n].block)
      <4>1. HasBlock(n, round[n].block)'
        BY ZenonT(60), <3>2, <3>4 DEF HasBlock
      <4> QED BY ZenonT(60), <3>1, <3>2, <4>1 DEF Keeps
    <3> QED BY ZenonT(60), <2>2, <3>3, <3>4
  <2> QED BY ZenonT(60), <1>6, <2>1, <2>2 DEF storeSelected
<1>7. CASE MineBlock(n)
  <2>1. PICK b \in Block : round' = [round EXCEPT ![n] = [at |-> "propose", block |-> b]]
    BY ZenonT(60), <1>7, MineEffect
  <2>2. round'[n] = [at |-> "propose", block |-> b]
    BY ZenonT(60), <1>2, <2>1
  <2>3. round'[n].at = "propose"
    BY <2>2
  <2> QED BY ZenonT(60), <1>7, <2>3 DEF Mines
<1>8. CASE onNewBeaconEntry(n) \/ restart(n)
  <2>1. CASE emptyRound(n)
    BY ZenonT(60), <2>1 DEF emptyRound, netVars, nodeVars
  <2> QED BY ZenonT(60), <1>3, <1>4, <1>5, <1>6, <1>7, <1>8, <2>1 DEF onNewBeaconEntry
<1>9. ASSUME NEW m \in Node, onNewBeaconEntry(m) \/ restart(m), m # n PROVE round'[n] = round[n]
  <2>1. round' = round \/ \E r : round' = [round EXCEPT ![m] = r]
    BY ZenonT(60), <1>9 DEF onNewBeaconEntry, selectBlock, noAcceptedBlocks, emptyRound,
          netVars, nodeVars,
        pruneAndDeleteTxs, storeSelected, announceAndSubmit, MineBlock, skipMining,
        proposeMined, restart
  <2> QED BY ZenonT(60), <1>2, <1>9, <2>1
<1>10. ASSUME NEW m \in Node, handleEvent(m) PROVE round' = round
  BY ZenonT(60), <1>10 DEF handleEvent, onLatestBlockHeightUpdated, validatePrePrepare,
        logPrePrepare,
        dropPrePrepare, onNewBlock, onVote, onState, nodeVars
<1>11. ASSUME NEW m \in Node, NEW t \in Tx, onOracleEvent(m, t) \/ expireTx(m, t)
       PROVE  round' = round
  BY <1>11 DEF onOracleEvent, expireTx
<1>12. CASE UNCHANGED netVars
  BY <1>12 DEF netVars, nodeVars
<1> QED BY ZenonT(60), <1>8, <1>9, <1>10, <1>11, <1>12 DEF NetNext

-----------------------------------------------------------------------------
(* What was voted stays voted.                                             *)

LEMMA NetSentGrows ==
    ASSUME NetTypeOK, [NetNext]_netVars, NEW b \in Block, NEW t \in MsgType
    PROVE  sent[b][t] \subseteq sent'[b][t]
<1>1. TypeOK /\ [Next]_vars
  BY ZenonT(60), NetStep DEF NetTypeOK
<1> QED BY ZenonT(60), <1>1, SentGrows

LEMMA BackedStable ==
    ASSUME NetTypeOK, NetTypeOK', [NetNext]_netVars, NEW b \in Block, Backed(b)
    PROVE  Backed(b)'
<1> DEFINE S == sent[b]["COMMIT"]
           T == sent'[b]["COMMIT"]
<1>1. S \in SUBSET Node /\ T \in SUBSET Node
  BY DEF NetTypeOK, TypeOK, Log, MsgType
<1>2. S \subseteq T
  BY NetSentGrows DEF MsgType
<1> HIDE DEF S, T
<1>3. Cardinality(S) \in Nat /\ Cardinality(T) \in Nat /\ Cardinality(S) <= Cardinality(T)
  BY ZenonT(60), <1>1, <1>2, CardinalityMonotone
<1>4. Mined(b)' /\ Cardinality(S) >= minApprovals
  BY ZenonT(60), MinedStable DEF Backed, S
<1>5. Cardinality(T) >= minApprovals
  BY <1>3, <1>4, ApprovalsAssumption
<1> QED BY ZenonT(60), <1>4, <1>5 DEF Backed, T

(* A block that a node has committed is backed: its own log says so.       *)
LEMMA CommitedBacked ==
    ASSUME NetTypeOK, Evidence, HeadersSound, NEW n \in Node, NEW b \in Block,
           cinfo[n][b].state = Commited
    PROVE  Backed(b) /\ sent[b]["PREPREPARE"] = {Proposer[b]} /\ cinfo[n][b].hasBlock
<1> DEFINE ci == cinfo[n][b]
           S == sent[b]["COMMIT"]
<1>1. TypeOK /\ ci \in Info /\ S \in SUBSET Node /\ ci.log["COMMIT"] \in SUBSET Node
  <2>1. TypeOK
    BY ZenonT(60) DEF NetTypeOK
  <2>2. ci \in Info /\ sent \in [Block -> [MsgType -> SUBSET Node]]
    BY <2>1 DEF TypeOK, Info, Log
  <2>3. "COMMIT" \in MsgType
    BY DEF MsgType
  <2> HIDE DEF ci
  <2>4. S \in SUBSET Node
    BY <2>2, <2>3
  <2>5. ci.log \in [MsgType -> SUBSET Node]
    BY <2>2 DEF Info, Log
  <2>6. ci.log["COMMIT"] \in SUBSET Node
    BY <2>3, <2>5
  <2> QED BY ZenonT(60), <2>1, <2>2, <2>4, <2>6
<1>2. ci.hasBlock /\ ci.log["PREPREPARE"] # {} /\ Cardinality(ci.log["COMMIT"]) >= minApprovals
  BY DEF Evidence, StateSound, Unknown, Commited
<1>3. /\ ci.log["COMMIT"] \subseteq S
      /\ ci.log["PREPREPARE"] \subseteq sent[b]["PREPREPARE"]
  BY DEF Evidence, LogSound, MsgType
<1>4. sent[b]["PREPREPARE"] = {Proposer[b]}
  BY <1>2, <1>3 DEF Evidence, RolesSound
<1>5. Mined(b)
  BY ZenonT(60), <1>4 DEF HeadersSound
<1> HIDE DEF ci, S
<1>6. Cardinality(S) >= minApprovals
  <2>1. /\ Cardinality(ci.log["COMMIT"]) \in Nat /\ Cardinality(S) \in Nat
        /\ Cardinality(ci.log["COMMIT"]) <= Cardinality(S)
    BY ZenonT(60), <1>1, <1>3, CardinalityMonotone
  <2> QED BY <1>2, <2>1, ApprovalsAssumption
<1> QED BY ZenonT(60), <1>2, <1>4, <1>5, <1>6 DEF Backed, ci, S

LEMMA AnnounceMoves ==
    ASSUME NetTypeOK, [NetNext]_netVars, NEW b \in Block
    PROVE  \/ announced'[b] = announced[b] /\ submits'[b] = submits[b]
           \/ \E n \in Node :
                 /\ announceAndSubmit(n) /\ round[n].at = "announce" /\ round[n].block = b
                 /\ submits'[b] = submits[b] + (IF Proposer[b] = n THEN 1 ELSE 0)
<1>1. announced \in [Block -> SUBSET Node] /\ submits \in [Block -> Nat]
  BY DEF NetTypeOK
<1>2. ASSUME NEW n \in Node, announceAndSubmit(n)
      PROVE  \/ announced'[b] = announced[b] /\ submits'[b] = submits[b]
             \/ /\ round[n].at = "announce" /\ round[n].block = b
                /\ submits'[b] = submits[b] + (IF Proposer[b] = n THEN 1 ELSE 0)
  BY <1>1, <1>2 DEF announceAndSubmit
<1>3. ASSUME NEW n \in Node, onNewBeaconEntry(n), ~announceAndSubmit(n)
      PROVE  announced' = announced /\ submits' = submits
  BY ZenonT(60), <1>3 DEF onNewBeaconEntry, selectBlock, noAcceptedBlocks, emptyRound, netVars,
        nodeVars,
        pruneAndDeleteTxs, storeSelected, MineBlock, skipMining, proposeMined
<1>4. ASSUME NEW n \in Node, handleEvent(n) PROVE announced' = announced /\ submits' = submits
  BY ZenonT(60), <1>4 DEF handleEvent, onLatestBlockHeightUpdated, validatePrePrepare,
        logPrePrepare,
        dropPrePrepare, onNewBlock, onVote, onState, nodeVars
<1>5. ASSUME NEW n \in Node, NEW t \in Tx, onOracleEvent(n, t) \/ expireTx(n, t)
      PROVE  announced' = announced /\ submits' = submits
  BY <1>5 DEF onOracleEvent, expireTx
<1>6. ASSUME NEW n \in Node, restart(n) PROVE announced' = announced /\ submits' = submits
  BY <1>6 DEF restart
<1>7. ASSUME UNCHANGED netVars PROVE announced' = announced /\ submits' = submits
  BY <1>7 DEF netVars, nodeVars
<1>8. (announced' = announced /\ submits' = submits) \/ \E n \in Node : announceAndSubmit(n)
  BY ZenonT(60), <1>3, <1>4, <1>5, <1>6, <1>7 DEF NetNext
<1> QED BY ZenonT(60), <1>2, <1>8

LEMMA VotesBackStep ==
    ASSUME NetTypeOK, NetTypeOK', Evidence, HeadersSound, VotesBack, [NetNext]_netVars
    PROVE  VotesBack'
<1>1. ASSUME NEW n \in Node, NEW c \in Block, round'[n].at \in Working, round'[n].block = c
      PROVE  Backed(c)'
  <2>1. round[n] \in Round
    BY DEF NetTypeOK
  <2>2. CASE round[n].at \in Working /\ round[n].block = c
    BY ZenonT(60), <2>2, BackedStable DEF VotesBack
  <2>3. CASE Selects(n)
    <3>1. cinfo[n][c].state = Commited
      BY ZenonT(60), <1>1, <2>3 DEF Selects, GetAllBlocksWithCommit
    <3> QED BY ZenonT(60), <3>1, CommitedBacked, BackedStable
  <2>4. CASE round'[n] = round[n] \/ Prunes(n) \/ Keeps(n)
    BY ZenonT(60), <1>1, <2>2, <2>4 DEF Prunes, Keeps, Working
  <2>5. ~Rests(n) /\ ~Mines(n)
    BY <1>1 DEF Rests, Mines, Working
  <2> QED BY ZenonT(60), <2>3, <2>4, <2>5, RoundMoves
<1>2. ASSUME NEW b \in Block, announced'[b] # {} PROVE Backed(b)'
  <2>1. CASE announced[b] # {}
    BY ZenonT(60), <2>1, BackedStable DEF VotesBack
  <2>2. ASSUME NEW n \in Node, round[n].at = "announce", round[n].block = b PROVE Backed(b)'
    BY ZenonT(60), <2>2, BackedStable DEF VotesBack, Working
  <2> QED BY ZenonT(60), <1>2, <2>1, <2>2, AnnounceMoves
<1>3. ASSUME NEW n \in Node, NEW i \in 1..Len(chain'[n]), NEW c \in Block, chain'[n][i] = c
      PROVE  Backed(c)'
  <2>1. CASE i \in 1..Len(chain[n])
    <3>1. chain'[n][i] = chain[n][i] /\ Backed(chain[n][i])
      BY ZenonT(60), <2>1, ChainGrows DEF VotesBack
    <3>2. Backed(c)
      BY ZenonT(60), <1>3, <3>1
    <3> QED BY ZenonT(60), <3>2, BackedStable
  <2>2. ASSUME NEW b \in Block, Stores(n, b), i \notin 1..Len(chain[n]) PROVE Backed(c)'
    <3>1. Backed(b)
      BY ZenonT(60), <2>2 DEF Stores, VotesBack, Working
    <3>2. c = b
      BY <1>3, <2>2, StoreEffect DEF Stores
    <3> QED BY ZenonT(60), <3>1, <3>2, BackedStable
  <2>3. ASSUME NEW m \in Node, NEW b \in Block, Stores(m, b), m # n PROVE i \in 1..Len(chain[n])
    BY ZenonT(60), <2>3, StoreEffect DEF Stores
  <2>4. ASSUME chain' = chain PROVE i \in 1..Len(chain[n])
    BY <2>4
  <2> QED BY ZenonT(60), <2>1, <2>2, <2>3, <2>4, ChainMoves
<1>4. ASSUME NEW n \in Node, round'[n].at \in Working PROVE round'[n].block \in Block
  <2>1. round'[n] \in Round
    BY DEF NetTypeOK
  <2> QED BY ZenonT(60), <1>4, <2>1, RoundBlock DEF Working
<1>5. ASSUME NEW n \in Node, NEW i \in 1..Len(chain'[n]) PROVE chain'[n][i] \in Block
  <2>1. chain'[n] \in Seq(Block)
    BY DEF NetTypeOK
  <2> QED BY <2>1
<1> QED BY ZenonT(60), <1>1, <1>2, <1>3, <1>4, <1>5 DEF VotesBack, Backed, Mined

-----------------------------------------------------------------------------
(* The headers.                                                            *)

LEMMA KnownStable ==
    ASSUME NetTypeOK, [NetNext]_netVars, NEW h \in Hash, Known(h)
    PROVE  Known(h)' /\ Height(h)' = Height(h)
<1>1. CASE h = Genesis
  BY <1>1 DEF Known, Height
<1>2. CASE h \in Block /\ Mined(h)
  <2>1. header'[h] = header[h] /\ Mined(h)'
    BY ZenonT(60), <1>2, MinedStable
  <2> QED BY ZenonT(60), <2>1 DEF Known, Height
<1> QED BY ZenonT(60), <1>1, <1>2 DEF Known, Hash

LEMMA BroadcastEffect ==
    ASSUME NetTypeOK, NEW n \in Node, NEW c \in Block, NEW u \in MsgType, Broadcast(n, c, u),
           NEW b \in Block, NEW t \in MsgType
    PROVE  \/ sent'[b][t] = sent[b][t]
           \/ b = c /\ t = u /\ sent'[b][t] = sent[b][t] \cup {n}
<1>1. sent \in [Block -> [MsgType -> SUBSET Node]]
  BY DEF NetTypeOK, TypeOK, Log
<1>2. sent' = [sent EXCEPT ![c][u] = @ \cup {n}]
  BY ZenonT(60) DEF Broadcast
<1> QED BY <1>1, <1>2

(* Only the round that mined a block proposes it, and PREPAREs come from   *)
(* pending events.                                                         *)
LEMMA SentMoves ==
    ASSUME NetTypeOK, [NetNext]_netVars, NEW b \in Block
    PROVE  /\ \/ sent'[b]["PREPREPARE"] = sent[b]["PREPREPARE"]
              \/ \E n \in Node : round[n].at = "propose" /\ round[n].block = b
           /\ \A k \in sent'[b]["PREPARE"] :
                 \/ k \in sent[b]["PREPARE"]
                 \/ k \in Node /\ Proposer[b] # k /\ <<b, PrePrepared>> \in pending[k]
<1> DEFINE A == \/ sent'[b]["PREPREPARE"] = sent[b]["PREPREPARE"]
                \/ \E n \in Node : round[n].at = "propose" /\ round[n].block = b
           B == \A k \in sent'[b]["PREPARE"] :
                   \/ k \in sent[b]["PREPARE"]
                   \/ k \in Node /\ Proposer[b] # k /\ <<b, PrePrepared>> \in pending[k]
<1>1. "PREPREPARE" \in MsgType /\ "PREPARE" \in MsgType /\ "COMMIT" \in MsgType
  BY DEF MsgType
<1>2. ASSUME sent' = sent PROVE A /\ B
  BY <1>2
<1>3. ASSUME NEW n \in Node, proposeMined(n) PROVE A /\ B
  <2>1. round[n].at = "propose" /\ round[n].block \in Block
    BY ZenonT(60), <1>3, RoundBlock DEF proposeMined, NetTypeOK
  <2>2. PICK c \in Block : c = round[n].block
    BY <2>1
  <2>3. Broadcast(n, c, "PREPREPARE")
    BY ZenonT(60), <1>3, <2>2 DEF proposeMined, propose
  <2>4. A
    <3>1. sent'[b]["PREPREPARE"] = sent[b]["PREPREPARE"] \/ b = c
      BY <1>1, <2>3, BroadcastEffect
    <3> QED BY ZenonT(60), <2>1, <2>2, <3>1
  <2>5. sent'[b]["PREPARE"] = sent[b]["PREPARE"]
    <3>1. "PREPARE" # "PREPREPARE"
      OBVIOUS
    <3> QED BY <1>1, <2>3, <3>1, BroadcastEffect
  <2> QED BY ZenonT(60), <2>4, <2>5
<1>4. ASSUME NEW n \in Node, NEW c \in Block, NEW s \in {PrePrepared, Prepared}, onState(n, c, s)
      PROVE  A /\ B
  <2>1. \/ s = PrePrepared /\ Proposer[c] # n /\ Broadcast(n, c, "PREPARE")
        \/ sent' = sent
        \/ Broadcast(n, c, "COMMIT")
    BY ZenonT(60), <1>4 DEF onState, onNewState
  <2>2. CASE Broadcast(n, c, "COMMIT")
    <3>1. sent'[b]["PREPARE"] = sent[b]["PREPARE"] /\ sent'[b]["PREPREPARE"] = sent[b]["PREPREPARE"]
      BY <1>1, <2>2, BroadcastEffect
    <3> QED BY ZenonT(60), <3>1
  <2>3. CASE s = PrePrepared /\ Proposer[c] # n /\ Broadcast(n, c, "PREPARE")
    <3>1. sent'[b]["PREPREPARE"] = sent[b]["PREPREPARE"]
      BY <1>1, <2>3, BroadcastEffect
    <3>2. <<c, PrePrepared>> \in pending[n]
      BY ZenonT(60), <1>4, <2>3 DEF onState, onNewState
    <3>3. B
      BY <1>1, <2>3, <3>2, BroadcastEffect
    <3> QED BY ZenonT(60), <3>1, <3>3
  <2> QED BY ZenonT(60), <1>2, <2>1, <2>2, <2>3
<1> HIDE DEF A, B
<1>5. ASSUME NEW n \in Node, onNewBeaconEntry(n), ~proposeMined(n) PROVE sent' = sent
  BY ZenonT(60), <1>5 DEF onNewBeaconEntry, selectBlock, noAcceptedBlocks, emptyRound, netVars,
        vars,
        pruneAndDeleteTxs, Prune, storeSelected, announceAndSubmit, MineBlock, skipMining
<1>6. ASSUME NEW n \in Node, handleEvent(n),
             ~\E c \in Block, s \in {PrePrepared, Prepared} : onState(n, c, s)
      PROVE  sent' = sent
  BY ZenonT(60), <1>6 DEF handleEvent, onLatestBlockHeightUpdated, validatePrePrepare,
        logPrePrepare,
        dropPrePrepare, onNewBlock, onVote, handleVote, handlePrePrepare, rejectPrePrepare, vars
<1>7. ASSUME NEW n \in Node, NEW t \in Tx, onOracleEvent(n, t) \/ expireTx(n, t)
      PROVE  sent' = sent
  BY ZenonT(60), <1>7 DEF onOracleEvent, expireTx, vars
<1>8. ASSUME NEW n \in Node, restart(n) PROVE sent' = sent
  BY ZenonT(60), <1>8 DEF restart, Restart
<1>9. ASSUME UNCHANGED netVars PROVE sent' = sent
  BY <1>9 DEF netVars, vars
<1>10. ASSUME NEW n \in Node, onNewBeaconEntry(n) \/ handleEvent(n) PROVE A /\ B
  BY ZenonT(60), <1>2, <1>3, <1>4, <1>5, <1>6, <1>10
<1>11. A /\ B
  BY ZenonT(60), <1>2, <1>7, <1>8, <1>9, <1>10 DEF NetNext
<1> QED BY <1>11 DEF A, B
(* The miner's parent and the notices on their way to it are mined blocks. *)
LEMMA LatestStep ==
    ASSUME NetTypeOK, NetTypeOK', HeadersSound, VotesBack, [NetNext]_netVars, NEW n \in Node
    PROVE  /\ Known(latestBlockHeader[n])'
           /\ (\A i \in 1..Len(heightUpdated[n]) : Mined(heightUpdated[n][i]))'
<1> DEFINE h == heightUpdated[n]
<1>1. /\ h \in Seq(Block) /\ latestBlockHeader[n] \in Hash /\ chain[n] \in Seq(Block)
      /\ heightUpdated'[n] \in Seq(Block) /\ latestBlockHeader'[n] \in Hash
  BY DEF NetTypeOK
<1>2. /\ Known(latestBlockHeader[n])
      /\ \A i \in 1..Len(h) : Mined(h[i])
  BY DEF HeadersSound
<1>3. \A i \in 1..Len(h) : h[i] \in Block /\ Mined(h[i]) /\ header'[h[i]] # NotMined
  BY <1>1, <1>2, MinedStable DEF Mined
<1> DEFINE K(x) == x = Genesis \/ header'[x] # NotMined
           G == /\ K(latestBlockHeader'[n])
                /\ \A i \in 1..Len(heightUpdated'[n]) : header'[heightUpdated'[n][i]] # NotMined
<1>4. K(latestBlockHeader[n])
  BY ZenonT(60), <1>1, <1>2, KnownStable DEF Known, Mined
<1>5. ASSUME latestBlockHeader'[n] = latestBlockHeader[n], heightUpdated'[n] = h PROVE G
  BY ZenonT(60), <1>3, <1>4, <1>5
<1>6. ASSUME latestBlockHeader'[n] = Head(h), h # <<>>, heightUpdated'[n] = Tail(h) PROVE G
  <2>1. Head(h) = h[1] /\ 1 \in 1..Len(h)
    BY <1>1, <1>6
  <2>2. \A i \in 1..Len(Tail(h)) : i + 1 \in 1..Len(h) /\ Tail(h)[i] = h[i + 1]
    BY <1>1, <1>6
  <2> QED BY ZenonT(60), <1>3, <1>6, <2>1, <2>2
<1>7. ASSUME latestBlockHeader'[n] = LatestBlock(n), heightUpdated'[n] = <<>> PROVE G
  <2>1. LatestBlock(n) = Genesis \/ \E i \in 1..Len(chain[n]) : LatestBlock(n) = chain[n][i]
    BY <1>1 DEF LatestBlock
  <2>2. \A i \in 1..Len(chain[n]) : chain[n][i] \in Block /\ Mined(chain[n][i])
    BY <1>1 DEF VotesBack, Backed
  <2>3. K(LatestBlock(n))
    BY ZenonT(60), <2>1, <2>2, MinedStable DEF Mined
  <2>4. \A i \in 1..Len(<<>>) : FALSE
    OBVIOUS
  <2> QED BY ZenonT(60), <1>7, <2>3, <2>4
<1>8. ASSUME latestBlockHeader'[n] = latestBlockHeader[n], NEW b \in Block, Mined(b),
             heightUpdated'[n] = Append(h, b)
      PROVE  G
  <2>1. \A i \in 1..Len(Append(h, b)) :
          (i \in 1..Len(h) /\ Append(h, b)[i] = h[i]) \/ Append(h, b)[i] = b
    BY <1>1
  <2>2. header'[b] # NotMined
    BY ZenonT(60), <1>8, MinedStable DEF Mined
  <2> QED BY ZenonT(60), <1>3, <1>4, <1>8, <2>1, <2>2
<1>9. ASSUME NEW m \in Node, onLatestBlockHeightUpdated(m) PROVE G
  <2>1. CASE m = n
    <3>1. latestBlockHeader'[n] = Head(h) /\ h # <<>> /\ heightUpdated'[n] = Tail(h)
      BY <1>9, <2>1 DEF onLatestBlockHeightUpdated, NetTypeOK
    <3> QED BY ZenonT(60), <1>6, <3>1
  <2>2. CASE m # n
    <3>1. latestBlockHeader'[n] = latestBlockHeader[n] /\ heightUpdated'[n] = h
      BY <1>9, <2>2 DEF onLatestBlockHeightUpdated, NetTypeOK
    <3> QED BY ZenonT(60), <1>5, <3>1
  <2> QED BY ZenonT(60), <2>1, <2>2
<1>10. ASSUME NEW m \in Node, restart(m) PROVE G
  <2>1. CASE m = n
    <3>1. latestBlockHeader'[n] = LatestBlock(n) /\ heightUpdated'[n] = <<>>
      BY <1>10, <2>1 DEF restart, NetTypeOK
    <3> QED BY ZenonT(60), <1>7, <3>1
  <2>2. CASE m # n
    <3>1. latestBlockHeader'[n] = latestBlockHeader[n] /\ heightUpdated'[n] = h
      BY <1>10, <2>2 DEF restart, NetTypeOK
    <3> QED BY ZenonT(60), <1>5, <3>1
  <2> QED BY ZenonT(60), <2>1, <2>2
<1>11. ASSUME NEW m \in Node, NEW b \in Block, Stores(m, b), latestBlockHeader' = latestBlockHeader
       PROVE  G
  <2>1. Mined(b)
    BY ZenonT(60), <1>11 DEF Stores, VotesBack, Backed, Working
  <2>2. heightUpdated' = [heightUpdated EXCEPT ![m] = Append(@, b)]
    BY ZenonT(60), <1>11 DEF Stores, StoreBlock
  <2>3. heightUpdated'[n] = h \/ heightUpdated'[n] = Append(h, b)
    BY <2>2 DEF NetTypeOK
  <2> QED BY ZenonT(60), <1>5, <1>8, <1>11, <2>1, <2>3
<1>12. ASSUME UNCHANGED <<chain, latestBlockHeader, heightUpdated>> PROVE G
  <2>1. latestBlockHeader'[n] = latestBlockHeader[n] /\ heightUpdated'[n] = h
    BY <1>12
  <2> QED BY ZenonT(60), <1>5, <2>1
<1> HIDE DEF G
<1>13. G
  BY ZenonT(60), LatestMoves, <1>9, <1>10, <1>11, <1>12
<1> QED BY ZenonT(60), <1>13 DEF G, Known, Mined

LEMMA HeaderStep ==
    ASSUME NetTypeOK, NetTypeOK', HeadersSound, [NetNext]_netVars, NEW b \in Block, Mined(b)'
    PROVE  /\ Known(header[b].parent)'
           /\ (header[b].height = Height(header[b].parent) + 1)'
<1> SUFFICES \E h \in Hash : /\ header'[b].parent = h /\ Known(h)'
                            /\ header'[b].height = Height(h)' + 1
  BY ZenonT(60) DEF Known, Height, Mined
<1>1. CASE Mined(b)
  <2>1. header'[b] = header[b]
    BY ZenonT(60), <1>1, MinedStable
  <2>2. PICK h \in Hash : header[b].parent = h
    BY DEF NetTypeOK
  <2>3. Known(h) /\ header[b].height = Height(h) + 1
    BY ZenonT(60), <1>1, <2>2 DEF HeadersSound
  <2>4. Known(h)' /\ Height(h)' = Height(h)
    BY ZenonT(60), <2>3, KnownStable
  <2> QED BY ZenonT(60), <2>1, <2>2, <2>3, <2>4
<1>2. CASE ~Mined(b)
  <2>1. PICK n \in Node : MineBlock(n)
    BY ZenonT(60), <1>2, HeaderMoves DEF Mined
  <2>2. PICK c \in Block :
          /\ header'[c].parent = latestBlockHeader[n]
          /\ header'[c].height = Height(latestBlockHeader[n]) + 1
          /\ \A d \in Block \ {c} : header'[d] = header[d]
    BY ZenonT(60), <2>1, MineEffect
  <2>3. b = c
    BY ZenonT(60), <1>2, <2>2 DEF Mined
  <2>4. PICK h \in Hash : latestBlockHeader[n] = h
    BY DEF NetTypeOK
  <2>5. Known(h)
    BY ZenonT(60), <2>4 DEF HeadersSound
  <2>6. Known(h)' /\ Height(h)' = Height(h)
    BY ZenonT(60), <2>5, KnownStable
  <2> QED BY ZenonT(60), <2>2, <2>3, <2>4, <2>6
<1> QED BY ZenonT(60), <1>1, <1>2

LEMMA HeadersSoundStep ==
    ASSUME NetTypeOK, NetTypeOK', HeadersSound, VotesBack, [NetNext]_netVars
    PROVE  HeadersSound'
<1>1. ASSUME NEW b \in Block, sent'[b]["PREPREPARE"] # {} PROVE Mined(b)'
  <2>1. sent[b]["PREPREPARE"] # {} \/ \E n \in Node : round[n].at = "propose" /\ round[n].block = b
    BY ZenonT(60), <1>1, SentMoves
  <2>2. Mined(b)
    BY ZenonT(60), <2>1 DEF HeadersSound
  <2> QED BY <2>2, MinedStable
<1>2. ASSUME NEW n \in Node, round'[n].at = "propose", NEW c, round'[n].block = c PROVE Mined(c)'
  <2>1. CASE round'[n] = round[n]
    <3>1. round[n] \in Round /\ round[n].at = "propose" /\ round[n].block = c
      BY ZenonT(60), <1>2, <2>1 DEF NetTypeOK
    <3>2. c \in Block /\ Mined(c)
      BY ZenonT(60), <3>1, RoundBlock DEF HeadersSound
    <3> QED BY ZenonT(60), <3>2, MinedStable
  <2>2. CASE Mines(n)
    <3>1. PICK b \in Block :
            /\ round' = [round EXCEPT ![n] = [at |-> "propose", block |-> b]]
            /\ Mined(b)'
      BY ZenonT(60), <2>2, MineEffect DEF Mines
    <3>2. round'[n].block = b
      BY <3>1 DEF NetTypeOK
    <3> QED BY ZenonT(60), <1>2, <3>1, <3>2 DEF Mined
  <2> QED
    BY ZenonT(60), <1>2, <2>1, <2>2, RoundMoves DEF Rests, Selects, Prunes, Keeps
<1> QED
  BY ZenonT(60), <1>1, <1>2, HeaderStep, LatestStep DEF HeadersSound, Mined

-----------------------------------------------------------------------------
(* The chains.                                                             *)

LEMMA StoredLink ==
    ASSUME NetTypeOK, HeadersSound, VotesBack, ChainsLinked, NEW n \in Node, NEW b \in Block,
           Stores(n, b)
    PROVE  /\ header[b].height = Len(chain[n]) + 1
           /\ header[b].parent = IF Len(chain[n]) = 0 THEN Genesis ELSE chain[n][Len(chain[n])]
<1> DEFINE s == chain[n]
<1>1. s \in Seq(Block) /\ Len(s) \in Nat
  BY DEF NetTypeOK
<1>2. Mined(b)
  BY ZenonT(60) DEF Stores, VotesBack, Backed, Working
<1>3. header[b].height = Height(header[b].parent) + 1
  BY ZenonT(60), <1>2 DEF HeadersSound
<1>4. header[b].parent = LatestBlock(n)
  BY ZenonT(60) DEF Stores, ValidateBlock
<1>5. CASE Len(s) = 0
  <2>1. LatestBlock(n) = Genesis
    BY <1>1, <1>5 DEF LatestBlock
  <2>2. Height(Genesis) = 0
    BY ZenonT(60) DEF Height
  <2> HIDE DEF s
  <2> QED BY <1>3, <1>4, <1>5, <2>1, <2>2 DEF s
<1>6. CASE Len(s) # 0
  <2>1. LatestBlock(n) = s[Len(s)] /\ Len(s) \in 1..Len(s) /\ s[Len(s)] \in Block
    BY <1>1, <1>6 DEF LatestBlock
  <2>2. header[s[Len(s)]].height = Len(s)
    BY ZenonT(60), <2>1 DEF ChainsLinked
  <2>3. Height(s[Len(s)]) = Len(s)
    BY ZenonT(60), <2>1, <2>2, GenesisAssumption DEF Height
  <2> HIDE DEF s
  <2> QED BY <1>1, <1>3, <1>4, <1>6, <2>1, <2>3 DEF s
<1> QED BY ZenonT(60), <1>5, <1>6

(* A chain after a step: the chain before it and at most one block.        *)
LEMMA ChainAfter ==
    ASSUME NetTypeOK, NetTypeOK', [NetNext]_netVars, NEW n \in Node, NEW i \in 1..Len(chain'[n]),
           i \notin 1..Len(chain[n])
    PROVE  /\ i = Len(chain[n]) + 1 /\ header' = header
           /\ Stores(n, chain'[n][i]) /\ chain'[n][i] \in Block
           /\ \A m \in Node : m # n => chain'[m] = chain[m]
<1>1. Len(chain[n]) \in Nat /\ Len(chain'[n]) \in Nat
  BY DEF NetTypeOK
<1>2. chain' # chain
  OBVIOUS
<1>3. PICK m \in Node, b \in Block : Stores(m, b) /\ header' = header
  BY ZenonT(60), <1>2, ChainMoves
<1>4. /\ Len(chain'[m]) = Len(chain[m]) + 1
      /\ chain'[m][Len(chain[m]) + 1] = b
      /\ \A q \in Node : q # m => chain'[q] = chain[q]
  BY ZenonT(60), <1>3, StoreEffect DEF Stores
<1>5. m = n
  BY <1>4
<1>6. i = Len(chain[n]) + 1
  BY <1>1, <1>4, <1>5
<1> QED BY ZenonT(60), <1>3, <1>4, <1>5, <1>6

LEMMA ChainsLinkedStep ==
    ASSUME NetTypeOK, NetTypeOK', HeadersSound, VotesBack, ChainsLinked, [NetNext]_netVars
    PROVE  ChainsLinked'
<1> SUFFICES ASSUME NEW n \in Node, NEW i \in 1..Len(chain'[n])
             PROVE  /\ header'[chain'[n][i]].height = i
                    /\ header'[chain'[n][i]].parent = IF i = 1 THEN Genesis ELSE chain'[n][i - 1]
  BY ZenonT(60) DEF ChainsLinked
<1>1. chain[n] \in Seq(Block) /\ Len(chain[n]) \in Nat
  BY DEF NetTypeOK
<1>2. CASE i \in 1..Len(chain[n])
  <2>1. chain'[n][i] = chain[n][i]
    BY ZenonT(60), <1>2, ChainGrows
  <2>2. chain[n][i] \in Block
    BY <1>1, <1>2
  <2>3. header'[chain[n][i]] = header[chain[n][i]]
    BY ZenonT(60), <1>2, <2>2, MinedStable DEF VotesBack, Backed
  <2>4. i # 1 => i - 1 \in 1..Len(chain[n])
    BY <1>1, <1>2
  <2>5. i # 1 => chain'[n][i - 1] = chain[n][i - 1]
    BY ZenonT(60), <2>4, ChainGrows
  <2>6. /\ header[chain[n][i]].height = i
        /\ header[chain[n][i]].parent = IF i = 1 THEN Genesis ELSE chain[n][i - 1]
    BY ZenonT(60), <1>2 DEF ChainsLinked
  <2> QED BY ZenonT(60), <2>1, <2>3, <2>5, <2>6
<1>3. CASE i \notin 1..Len(chain[n])
  <2>1. PICK b \in Block : chain'[n][i] = b /\ Stores(n, b) /\ header' = header
    BY ZenonT(60), <1>3, ChainAfter
  <2>2. i = Len(chain[n]) + 1
    BY ZenonT(60), <1>3, ChainAfter
  <2>3. /\ header[b].height = Len(chain[n]) + 1
        /\ header[b].parent = IF Len(chain[n]) = 0 THEN Genesis ELSE chain[n][Len(chain[n])]
    BY ZenonT(60), <2>1, StoredLink
  <2>4. (Len(chain[n]) = 0 <=> i = 1) /\ Len(chain[n]) = i - 1
    BY <1>1, <2>2
  <2>5. i # 1 => i - 1 \in 1..Len(chain[n])
    BY <1>1, <2>2
  <2>6. i # 1 => chain'[n][i - 1] = chain[n][i - 1]
    BY ZenonT(60), <2>5, ChainGrows
  <2> QED BY ZenonT(60), <2>1, <2>2, <2>3, <2>4, <2>6
<1> QED BY ZenonT(60), <1>2, <1>3

LEMMA SharedBelow ==
    ASSUME CommonPrefix, NEW n \in Node, NEW m \in Node, NEW i \in 1..Len(chain[n]),
           i \in 1..Len(chain[m]), chain[n][i] = chain[m][i]
    PROVE  \A h \in 1..i : chain[n][h] = chain[m][h]
BY ZenonT(60) DEF CommonPrefix

LEMMA CommonPrefixStep ==
    ASSUME NetTypeOK, NetTypeOK', HeadersSound, VotesBack, ChainsLinked, ChainsLinked', CommonPrefix,
           [NetNext]_netVars
    PROVE  CommonPrefix'
<1> SUFFICES ASSUME NEW n \in Node, NEW m \in Node, NEW i \in 1..Len(chain'[n]),
                    NEW j \in 1..Len(chain'[m]), chain'[n][i] = chain'[m][j]
             PROVE  /\ i = j /\ i = header'[chain'[n][i]].height
                    /\ \A h \in 1..i : chain'[n][h] = chain'[m][h]
  BY ZenonT(60) DEF CommonPrefix
<1>1. i = header'[chain'[n][i]].height /\ j = header'[chain'[m][j]].height
  BY ZenonT(60) DEF ChainsLinked
<1>2. i = j
  BY ZenonT(60), <1>1
<1>3. \A q \in Node : chain[q] \in Seq(Block) /\ Len(chain[q]) \in Nat
  BY DEF NetTypeOK
<1>4. CASE i \in 1..Len(chain[n]) /\ i \in 1..Len(chain[m])
  <2>1. \A h \in 1..i : h \in 1..Len(chain[n]) /\ h \in 1..Len(chain[m])
    BY <1>3, <1>4
  <2>2. \A h \in 1..i : chain'[n][h] = chain[n][h] /\ chain'[m][h] = chain[m][h]
    BY ZenonT(60), <2>1, ChainGrows
  <2>3. chain[n][i] = chain[m][i]
    BY ZenonT(60), <1>2, <1>4, ChainGrows
  <2>4. \A h \in 1..i : chain[n][h] = chain[m][h]
    BY ZenonT(60), <1>4, <2>3 DEF CommonPrefix
  <2> QED BY ZenonT(60), <1>1, <1>2, <2>2, <2>4
<1>5. ASSUME NEW p \in Node, NEW q \in Node, i \in 1..Len(chain'[p]), i \notin 1..Len(chain[p]),
             i \in 1..Len(chain'[q]), chain'[p][i] = chain'[q][i], p # q
      PROVE  \A h \in 1..i : chain'[p][h] = chain'[q][h]
  <2>1. /\ i = Len(chain[p]) + 1 /\ chain'[q] = chain[q]
        /\ Stores(p, chain'[p][i]) /\ chain'[p][i] \in Block
    BY ZenonT(60), <1>5, ChainAfter
  <2>2. CASE i = 1
    BY <1>5, <2>2
  <2>3. CASE i # 1
    <3>1. Len(chain[p]) # 0 /\ Len(chain[p]) = i - 1
      BY <1>3, <2>1, <2>3
    <3> PICK b \in Block : chain'[p][i] = b /\ Stores(p, b)
      BY ZenonT(60), <2>1
    <3>2. header[b].parent = chain[p][i - 1]
      <4>1. header[b].parent = IF Len(chain[p]) = 0 THEN Genesis ELSE chain[p][Len(chain[p])]
        BY ZenonT(60), StoredLink
      <4> QED BY <3>1, <4>1
    <3>3. i \in 1..Len(chain[q]) /\ chain[q][i] = b
      BY ZenonT(60), <1>5, <2>1
    <3>4. header[b].parent = chain[q][i - 1]
      <4>1. header[chain[q][i]].parent = IF i = 1 THEN Genesis ELSE chain[q][i - 1]
        BY ZenonT(60), <3>3 DEF ChainsLinked
      <4> QED BY <2>3, <3>3, <4>1
    <3>5. i - 1 \in 1..Len(chain[p]) /\ i - 1 \in 1..Len(chain[q])
      BY <1>3, <2>1, <2>3, <3>3
    <3>6. \A h \in 1..(i - 1) : chain[p][h] = chain[q][h]
      <4>1. chain[p][i - 1] = chain[q][i - 1]
        BY ZenonT(60), <3>2, <3>4
      <4> QED BY ZenonT(60), <3>5, <4>1, SharedBelow
    <3>7. \A h \in 1..i : h = i \/ (h \in 1..(i - 1) /\ h \in 1..Len(chain[p]))
      BY <1>3, <2>1
    <3>8. \A h \in 1..Len(chain[p]) : chain'[p][h] = chain[p][h]
      BY ZenonT(60), ChainGrows
    <3> QED BY ZenonT(60), <1>5, <2>1, <3>6, <3>7, <3>8
  <2> QED BY ZenonT(60), <2>2, <2>3
<1>6. CASE i \notin 1..Len(chain[n]) /\ n # m
  BY ZenonT(60), <1>1, <1>2, <1>5, <1>6
<1>7. CASE i \notin 1..Len(chain[m]) /\ n # m
  <2>1. \A h \in 1..i : chain'[m][h] = chain'[n][h]
    BY ZenonT(60), <1>2, <1>5, <1>7
  <2> QED BY ZenonT(60), <1>1, <1>2, <2>1
<1> QED BY ZenonT(60), <1>1, <1>2, <1>4, <1>6, <1>7

-----------------------------------------------------------------------------
(* The parents of what is voted for.                                       *)

LEMMA ParentHeldStable ==
    ASSUME NetTypeOK, NetTypeOK', [NetNext]_netVars, NEW n \in Node, NEW b \in Block,
           ParentHeld(n, b)
    PROVE  ParentHeld(n, b)'
<1>1. header'[b] = header[b] /\ Mined(b)'
  BY ZenonT(60), MinedStable DEF ParentHeld
<1>2. PICK h \in Hash : header[b].parent = h
  BY DEF NetTypeOK
<1>3. h = Genesis \/ HasBlock(n, h)
  BY ZenonT(60), <1>2 DEF ParentHeld
<1>4. h = Genesis \/ HasBlock(n, h)'
  BY ZenonT(60), <1>3, ChainGrows
<1> QED BY ZenonT(60), <1>1, <1>2, <1>4 DEF ParentHeld, HasBlock

(* The miner's cached header is on the node's chain, or genesis.           *)
LEMMA CachedHeld ==
    ASSUME NetTypeOK, CacheSound, NEW n \in Node
    PROVE  latestBlockHeader[n] = Genesis \/ HasBlock(n, latestBlockHeader[n])
<1>1. chain[n] \in Seq(Block) /\ heightUpdated[n] \in Seq(Block)
  BY DEF NetTypeOK
<1>2. /\ Cached(n) >= 0 /\ Cached(n) = Len(chain[n]) - Len(heightUpdated[n])
      /\ latestBlockHeader[n] = IF Cached(n) = 0 THEN Genesis ELSE chain[n][Cached(n)]
  BY ZenonT(60) DEF CacheSound, Cached
<1>3. Len(chain[n]) \in Nat /\ Len(heightUpdated[n]) \in Nat
  BY <1>1
<1>4. \A l, k \in Nat : l - k >= 0 /\ l - k # 0 => l - k \in 1..l
  OBVIOUS
<1>5. Cached(n) # 0 => Cached(n) \in 1..Len(chain[n])
  BY ZenonT(60), <1>2, <1>3, <1>4
<1> QED BY ZenonT(60), <1>1, <1>2, <1>5, HeldAt

(* The cached header follows the chain: the subscriber takes the oldest    *)
(* event, a store adds one, and a restart reads the top of the chain.      *)
LEMMA CacheSoundStep ==
    ASSUME NetTypeOK, NetTypeOK', CacheSound, [NetNext]_netVars
    PROVE  CacheSound'
<1> SUFFICES ASSUME NEW n \in Node
             PROVE  LET at == Len(chain'[n]) - Len(heightUpdated'[n]) IN
                    /\ at >= 0
                    /\ latestBlockHeader'[n] = IF at = 0 THEN Genesis ELSE chain'[n][at]
                    /\ \A i \in 1..Len(heightUpdated'[n]) :
                          heightUpdated'[n][i] = chain'[n][at + i]
  BY ZenonT(60) DEF CacheSound, Cached
<1> DEFINE c == chain[n]
           h == heightUpdated[n]
           l == latestBlockHeader[n]
           G(cc, hh, ll) ==
              LET at == Len(cc) - Len(hh) IN
              /\ at >= 0
              /\ ll = IF at = 0 THEN Genesis ELSE cc[at]
              /\ \A i \in 1..Len(hh) : hh[i] = cc[at + i]
<1>1. c \in Seq(Block) /\ h \in Seq(Block)
  BY DEF NetTypeOK
<1>2. G(c, h, l)
  BY ZenonT(60) DEF CacheSound, Cached
<1>3. ASSUME h # <<>> PROVE G(c, Tail(h), Head(h))
  <2>1. /\ Len(Tail(h)) = Len(h) - 1 /\ Head(h) = h[1] /\ 1 \in 1..Len(h)
        /\ \A i \in 1..Len(Tail(h)) : i + 1 \in 1..Len(h) /\ Tail(h)[i] = h[i + 1]
    BY <1>1, <1>3
  <2>2. Len(c) \in Nat /\ Len(h) \in Nat /\ Len(Tail(h)) \in Nat
    BY <1>1, <1>3
  <2>3. Head(h) = c[Len(c) - Len(h) + 1] /\ Len(c) - Len(h) >= 0
    BY ZenonT(60), <1>2, <2>1
  <2>4. \A i \in 1..Len(Tail(h)) : Tail(h)[i] = c[Len(c) - Len(h) + (i + 1)]
    BY ZenonT(60), <1>2, <2>1
  <2>5. \A i \in 1..Len(Tail(h)) : i \in Nat
    OBVIOUS
  <2>6. /\ Len(c) - Len(Tail(h)) = Len(c) - Len(h) + 1
        /\ Len(c) - Len(Tail(h)) >= 0 /\ Len(c) - Len(Tail(h)) # 0
        /\ \A i \in Nat : Len(c) - Len(h) + (i + 1) = Len(c) - Len(Tail(h)) + i
    <3> DEFINE p == Len(c)
               q == Len(h)
               t == Len(Tail(h))
    <3>1. p \in Nat /\ q \in Nat /\ t \in Nat /\ p - q >= 0 /\ t = q - 1
      BY ZenonT(60), <2>1, <2>2, <2>3
    <3> HIDE DEF p, q, t
    <3>2. /\ p - t = p - q + 1 /\ p - t >= 0 /\ p - t # 0
          /\ \A i \in Nat : p - q + (i + 1) = p - t + i
      BY <3>1
    <3> QED BY ZenonT(60), <3>2 DEF p, q, t
  <2> QED BY ZenonT(60), <2>3, <2>4, <2>5, <2>6
<1>4. G(c, <<>>, LatestBlock(n))
  <2>1. Len(c) \in Nat /\ (Len(c) = 0 <=> c = <<>>)
    BY <1>1
  <2>2. Len(<<>>) = 0 /\ \A i \in 1..0 : FALSE
    OBVIOUS
  <2>3. Len(c) - 0 = Len(c) /\ Len(c) >= 0
    BY <2>1
  <2>4. LatestBlock(n) = IF Len(c) = 0 THEN Genesis ELSE c[Len(c)]
    BY ZenonT(60), <2>1 DEF LatestBlock
  <2> QED BY ZenonT(60), <2>2, <2>3, <2>4
<1>5. ASSUME NEW b \in Block PROVE G(Append(c, b), Append(h, b), l)
  <2>1. /\ Len(c) \in Nat /\ Len(h) \in Nat
        /\ Len(Append(c, b)) = Len(c) + 1 /\ Len(Append(h, b)) = Len(h) + 1
    BY <1>1
  <2>2. /\ Append(c, b)[Len(c) + 1] = b /\ \A i \in 1..Len(c) : Append(c, b)[i] = c[i]
        /\ Append(h, b)[Len(h) + 1] = b /\ \A i \in 1..Len(h) : Append(h, b)[i] = h[i]
    BY <1>1
  <2>3. \A p, q \in Nat : p - q >= 0 =>
          /\ (p + 1) - (q + 1) = p - q
          /\ p - q # 0 => p - q \in 1..p
          /\ \A i \in 1..q : p - q + i \in 1..p
          /\ p - q + (q + 1) = p + 1
          /\ \A i \in 1..(q + 1) : i \in 1..q \/ i = q + 1
    OBVIOUS
  <2>4. Len(c) - Len(h) >= 0
    BY ZenonT(60), <1>2
  <2>5. /\ Len(Append(c, b)) - Len(Append(h, b)) = Len(c) - Len(h)
        /\ Len(c) - Len(h) # 0 => Len(c) - Len(h) \in 1..Len(c)
        /\ \A i \in 1..Len(h) : Len(c) - Len(h) + i \in 1..Len(c)
        /\ Len(c) - Len(h) + (Len(h) + 1) = Len(c) + 1
        /\ \A i \in 1..Len(Append(h, b)) : i \in 1..Len(h) \/ i = Len(h) + 1
    BY ZenonT(60), <2>1, <2>3, <2>4
  <2>6. l = IF Len(c) - Len(h) = 0 THEN Genesis ELSE Append(c, b)[Len(c) - Len(h)]
    BY ZenonT(60), <1>2, <2>2, <2>5
  <2>7. \A i \in 1..Len(Append(h, b)) : Append(h, b)[i] = Append(c, b)[Len(c) - Len(h) + i]
    BY ZenonT(60), <1>2, <2>2, <2>5
  <2> QED BY ZenonT(60), <2>4, <2>5, <2>6, <2>7
<1> HIDE DEF G
<1> DEFINE R == G(chain'[n], heightUpdated'[n], latestBlockHeader'[n])
<1>6. ASSUME chain'[n] = c, heightUpdated'[n] = h, latestBlockHeader'[n] = l PROVE R
  BY ZenonT(60), <1>2, <1>6
<1>7. ASSUME NEW m \in Node, chain' = chain, onLatestBlockHeightUpdated(m) PROVE R
  <2>1. CASE m = n
    <3>1. latestBlockHeader'[n] = Head(h) /\ h # <<>> /\ heightUpdated'[n] = Tail(h)
      BY <1>7, <2>1 DEF onLatestBlockHeightUpdated, NetTypeOK
    <3> QED BY ZenonT(60), <1>3, <1>7, <3>1
  <2>2. CASE m # n
    <3>1. latestBlockHeader'[n] = l /\ heightUpdated'[n] = h
      BY <1>7, <2>2 DEF onLatestBlockHeightUpdated, NetTypeOK
    <3> QED BY ZenonT(60), <1>6, <1>7, <3>1
  <2> QED BY ZenonT(60), <2>1, <2>2
<1>8. ASSUME NEW m \in Node, chain' = chain, restart(m) PROVE R
  <2>1. CASE m = n
    <3>1. latestBlockHeader'[n] = LatestBlock(n) /\ heightUpdated'[n] = <<>>
      BY <1>8, <2>1 DEF restart, NetTypeOK
    <3> QED BY ZenonT(60), <1>4, <1>8, <3>1
  <2>2. CASE m # n
    <3>1. latestBlockHeader'[n] = l /\ heightUpdated'[n] = h
      BY <1>8, <2>2 DEF restart, NetTypeOK
    <3> QED BY ZenonT(60), <1>6, <1>8, <3>1
  <2> QED BY ZenonT(60), <2>1, <2>2
<1>9. ASSUME NEW m \in Node, NEW b \in Block, Stores(m, b),
             UNCHANGED <<header, latestBlockHeader>>
      PROVE  R
  <2>1. /\ chain' = [chain EXCEPT ![m] = Append(@, b)]
        /\ heightUpdated' = [heightUpdated EXCEPT ![m] = Append(@, b)]
    BY ZenonT(60), <1>9 DEF Stores, StoreBlock
  <2>2. \/ chain'[n] = c /\ heightUpdated'[n] = h
        \/ chain'[n] = Append(c, b) /\ heightUpdated'[n] = Append(h, b)
    BY <2>1 DEF NetTypeOK
  <2>3. latestBlockHeader'[n] = l
    BY <1>9
  <2> QED BY ZenonT(60), <1>5, <1>6, <2>2, <2>3
<1>10. ASSUME UNCHANGED <<chain, latestBlockHeader, heightUpdated>> PROVE R
  <2>1. chain'[n] = c /\ heightUpdated'[n] = h /\ latestBlockHeader'[n] = l
    BY <1>10
  <2> QED BY ZenonT(60), <1>6, <2>1
<1> HIDE DEF R
<1>11. R
  BY ZenonT(60), LatestMoves, <1>7, <1>8, <1>9, <1>10
<1> QED BY ZenonT(60), <1>11 DEF R, G

(* Votes do not start an entry; the proposal does.                         *)
LEMMA InsertStarts ==
    ASSUME NEW ci \in Info, NEW t \in MsgType, NEW k \in Node,
           InsertMessageIntoLog(ci, t, k).state # Unknown
    PROVE  ci.state # Unknown \/ t = "PREPREPARE"
BY ZenonT(60), InsertFacts

LEMMA InsertPublishes ==
    ASSUME TypeOK, NEW n \in Node, NEW c \in Block, NEW t \in MsgType, NEW k \in Node,
           Insert(n, c, t, k), NEW m \in Node, NEW b \in Block,
           <<b, PrePrepared>> \in pending'[m], <<b, PrePrepared>> \notin pending[m]
    PROVE  m = n /\ b = c /\ t = "PREPREPARE"
<1> DEFINE old == cinfo[n][c]
           ci == InsertMessageIntoLog(old, t, k)
<1>1. pending' = [pending EXCEPT ![n] = @ \cup Published(c, old, ci)]
  BY ZenonT(60) DEF Insert
<1>2. old \in Info
  BY DEF TypeOK, Info
<1> HIDE DEF old
<1>3. ci \in Info /\ (ci.state # Unknown => old.state # Unknown \/ t = "PREPREPARE")
  <2>1. ci \in Info
    BY ZenonT(60), <1>2, InsertFacts
  <2>2. ci.state # Unknown => old.state # Unknown \/ t = "PREPREPARE"
    BY ZenonT(60), <1>2, InsertStarts
  <2> QED BY ZenonT(60), <2>1, <2>2
<1> HIDE DEF ci
<1>4. m = n /\ <<b, PrePrepared>> \in Published(c, old, ci)
  BY <1>1 DEF TypeOK
<1>5. b = c /\ old.state < PrePrepared /\ PrePrepared <= ci.state
  BY <1>4 DEF Published
<1>6. ci.state # Unknown /\ ~(old.state # Unknown)
  BY <1>2, <1>3, <1>5 DEF Info, Unknown, PrePrepared, Prepared, Commited
<1> QED BY ZenonT(60), <1>3, <1>4, <1>5, <1>6

LEMMA CheckedMoves ==
    ASSUME NetTypeOK, [NetNext]_netVars, NEW n \in Node, NEW b \in Block, b \in checked'[n]
    PROVE  b \in checked[n] \/ validatePrePrepare(n, b)
<1> DEFINE G == b \in checked[n] \/ validatePrePrepare(n, b)
<1>1. ASSUME checked' = checked PROVE G
  BY <1>1
<1>2. ASSUME NEW m \in Node, NEW c \in Block, validatePrePrepare(m, c) PROVE G
  <2>1. checked' = [checked EXCEPT ![m] = @ \cup {c}]
    BY ZenonT(60), <1>2 DEF validatePrePrepare
  <2>2. b \in checked[n] \/ (n = m /\ b = c)
    BY <2>1 DEF NetTypeOK
  <2> QED BY ZenonT(60), <1>2, <2>2
<1>3. ASSUME NEW m \in Node, NEW c \in Block, logPrePrepare(m, c) PROVE G
  <2>1. checked' = [checked EXCEPT ![m] = @ \ {c}]
    BY ZenonT(60), <1>3 DEF logPrePrepare
  <2>2. b \in checked[n]
    BY <2>1 DEF NetTypeOK
  <2> QED BY ZenonT(60), <2>2
<1>4. ASSUME NEW m \in Node, restart(m) PROVE G
  <2>1. checked' = [checked EXCEPT ![m] = {}]
    BY ZenonT(60), <1>4 DEF restart
  <2>2. b \in checked[n]
    BY <2>1 DEF NetTypeOK
  <2> QED BY ZenonT(60), <2>2
<1> HIDE DEF G
<1>5. ASSUME NEW m \in Node, onNewBeaconEntry(m) PROVE checked' = checked
  BY ZenonT(60), <1>5 DEF onNewBeaconEntry, selectBlock, noAcceptedBlocks, emptyRound, netVars,
        nodeVars,
        pruneAndDeleteTxs, storeSelected, announceAndSubmit, MineBlock, skipMining, proposeMined
<1>6. ASSUME NEW m \in Node, handleEvent(m),
             ~\E c \in Block : validatePrePrepare(m, c) \/ logPrePrepare(m, c)
      PROVE  checked' = checked
  BY ZenonT(60), <1>6 DEF handleEvent, onLatestBlockHeightUpdated, dropPrePrepare, onNewBlock,
        onVote,
        onState, nodeVars
<1>7. ASSUME NEW m \in Node, NEW t \in Tx, onOracleEvent(m, t) \/ expireTx(m, t)
      PROVE  checked' = checked
  BY ZenonT(60), <1>7 DEF onOracleEvent, expireTx
<1>8. ASSUME UNCHANGED netVars PROVE checked' = checked
  BY ZenonT(60), <1>8 DEF netVars, nodeVars
<1>9. ASSUME NEW m \in Node, handleEvent(m) PROVE G
  BY ZenonT(60), <1>1, <1>2, <1>3, <1>6, <1>9
<1>10. G
  BY ZenonT(60), <1>1, <1>4, <1>5, <1>7, <1>8, <1>9 DEF NetNext
<1> QED BY ZenonT(60), <1>10 DEF G

(* A node that did not mine b learns of it by validating its proposal.     *)
LEMMA PendingMoves ==
    ASSUME NetTypeOK, [NetNext]_netVars, NEW n \in Node, NEW b \in Block, Proposer[b] # n,
           <<b, PrePrepared>> \in pending'[n], <<b, PrePrepared>> \notin pending[n]
    PROVE  b \in checked[n]
<1>1. TypeOK
  BY DEF NetTypeOK
<1>2. "PREPREPARE" \in MsgType /\ "PREPARE" \in MsgType /\ "COMMIT" \in MsgType
  BY DEF MsgType
<1>3. pending' # pending
  OBVIOUS
<1>4. ASSUME NEW m \in Node, proposeMined(m) PROVE FALSE
  <2>1. PICK c \in Block : c = round[m].block
    BY ZenonT(60), <1>4, RoundBlock DEF proposeMined, NetTypeOK
  <2>2. Proposer[c] = m /\ Insert(m, c, "PREPREPARE", m)
    BY ZenonT(60), <1>4, <2>1 DEF proposeMined, propose
  <2>3. n = m /\ b = c
    BY ZenonT(60), <1>1, <1>2, <2>2, InsertPublishes
  <2> QED BY ZenonT(60), <2>2, <2>3
<1>5. ASSUME NEW m \in Node, NEW c \in Block, logPrePrepare(m, c) PROVE b \in checked[n]
  <2>1. c \in checked[m] /\ Insert(m, c, "PREPREPARE", Proposer[c]) /\ Proposer[c] \in Node
    BY ZenonT(60), <1>5, ProposerAssumption DEF logPrePrepare, handlePrePrepare
  <2>2. n = m /\ b = c
    BY ZenonT(60), <1>1, <1>2, <2>1, InsertPublishes
  <2> QED BY ZenonT(60), <2>1, <2>2
<1>6. ASSUME NEW m \in Node, NEW c \in Block, NEW t \in {"PREPARE", "COMMIT"}, NEW k \in Node,
             onVote(m, c, t, k)
      PROVE  FALSE
  <2>1. t # "PREPREPARE" /\ t \in MsgType
    BY DEF MsgType
  <2>2. Insert(m, c, t, k)
    BY ZenonT(60), <1>6 DEF onVote, handleVote
  <2> QED BY ZenonT(60), <1>1, <2>1, <2>2, InsertPublishes
<1>7. ASSUME NEW m \in Node, NEW c \in Block, NEW s \in {PrePrepared, Prepared}, onState(m, c, s)
      PROVE  FALSE
  <2>1. pending' = [pending EXCEPT ![m] = @ \ {<<c, s>>}]
    BY ZenonT(60), <1>7 DEF onState, onNewState
  <2> QED BY <1>1, <2>1 DEF TypeOK
<1>8. ASSUME NEW m \in Node, restart(m) PROVE FALSE
  <2>1. pending' = [pending EXCEPT ![m] = {}]
    BY ZenonT(60), <1>8 DEF restart, Restart
  <2> QED BY <1>1, <2>1 DEF TypeOK
<1>9. ASSUME NEW m \in Node, onNewBeaconEntry(m) PROVE FALSE
  BY ZenonT(60), <1>3, <1>4, <1>9 DEF onNewBeaconEntry, selectBlock, noAcceptedBlocks, emptyRound,
        netVars, vars, pruneAndDeleteTxs, Prune, storeSelected, announceAndSubmit, MineBlock,
        skipMining
<1>10. ASSUME NEW m \in Node, handleEvent(m), ~\E c \in Block : logPrePrepare(m, c),
              ~\E c \in Block, k \in Node, t \in {"PREPARE", "COMMIT"} : onVote(m, c, t, k),
              ~\E c \in Block, s \in {PrePrepared, Prepared} : onState(m, c, s)
       PROVE  FALSE
  BY ZenonT(60), <1>3, <1>10 DEF handleEvent, onLatestBlockHeightUpdated, validatePrePrepare,
        dropPrePrepare, rejectPrePrepare, onNewBlock, vars
<1>11. ASSUME NEW m \in Node, handleEvent(m) PROVE b \in checked[n]
  BY ZenonT(60), <1>5, <1>6, <1>7, <1>10, <1>11
<1>12. ASSUME NEW m \in Node, NEW t \in Tx, onOracleEvent(m, t) \/ expireTx(m, t) PROVE FALSE
  BY ZenonT(60), <1>3, <1>12 DEF onOracleEvent, expireTx, vars
<1>13. ASSUME UNCHANGED netVars PROVE FALSE
  BY ZenonT(60), <1>3, <1>13 DEF netVars, vars
<1> QED BY ZenonT(60), <1>8, <1>9, <1>11, <1>12, <1>13 DEF NetNext

LEMMA ParentsHeldStep ==
    ASSUME NetTypeOK, NetTypeOK', HeadersSound, CacheSound, ParentsHeld, [NetNext]_netVars
    PROVE  ParentsHeld'
<1>0. ASSUME NEW b \in Block, header'[b] # NotMined PROVE ParentHeld(Proposer[b], b)'
  <2>0. Proposer[b] \in Node
    BY ProposerAssumption
  <2>1. CASE Mined(b)
    <3>1. ParentHeld(Proposer[b], b)
      BY ZenonT(60), <2>1 DEF ParentsHeld
    <3> QED BY ZenonT(60), <2>0, <3>1, ParentHeldStable
  <2>2. CASE ~Mined(b)
    <3>1. PICK n \in Node : MineBlock(n)
      BY ZenonT(60), <1>0, <2>2, HeaderMoves DEF Mined
    <3>2. PICK c \in Block : /\ Proposer[c] = n
                             /\ header'[c].parent = latestBlockHeader[n]
                             /\ \A d \in Block \ {c} : header'[d] = header[d]
      BY ZenonT(60), <3>1, MineEffect
    <3>3. b = c
      BY ZenonT(60), <1>0, <2>2, <3>2 DEF Mined
    <3>4. latestBlockHeader[n] = Genesis \/ HasBlock(n, latestBlockHeader[n])
      BY ZenonT(60), CachedHeld
    <3>5. header'[b].parent = Genesis \/ HasBlock(n, header'[b].parent)
      BY ZenonT(60), <3>2, <3>3, <3>4
    <3>6. header'[b].parent = Genesis \/ HasBlock(n, header[b].parent)'
      BY ZenonT(60), <3>5, ChainGrows DEF HasBlock
    <3> QED BY ZenonT(60), <1>0, <3>2, <3>3, <3>6 DEF ParentHeld, Mined
  <2> QED BY ZenonT(60), <2>1, <2>2
<1>1. ASSUME NEW n \in Node, NEW b \in checked'[n] PROVE ParentHeld(n, b)'
  <2>1. b \in Block /\ chain[n] \in Seq(Block)
    BY DEF NetTypeOK
  <2>2. ASSUME validatePrePrepare(n, b) PROVE ParentHeld(n, b)
    <3>1. Mined(b)
      BY ZenonT(60), <2>1, <2>2 DEF validatePrePrepare, HeadersSound
    <3>2. header[b].parent = LatestBlock(n)
      BY ZenonT(60), <2>2 DEF validatePrePrepare, ValidateBlock
    <3>3. LatestBlock(n) = Genesis \/ \E i \in 1..Len(chain[n]) : chain[n][i] = LatestBlock(n)
      BY <2>1 DEF LatestBlock
    <3>4. LatestBlock(n) = Genesis \/ HasBlock(n, LatestBlock(n))
      BY ZenonT(60), <2>1, <3>3, HeldAt
    <3> QED BY ZenonT(60), <3>1, <3>2, <3>4 DEF ParentHeld
  <2>3. ParentHeld(n, b)
    BY ZenonT(60), <1>1, <2>1, <2>2, CheckedMoves DEF ParentsHeld
  <2> QED BY ZenonT(60), <2>1, <2>3, ParentHeldStable
<1>2. ASSUME NEW n \in Node, NEW b \in Block, Proposer[b] # n, <<b, PrePrepared>> \in pending'[n]
      PROVE  ParentHeld(n, b)'
  <2>1. ParentHeld(n, b)
    BY ZenonT(60), <1>2, PendingMoves DEF ParentsHeld
  <2> QED BY ZenonT(60), <2>1, ParentHeldStable
<1>3. ASSUME NEW b \in Block, NEW k \in sent'[b]["PREPARE"] PROVE ParentHeld(k, b)'
  <2>1. k \in Node
    BY DEF NetTypeOK, TypeOK, Log, MsgType
  <2>2. k \in sent[b]["PREPARE"] \/ (Proposer[b] # k /\ <<b, PrePrepared>> \in pending[k])
    BY ZenonT(60), <1>3, SentMoves
  <2>3. ParentHeld(k, b)
    BY ZenonT(60), <2>1, <2>2 DEF ParentsHeld
  <2> QED BY ZenonT(60), <2>1, <2>3, ParentHeldStable
<1> QED BY ZenonT(60), <1>0, <1>1, <1>2, <1>3 DEF ParentsHeld, Mined

-----------------------------------------------------------------------------
(* The submissions.                                                        *)

(* The round of b's miner, as far as b is concerned.                       *)
LEMMA CommitMoves ==
    ASSUME NetTypeOK, NetTypeOK', Evidence, HeadersSound, [NetNext]_netVars, NEW b \in Block,
           NEW p \in Node, p = Proposer[b]
    PROVE  \/ \A at : Commits(b, at)' = Commits(b, at)
           \/ ~Commits(b, Working)'
           \/ ~Commits(b, {"store", "announce"})' /\ cinfo[p][b].hasBlock /\ p \in sent[b]["PREPREPARE"]
           \/ Commits(b, Working) /\ ~Commits(b, {"announce"})' /\ ~cinfo'[p][b].hasBlock
           \/ Commits(b, {"store", "announce"}) /\ HasBlock(p, b)'
<1>1. \A at : /\ Commits(b, at) <=> (round[p].at \in at /\ round[p].block = b)
              /\ Commits(b, at)' <=> (round'[p].at \in at /\ round'[p].block = b)
  BY ZenonT(60) DEF Commits
<1>2. CASE round'[p] = round[p]
  <2>1. \A at : Commits(b, at)' = Commits(b, at)
    BY ZenonT(60), <1>2 DEF Commits
  <2> QED BY ZenonT(60), <2>1
<1>3. CASE Rests(p) \/ Mines(p) \/ round'[p].block # b
  <2>1. ~Commits(b, Working)'
    <3>1. Rests(p) \/ Mines(p) => round'[p].at \notin Working
      BY DEF Rests, Mines, Working
    <3> QED BY ZenonT(60), <1>1, <1>3, <3>1
  <2> QED BY ZenonT(60), <2>1
<1>4. CASE Selects(p) /\ round'[p].block = b
  <2>1. cinfo[p][b].state = Commited
    BY ZenonT(60), <1>4 DEF Selects, GetAllBlocksWithCommit
  <2>2. cinfo[p][b].hasBlock /\ p \in sent[b]["PREPREPARE"]
    BY ZenonT(60), <2>1, CommitedBacked
  <2>3. ~Commits(b, {"store", "announce"})'
    <3>1. round'[p].at \notin {"store", "announce"}
      BY <1>4 DEF Selects
    <3> QED BY ZenonT(60), <1>1, <3>1
  <2> QED BY ZenonT(60), <2>2, <2>3
<1>5. CASE Prunes(p) /\ round'[p].block = b
  <2>1. cinfo'[p][b] = NoInfo
    <3>1. cinfo' = [cinfo EXCEPT ![p] = [c \in Block |-> NoInfo]]
      BY ZenonT(60), <1>5 DEF Prunes, Prune
    <3>2. p \in DOMAIN cinfo
      BY DEF NetTypeOK, TypeOK
    <3> QED BY <3>1, <3>2
  <2>2. ~cinfo'[p][b].hasBlock
    BY <2>1 DEF NoInfo
  <2>3. Commits(b, Working) /\ ~Commits(b, {"announce"})'
    <3>1. round[p].at \in Working /\ round[p].block = b /\ round'[p].at \notin {"announce"}
      BY <1>5 DEF Prunes, Working
    <3> QED BY ZenonT(60), <1>1, <3>1
  <2> QED BY ZenonT(60), <2>2, <2>3
<1>6. CASE Keeps(p) /\ round'[p].block = b
  <2>1. Commits(b, {"store", "announce"})
    BY ZenonT(60), <1>1, <1>6 DEF Keeps
  <2>2. HasBlock(p, b)'
    BY ZenonT(60), <1>6 DEF Keeps, HasBlock
  <2> QED BY ZenonT(60), <2>1, <2>2
<1> QED BY ZenonT(60), RoundMoves, <1>2, <1>3, <1>4, <1>5, <1>6

LEMMA SubmitsSoundStep ==
    ASSUME NetTypeOK, NetTypeOK', Evidence, HeadersSound, SubmitsSound, [NetNext]_netVars
    PROVE  SubmitsSound'
<1> SUFFICES ASSUME NEW b \in Block, NEW p \in Node, p = Proposer[b]
             PROVE  /\ submits'[b] <= 1
                    /\ submits'[b] = 1 => HasBlock(p, b)' /\ ~Commits(b, Working)'
                    /\ submits'[b] = 1 \/ Commits(b, Working)' => p \in sent'[b]["PREPREPARE"]
                    /\ submits'[b] = 1 \/ Commits(b, {"store", "announce"})' => ~cinfo'[p][b].hasBlock
                    /\ Commits(b, {"announce"})' => HasBlock(p, b)'
  <2>1. \A b \in Block : Proposer[b] \in Node
    BY ProposerAssumption
  <2> QED BY ZenonT(60), <2>1 DEF SubmitsSound, HasBlock
<1> DEFINE W == Commits(b, Working)
           S == Commits(b, {"store", "announce"})
           A == Commits(b, {"announce"})
<1>1. /\ submits[b] <= 1 /\ submits[b] \in Nat /\ submits'[b] \in Nat
      /\ submits[b] = 1 => HasBlock(p, b) /\ ~W
      /\ submits[b] = 1 \/ W => p \in sent[b]["PREPREPARE"]
      /\ submits[b] = 1 \/ S => ~cinfo[p][b].hasBlock
      /\ A => HasBlock(p, b)
  <2>1. submits[b] \in Nat /\ submits'[b] \in Nat
    BY DEF NetTypeOK
  <2> QED BY ZenonT(60), <2>1 DEF SubmitsSound
<1>2. (A => S) /\ (S => W) /\ (A' => S') /\ (S' => W')
  BY ZenonT(60) DEF Commits, Working
<1>3. HasBlock(p, b) => HasBlock(p, b)'
  BY ZenonT(60), ChainGrows
<1>4. p \in sent[b]["PREPREPARE"] => p \in sent'[b]["PREPREPARE"]
  BY ZenonT(60), NetSentGrows DEF MsgType
<1>5. p \in sent[b]["PREPREPARE"] /\ ~cinfo[p][b].hasBlock => ~cinfo'[p][b].hasBlock
  BY ZenonT(60), NetStep, NoRevivalStep DEF Consumed, NetTypeOK
<1>6. \/ W' = W /\ S' = S /\ A' = A
      \/ ~W'
      \/ ~S' /\ cinfo[p][b].hasBlock /\ p \in sent[b]["PREPREPARE"]
      \/ W /\ ~A' /\ ~cinfo'[p][b].hasBlock
      \/ S /\ HasBlock(p, b)'
  BY ZenonT(60), CommitMoves
<1>7. CASE submits'[b] = submits[b]
  <2> HIDE DEF W, S, A
  <2> QED BY ZenonT(60), <1>1, <1>2, <1>3, <1>4, <1>5, <1>6, <1>7 DEF W, S, A
<1>8. CASE submits'[b] # submits[b]
  <2>1. PICK n \in Node :
          /\ announceAndSubmit(n) /\ round[n].at = "announce" /\ round[n].block = b
          /\ submits'[b] = submits[b] + (IF Proposer[b] = n THEN 1 ELSE 0)
    BY ZenonT(60), <1>8, AnnounceMoves
  <2>2. n = p /\ submits'[b] = submits[b] + 1
    <3>1. submits[b] \in Nat
      BY DEF NetTypeOK
    <3>2. \A k \in Nat : k + 0 = k
      OBVIOUS
    <3> QED BY ZenonT(60), <1>8, <2>1, <3>1, <3>2
  <2>3. A
    BY ZenonT(60), <2>1, <2>2 DEF Commits
  <2>4. submits'[b] = 1
    <3>1. submits[b] # 1 /\ submits[b] \in Nat /\ submits[b] <= 1
      BY ZenonT(60), <1>1, <1>2, <2>3
    <3> QED BY <2>2, <3>1
  <2>5. round'[p].at = "mine"
    BY <2>1, <2>2 DEF announceAndSubmit, NetTypeOK
  <2>6. ~W'
    BY ZenonT(60), <2>5 DEF Commits, Working
  <2>7. submits'[b] <= 1
    BY <2>4
  <2> QED BY ZenonT(60), <1>1, <1>2, <1>3, <1>4, <1>5, <2>3, <2>4, <2>6, <2>7
<1> QED BY ZenonT(60), <1>7, <1>8

-----------------------------------------------------------------------------
LEMMA InitNetSound == NetInit => NetSound
<1> SUFFICES ASSUME NetInit PROVE NetSound
  OBVIOUS
<1>1. /\ \A b \in Block : /\ ~Mined(b) /\ announced[b] = {} /\ submits[b] = 0
                           /\ sent[b]["PREPREPARE"] = {} /\ sent[b]["PREPARE"] = {}
      /\ \A n \in Node : /\ chain[n] = <<>> /\ round[n].at = "idle" /\ checked[n] = {}
                          /\ latestBlockHeader[n] = Genesis /\ heightUpdated[n] = <<>>
                          /\ pending[n] = {}
  <2>1. \A b \in Block : header[b] = NotMined /\ announced[b] = {} /\ submits[b] = 0
    BY DEF NetInit
  <2>2. \A b \in Block : sent[b]["PREPREPARE"] = {} /\ sent[b]["PREPARE"] = {}
    BY DEF NetInit, Init, EmptyLog, MsgType
  <2>3. \A n \in Node : chain[n] = <<>> /\ round[n].at = "idle" /\ checked[n] = {}
    BY DEF NetInit, Idle
  <2>4. \A n \in Node : /\ latestBlockHeader[n] = Genesis /\ heightUpdated[n] = <<>>
                        /\ pending[n] = {}
    BY DEF NetInit, Init
  <2> QED BY ZenonT(60), <2>1, <2>2, <2>3, <2>4 DEF Mined
<1>2. Len(<<>>) = 0 /\ 1..0 = {}
  OBVIOUS
<1>3. \A n \in Node : 1..Len(chain[n]) = {} /\ 1..Len(heightUpdated[n]) = {}
  BY ZenonT(60), <1>1, <1>2
<1>4. \A b \in Block : Proposer[b] \in Node
  BY ProposerAssumption
<1>5. HeadersSound
  BY <1>1, <1>3 DEF HeadersSound, Known
<1>6. VotesBack
  <2>1. \A n \in Node : round[n].at \notin Working
    BY <1>1 DEF Working
  <2> QED BY ZenonT(60), <1>1, <1>3, <2>1 DEF VotesBack
<1>7. ChainsLinked /\ CommonPrefix /\ ParentsHeld
  BY ZenonT(60), <1>1, <1>3 DEF ChainsLinked, CommonPrefix, ParentsHeld
<1>8. SubmitsSound
  <2>1. \A b \in Block : ~Commits(b, Working) /\ ~Commits(b, {"store", "announce"})
                         /\ ~Commits(b, {"announce"})
    BY <1>1, <1>4 DEF Commits, Working
  <2>2. 0 <= 1 /\ 0 # 1
    OBVIOUS
  <2> QED BY ZenonT(60), <1>1, <2>1, <2>2 DEF SubmitsSound
<1>9. CacheSound
  <2>1. \A n \in Node : Cached(n) = 0 - 0
    BY ZenonT(60), <1>1, <1>2 DEF Cached
  <2>2. 0 - 0 = 0 /\ 0 >= 0
    OBVIOUS
  <2> QED BY ZenonT(60), <1>1, <1>3, <2>1, <2>2 DEF CacheSound
<1> QED BY ZenonT(60), <1>5, <1>6, <1>7, <1>8, <1>9 DEF NetSound

LEMMA NetSoundStep ==
    NetTypeOK /\ NetTypeOK' /\ Evidence /\ NetSound /\ [NetNext]_netVars => NetSound'
<1> SUFFICES ASSUME NetTypeOK, NetTypeOK', Evidence, NetSound, [NetNext]_netVars PROVE NetSound'
  OBVIOUS
<1>1. /\ HeadersSound /\ VotesBack /\ ChainsLinked /\ CacheSound
      /\ CommonPrefix /\ ParentsHeld /\ SubmitsSound
  BY ZenonT(60) DEF NetSound
<1>2. HeadersSound' /\ VotesBack'
  BY ZenonT(60), <1>1, HeadersSoundStep, VotesBackStep
<1>3. ChainsLinked'
  BY ZenonT(60), <1>1, ChainsLinkedStep
<1>4. CommonPrefix'
  BY ZenonT(60), <1>1, <1>3, CommonPrefixStep
<1>5. ParentsHeld' /\ SubmitsSound'
  BY ZenonT(60), <1>1, ParentsHeldStep, SubmitsSoundStep
<1>6. CacheSound'
  BY ZenonT(60), <1>1, CacheSoundStep
<1> QED BY ZenonT(60), <1>2, <1>3, <1>4, <1>5, <1>6 DEF NetSound

(* Mined headers, selected, announced and stored blocks, chains, votes and *)
(* submissions keep, together, the invariant that the four results below   *)
(* are read off from.                                                      *)
THEOREM NetworkSound == NetSpec => []NetSound
<1>1. NetSpec => []Evidence
  BY NetworkImplementsVoting, EvidenceHolds, PTL DEF ImplementsVoting
<1> QED BY <1>1, InitNetSound, NetSoundStep, NetTypeCorrect, PTL DEF NetSpec

(* Whatever votes come late and whoever restarts, the miner of a block     *)
(* submits its tasks at most once, and has the block on its chain by then. *)
THEOREM SubmittedOnce == NetSpec => []SubmitOnce
<1>1. NetSound => SubmitOnce
  BY ZenonT(60) DEF NetSound, SubmitsSound, SubmitOnce
<1> QED BY <1>1, NetworkSound, PTL

(* Whoever proposes or votes PREPARE for a block stores the block's        *)
(* parent, and goes on storing it: the miner although it builds on a       *)
(* cached header, the voter although it votes long after it validated.     *)
THEOREM VotersOnParent == NetSpec => []VotersHoldParent
<1>1. Evidence /\ NetSound => VotersHoldParent
  <2> SUFFICES ASSUME Evidence, NetSound, NEW b \in Block,
                      NEW k \in sent[b]["PREPREPARE"] \cup sent[b]["PREPARE"]
               PROVE  header[b].parent = Genesis \/ HasBlock(k, header[b].parent)
    BY ZenonT(60) DEF VotersHoldParent
  <2>1. CASE k \in sent[b]["PREPARE"]
    BY ZenonT(60), <2>1 DEF NetSound, ParentsHeld, ParentHeld
  <2>2. CASE k \in sent[b]["PREPREPARE"]
    <3>1. k = Proposer[b] /\ Mined(b)
      BY ZenonT(60), <2>2 DEF NetSound, HeadersSound, Evidence, RolesSound
    <3> QED BY ZenonT(60), <3>1 DEF NetSound, ParentsHeld, ParentHeld
  <2> QED BY ZenonT(60), <2>1, <2>2
<1>2. NetSpec => []Evidence
  BY NetworkImplementsVoting, EvidenceHolds, PTL DEF ImplementsVoting
<1> QED BY <1>1, <1>2, NetworkSound, PTL

(* No block gets on a chain without COMMITs of minApprovals nodes, not     *)
(* even by a NewBlock whose receiver has seen none of them.                *)
THEOREM StoredBlocksVoted == NetSpec => []StoredWasVoted
<1>1. NetTypeOK /\ NetSound => StoredWasVoted
  <2> SUFFICES ASSUME NetTypeOK, NetSound, NEW n \in Node, NEW b \in Range(chain[n])
               PROVE  Cardinality(sent[b]["COMMIT"]) >= minApprovals
    BY ZenonT(60) DEF StoredWasVoted
  <2>1. chain[n] \in Seq(Block)
    BY DEF NetTypeOK
  <2>2. PICK i \in 1..Len(chain[n]) : chain[n][i] = b
    BY ZenonT(60), <2>1, HeldAt DEF HasBlock
  <2> QED BY ZenonT(60), <2>2 DEF NetSound, VotesBack, Backed
<1> QED BY <1>1, NetTypeCorrect, NetworkSound, PTL

(* Chains that share a block share everything below it, at the heights     *)
(* that the headers give, for any number of nodes, blocks and forks.       *)
THEOREM ChainsSharePrefix == NetSpec => []CommonPrefix
<1>1. NetSound => CommonPrefix
  BY DEF NetSound
<1> QED BY <1>1, NetworkSound, PTL

-----------------------------------------------------------------------------
(* The voting core's results, in the network: rounds, restarts and failing *)
(* calls included, every COMMIT rests on a proposal and on PREPAREs of     *)
(* minApprovals - 1 other nodes (consensus_manager.go:89).                 *)
THEOREM NetworkPrepareCertified == NetSpec => []PrepareCertificate
BY NetworkImplementsVoting, PrepareCertified, PTL DEF ImplementsVoting

(* A block that a round has pruned, or a restart has lost, stays gone: no  *)
(* late vote brings its entry back (consensus_manager.go:61).              *)
THEOREM NetworkNotRevived == NetSpec => NoRevival
BY NetworkImplementsVoting, ProposalsNotRevived, PTL DEF ImplementsVoting

(* Two stored blocks share a node that has sent COMMIT for both.           *)
StoredShareVoter ==
    \A n, m \in Node : \A b \in Range(chain[n]), c \in Range(chain[m]) :
        sent[b]["COMMIT"] \cap sent[c]["COMMIT"] # {}

(* If minApprovals is more than half of the nodes, chains can only split   *)
(* through a node that commits both rivals: any two stored blocks share a  *)
(* voter.  Consensus keeps no record of the heights a node has committed   *)
(* (consensus_handler.go:106), so nothing stops that node.                 *)
THEOREM ForksNeedDoubleVoter ==
    ASSUME 2 * minApprovals > Cardinality(Node)
    PROVE  NetSpec => []StoredShareVoter
<1>1. NetTypeOK /\ StoredWasVoted => StoredShareVoter
  <2> SUFFICES ASSUME NetTypeOK, StoredWasVoted, NEW n \in Node, NEW m \in Node,
                      NEW b \in Range(chain[n]), NEW c \in Range(chain[m])
               PROVE  sent[b]["COMMIT"] \cap sent[c]["COMMIT"] # {}
    BY ZenonT(60) DEF StoredShareVoter
  <2>1. b \in Block /\ c \in Block
    <3>1. chain[n] \in Seq(Block) /\ chain[m] \in Seq(Block)
      BY DEF NetTypeOK
    <3> QED BY <3>1 DEF Range
  <2>2. /\ Cardinality(sent[b]["COMMIT"]) >= minApprovals
        /\ Cardinality(sent[c]["COMMIT"]) >= minApprovals
    BY ZenonT(60) DEF StoredWasVoted
  <2>3. sent[b]["COMMIT"] \subseteq Node /\ sent[c]["COMMIT"] \subseteq Node
    BY <2>1 DEF NetTypeOK, TypeOK, Log, MsgType
  <2> DEFINE B == sent[b]["COMMIT"]
             C == sent[c]["COMMIT"]
  <2>4. IsFiniteSet(B) /\ IsFiniteSet(C) /\ Cardinality(Node) \in Nat
    BY ZenonT(60), <2>3, NodeAssumption, FS_Subset, FS_CardinalityType
  <2>5. Cardinality(B) \in Nat /\ Cardinality(C) \in Nat
    BY ZenonT(60), <2>4, FS_CardinalityType
  <2> HIDE DEF B, C
  <2>6. Cardinality(B) + Cardinality(C) > Cardinality(Node)
    BY <2>2, <2>4, <2>5, ApprovalsAssumption DEF B, C
  <2>7. B \cap C # {}
    BY <2>3, <2>6, NodeAssumption, FS_MajoritiesIntersect DEF B, C
  <2> QED BY ZenonT(60), <2>7 DEF B, C
<1> QED BY <1>1, NetTypeCorrect, StoredBlocksVoted, PTL
=============================================================================
