------------------------------ MODULE Election ------------------------------
(***************************************************************************)
(* A proposer mines a block (blockchain/miner.go, blockchain/types/        *)
(* block.go) and another node validates it (blockchain/blockchain.go)      *)
(* while the stakes they both read from Ethereum (ethclient/stake.go)      *)
(* move, the chain grows and the beacon (beacon/drand/drand.go) runs.      *)
(*                                                                         *)
(* Blocks of the chain are named by their heights.  The VRF is a signature *)
(* over the beacon's round and the height, and its hash is any number.     *)
(***************************************************************************)
EXTENDS Staking, WinCount

CONSTANTS
    proposer,        \* the account of the miner
    MinMinerStake,   \* the stake that ValidateBlock asks of a proposer
    Round,           \* the rounds of the beacon
    Draw,            \* the values that the hash of a VRF proof is looked at for
    Data,            \* the lists of transactions that a block may carry
    None,            \* no block
    MaxHeight,       \* bound: the height of the chain
    MaxMoves         \* bound: how often stakes move

(* What ValidateBlock tells apart in a transaction: a task that decodes,   *)
(* one that does not, and one whose Merkle proof fails.                    *)
TxKind == {"task", "undecodable", "unproven"}

ASSUME ElectionAssumption ==
    /\ proposer \in Account /\ MinMinerStake \in Nat
    /\ Round \subseteq Nat /\ Draw \subseteq 0..(One - 1)
    /\ Data \subseteq Seq(TxKind)
    /\ MaxHeight \in Nat \ {0} /\ MaxMoves \in Nat

VARIABLES
    moves,               \* how often stakes have moved
    \* the miner
    latestBlockHeader,   \* the header that the miner builds on
    mpc,                 \* where MineBlock is
    round, minerStake, networkStake, eproof,
    block,               \* the block that was mined
    \* the validating node
    latestHeight,        \* its chain
    localCache,          \* the rounds of the beacon that it has
    vpc,                 \* where ValidateBlock is
    mStake, nStake,
    worker,              \* worker[i]: where the goroutine for transaction i is
    err,                 \* the error variable that the goroutines share
    \* what happened, for the properties
    movedSince,          \* stakes moved since the miner was called
    replaced,            \* the miner's header was replaced between election and block
    cause                \* why a block was turned down

minerVars == <<latestBlockHeader, mpc, round, minerStake, networkStake, eproof, block>>
validatorVars == <<latestHeight, localCache, vpc, mStake, nStake, worker, err, cause>>
vars == <<now, stakingVars, moves, movedSince, replaced, minerVars, validatorVars>>

Height == 0..MaxHeight
Randomness == Round \X Height
Proof == [round : Round, vrf : [rand : Randomness, lhs : Draw], winCount : Nat]
Block == [height : Height, lastHash : Height, eproof : Proof, data : Data]
Cause == {"none", "lastHash", "notWinner", "eth", "notEligible", "beacon", "vrf", "winCount", "tx"}

ElectionTypeOK ==
    /\ StakingTypeOK /\ moves \in 0..MaxMoves /\ movedSince \in BOOLEAN /\ replaced \in BOOLEAN
    /\ latestBlockHeader \in Height /\ latestHeight \in Height
    /\ mpc \in {"idle", "stake", "total", "elect", "create", "panic"}
    /\ round \in Round \cup {0}
    /\ minerStake \in Nat /\ networkStake \in Nat /\ mStake \in Nat /\ nStake \in Nat
    /\ eproof \in Proof \cup {None} /\ block \in Block \cup {None}
    /\ localCache \subseteq Round
    /\ vpc \in {"idle", "eligible", "entry", "stake", "total", "count", "txs",
                "accepted", "rejected", "panic"}
    /\ DOMAIN worker \subseteq Nat
    /\ \A i \in DOMAIN worker : worker[i] \in {"verify", "unmarshal", "check", "send", "exit"}
    /\ err \in BOOLEAN /\ cause \in Cause

Init ==
    /\ StakingInit /\ moves = 0 /\ movedSince = FALSE /\ replaced = FALSE
    /\ latestBlockHeader = 0 /\ latestHeight = 0
    /\ mpc = "idle" /\ round = 0 /\ minerStake = 0 /\ networkStake = 0
    /\ eproof = None /\ block = None
    /\ localCache = {}
    /\ vpc = "idle" /\ mStake = 0 /\ nStake = 0
    /\ worker = <<>> /\ err = FALSE /\ cause = "none"

-----------------------------------------------------------------------------
(* The beacon.                                                             *)

(* A new entry is cached, and starts MineBlock at the miner, unless the    *)
(* handler of an earlier one still runs.  (The validating node may get it  *)
(* later, or not at all.)                                                  *)
newEntry(r) ==
    /\ mpc = "idle" /\ block = None /\ r > round
    /\ round' = r
    /\ mpc' = "stake"
    /\ movedSince' = FALSE
    /\ UNCHANGED <<now, stakingVars, moves, replaced, latestBlockHeader, minerStake, networkStake,
                   eproof, block, validatorVars>>

cacheValue(r) ==
    /\ r \notin localCache
    /\ localCache' = localCache \cup {r}
    /\ UNCHANGED <<now, stakingVars, moves, movedSince, replaced, minerVars,
                   latestHeight, vpc, mStake, nStake, worker, err, cause>>

-----------------------------------------------------------------------------
(* The miner.                                                              *)

MinerStep(from, to) ==
    /\ mpc = from /\ mpc' = to
    /\ UNCHANGED <<now, stakingVars, moves, movedSince, replaced, latestBlockHeader, validatorVars>>

(* UpdateCurrentStakeInfo makes two calls, one after the other; an error   *)
(* ends MineBlock.                                                         *)
GetMinerStake(a) == amount[a]
GetTotalStake == totalStake

readMinerStake ==
    \/ /\ MinerStep("stake", "total")
       /\ minerStake' = GetMinerStake(proposer)
       /\ UNCHANGED <<round, networkStake, eproof, block>>
    \/ MinerStep("stake", "idle") /\ UNCHANGED <<round, minerStake, networkStake, eproof, block>>

readTotalStake ==
    \/ /\ MinerStep("total", "elect")
       /\ networkStake' = GetTotalStake
       /\ UNCHANGED <<round, minerStake, eproof, block>>
    \/ MinerStep("total", "idle") /\ UNCHANGED <<round, minerStake, networkStake, eproof, block>>

DrawRandomness(r, h) == <<r, h>>
ComputeVRF(rand, lhs) == [rand |-> rand, lhs |-> lhs]

(* lambda divides by the total.                                            *)
isRoundWinner ==
    \/ /\ networkStake = 0
       /\ MinerStep("elect", "panic")
       /\ UNCHANGED <<round, minerStake, networkStake, eproof, block>>
    \/ /\ networkStake # 0
       /\ \E lhs \in Draw :
             LET j == ComputeWinCount(lhs, minerStake, networkStake) IN
             \/ /\ j < 1
                /\ MinerStep("elect", "idle")
                /\ UNCHANGED eproof
             \/ /\ j >= 1
                /\ MinerStep("elect", "create")
                /\ eproof' = [round |-> round,
                              vrf |-> ComputeVRF(DrawRandomness(round, latestBlockHeader + 1), lhs),
                              winCount |-> j]
       /\ UNCHANGED <<round, minerStake, networkStake, block>>

(* The header is read again, which an event handler may have replaced.     *)
CreateBlock ==
    /\ \/ /\ \E txs \in Data \ {<<>>} :
                block' = [height |-> latestBlockHeader + 1, lastHash |-> latestBlockHeader,
                          eproof |-> eproof, data |-> txs]
       \/ UNCHANGED block
    /\ MinerStep("create", "idle")
    /\ eproof' = None
    /\ UNCHANGED <<round, minerStake, networkStake>>

latestBlockHeightUpdated ==
    /\ latestBlockHeader + 1 < MaxHeight
    /\ latestBlockHeader' = latestBlockHeader + 1
    /\ replaced' = (replaced \/ mpc = "create")
    /\ UNCHANGED <<now, stakingVars, moves, movedSince, mpc, round, minerStake, networkStake,
                   eproof, block, validatorVars>>

-----------------------------------------------------------------------------
(* ValidateBlock.                                                          *)

ValidatorStep(from, to) ==
    /\ vpc = from /\ vpc' = to
    /\ UNCHANGED <<now, stakingVars, moves, movedSince, replaced, minerVars, latestHeight, localCache>>

Reject(from, why) ==
    /\ ValidatorStep(from, "rejected")
    /\ cause' = why
    /\ UNCHANGED <<mStake, nStake, worker, err>>

Continue(from, to) ==
    /\ ValidatorStep(from, to)
    /\ UNCHANGED <<mStake, nStake, worker, err, cause>>

checkHeader ==
    /\ block # None
    /\ \/ block.lastHash # latestHeight /\ Reject("idle", "lastHash")
       \/ block.lastHash = latestHeight /\ block.eproof.winCount < 1 /\ Reject("idle", "notWinner")
       \/ block.lastHash = latestHeight /\ block.eproof.winCount >= 1 /\ Continue("idle", "eligible")

(* Every read of a stake may fail, and turns the block down then.          *)
IsMinerEligibleToProposeBlock ==
    \/ Reject("eligible", "eth")
    \/ GetMinerStake(proposer) < MinMinerStake /\ Reject("eligible", "notEligible")
    \/ GetMinerStake(proposer) >= MinMinerStake /\ Continue("eligible", "entry")

VerifyVRF(rand, vrf) == vrf.rand = rand

MutLocalHeight == DrawRandomness(block.eproof.round, latestHeight + 1)

eproofRandomness == DrawRandomness(block.eproof.round, block.height)

(* A round that is not cached is fetched, which may fail.                  *)
verifyElectionProof ==
    /\ vpc = "entry"
    /\ \/ block.eproof.round \notin localCache /\ Reject("entry", "beacon")
       \/ ~VerifyVRF(eproofRandomness, block.eproof.vrf) /\ Reject("entry", "vrf")
       \/ VerifyVRF(eproofRandomness, block.eproof.vrf) /\ Continue("entry", "stake")

GetStakeInfo ==
    \/ Reject("stake", "eth")
    \/ /\ ValidatorStep("stake", "total")
       /\ mStake' = GetMinerStake(proposer)
       /\ UNCHANGED <<nStake, worker, err, cause>>
    \/ Reject("total", "eth")
    \/ /\ ValidatorStep("total", "count")
       /\ nStake' = GetTotalStake
       /\ UNCHANGED <<mStake, worker, err, cause>>

verifyWinCount ==
    \/ nStake = 0 /\ Continue("count", "panic")
    \/ /\ nStake # 0
       /\ vpc = "count" /\ ComputeWinCount(block.eproof.vrf.lhs, mStake, nStake) # block.eproof.winCount
       /\ Reject("count", "winCount")
    \/ /\ nStake # 0
       /\ vpc = "count" /\ ComputeWinCount(block.eproof.vrf.lhs, mStake, nStake) = block.eproof.winCount
       /\ ValidatorStep("count", "txs")
       /\ worker' = [i \in DOMAIN block.data |-> "verify"]
       /\ UNCHANGED <<mStake, nStake, err, cause>>

(* One goroutine for each transaction.  The result of Unmarshal goes to a  *)
(* variable of ValidateBlock itself, which all of them write and then      *)
(* read: the last write counts.  No package that registers a payload       *)
(* validation is part of the node, so that there is none to run.           *)
WorkerStep(i, from, to) ==
    /\ i \in DOMAIN worker /\ worker[i] = from
    /\ worker' = [worker EXCEPT ![i] = to]
    /\ UNCHANGED <<now, stakingVars, moves, movedSince, replaced, minerVars, latestHeight, localCache,
                   vpc, mStake, nStake, cause>>

VerifyTx(i) ==
    /\ WorkerStep(i, "verify", IF block.data[i] = "unproven" THEN "send" ELSE "unmarshal")
    /\ UNCHANGED err

Unmarshal(i) ==
    /\ WorkerStep(i, "unmarshal", "check")
    /\ err' = (block.data[i] = "undecodable")

MutNoCheck(i) == WorkerStep(i, "check", "exit") /\ UNCHANGED err

checkErr(i) ==
    /\ WorkerStep(i, "check", IF err THEN "send" ELSE "exit")
    /\ UNCHANGED err

MutWaitFirst ==
    /\ \A i \in DOMAIN worker : worker[i] = "exit"
    /\ Continue("txs", "accepted")

(* The first error is returned: who sends after it waits for ever.         *)
receiveResult ==
    \/ \E i \in DOMAIN worker :
          /\ worker[i] = "send"
          /\ ValidatorStep("txs", "rejected")
          /\ cause' = "tx"
          /\ worker' = [worker EXCEPT ![i] = "exit"]
          /\ UNCHANGED <<mStake, nStake, err>>
    \/ /\ \A i \in DOMAIN worker : worker[i] = "exit"
       /\ Continue("txs", "accepted")

commitOther ==
    /\ latestHeight + 1 < MaxHeight
    /\ latestHeight' = latestHeight + 1
    /\ UNCHANGED <<now, stakingVars, moves, movedSince, replaced, minerVars, localCache, vpc, mStake, nStake,
                   worker, err, cause>>

-----------------------------------------------------------------------------
(* Stakes are added and withdrawn, and rewards come in.                    *)
moveStake ==
    /\ moves < MaxMoves /\ moves' = moves + 1
    /\ movedSince' = TRUE
    /\ \E a \in Account :
          mineAndStake(a) \/ \E n \in Amount : stake(a, n) \/ withdraw(a, n)
    /\ UNCHANGED <<now, replaced, minerVars, validatorVars>>

mineBlock == readMinerStake \/ readTotalStake \/ isRoundWinner \/ CreateBlock

ValidateBlock ==
    \/ checkHeader \/ IsMinerEligibleToProposeBlock \/ verifyElectionProof
    \/ GetStakeInfo \/ verifyWinCount \/ receiveResult

goroutine(i) == VerifyTx(i) \/ Unmarshal(i) \/ checkErr(i)

TxIndex == UNION {DOMAIN d : d \in Data}

(* Bound: one validation is looked at, and what goes on around it until    *)
(* its verdict.                                                            *)
Decided == vpc \in {"accepted", "rejected", "panic"}

Next ==
    \/ \E r \in Round : newEntry(r) \/ (~Decided /\ cacheValue(r))
    \/ mineBlock
    \/ ~Decided /\ (latestBlockHeightUpdated \/ commitOther \/ moveStake)
    \/ ValidateBlock
    \/ \E i \in TxIndex : goroutine(i)

(* ValidateBlock and the goroutines that it starts are scheduled.          *)
Fairness ==
    /\ WF_vars(ValidateBlock)
    /\ \A i \in TxIndex : WF_vars(goroutine(i))

Spec == Init /\ [][Next]_vars /\ Fairness

-----------------------------------------------------------------------------
(* A block of a miner that runs this code is turned down only for a reason *)
(* that lies outside of the two nodes' computations: the win counts differ *)
(* only if stakes moved since the miner read them, the proof fails only if *)
(* the miner's header was replaced in the middle of MineBlock, and so on.  *)
RejectedForCause ==
    vpc = "rejected" =>
        CASE cause = "winCount"    -> movedSince
          [] cause = "notEligible" -> movedSince \/ minerStake < MinMinerStake
          [] cause = "vrf"         -> replaced
          [] cause = "tx"          -> \E i \in DOMAIN block.data : block.data[i] # "task"
          [] OTHER                 -> cause \in {"lastHash", "eth", "beacon"}

(* In a block that ValidateBlock accepts every transaction is proven by    *)
(* the block's hash, and not all of them are undecodable: the goroutine of *)
(* a transaction that decodes may cover for one that does not, by the      *)
(* error variable they share, and nothing else does.                       *)
AcceptedDecodes ==
    vpc = "accepted" =>
        /\ \A i \in DOMAIN block.data : block.data[i] # "unproven"
        /\ \E i \in DOMAIN block.data : block.data[i] = "task"

(* The division by the total stake fails only where even the proposer has  *)
(* nothing staked, or where stakes moved between the two reads.            *)
PanicNeedsNoStake ==
    /\ mpc = "panic" => minerStake = 0 \/ movedSince
    /\ vpc = "panic" => mStake = 0 \/ movedSince

(* A reference for expneg: the Taylor series of e^-x, inside out.          *)
Taylor(x) ==
    LET t[k \in 1..12] == IF k = 12 THEN One ELSE One - ((x * t[k + 1]) \div (k * One))
    IN  t[1]

(* The draw is fair: for every total the win count is bounded, nobody wins *)
(* without a stake, and a larger stake or a smaller draw never wins less;  *)
(* and the rational function that stands for e^-x is close to it.          *)
DrawIsFair ==
    mpc = "elect" /\ networkStake > 0 =>
        LET outcomes == {[lhs |-> lhs, stake |-> s, wins |-> ComputeWinCount(lhs, s, networkStake)] :
                            lhs \in Draw, s \in 0..networkStake} IN
        /\ \A o \in outcomes : o.wins \in 0..MaxWinCount /\ (o.stake = 0 => o.wins = 0)
        /\ \A o1, o2 \in outcomes :
              o1.lhs <= o2.lhs /\ o1.stake >= o2.stake => o1.wins >= o2.wins
        /\ \A s \in 0..networkStake :
              expneg(lambda(s, networkStake)) - Taylor(lambda(s, networkStake)) \in -8..8

(* A validation that has begun comes to a verdict, though the goroutines   *)
(* that it leaves behind may wait for ever.                                *)
ValidationEnds == vpc = "eligible" ~> Decided
=============================================================================
