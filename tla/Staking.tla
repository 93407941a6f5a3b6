------------------------------ MODULE Staking -------------------------------
(***************************************************************************)
(* The contract DioneStaking (eth-contracts/contracts/DioneStaking.sol)    *)
(* with the token balances it moves, and the clock of Ethereum.            *)
(*                                                                         *)
(* A call is an action whose guard is the conjunction of its requires: one *)
(* that would fail reverts, and changes nothing.                           *)
(***************************************************************************)
EXTENDS Integers, FiniteSets, Sequences, Functions

CONSTANTS
    Account,        \* the Ethereum accounts of the nodes
    minimumStake,   \* the stake that makes an account a miner
    minerReward,    \* what a submission earns
    Amount,         \* the amounts that are staked and withdrawn
    Holding,        \* Holding[a]: what a staked when the system was deployed
    Spare,          \* Spare[a]: the other tokens of a
    MaxTime         \* bound: the last time that is looked at

ASSUME StakingAssumption ==
    /\ IsFiniteSet(Account)
    /\ minimumStake \in Nat \ {0} /\ minerReward \in Nat /\ MaxTime \in Nat
    /\ Amount \subseteq Nat /\ Holding \in [Account -> Nat]
    /\ Spare \in [Account -> Nat]

VARIABLES
    now,          \* block.timestamp
    balance,      \* balance[a]: the tokens of a
    pool,         \* the tokens of the contract itself
    amount,       \* minerInfo[a].amount
    totalStake    \* _totalStake

stakingVars == <<balance, pool, amount, totalStake>>

Total(f) == SumFunction(f)

(* The tokens that exist from the start.                                   *)
Supply == Total(Holding) + Total(Spare)

StakingTypeOK ==
    /\ now \in 0..MaxTime
    /\ balance \in [Account -> Nat] /\ amount \in [Account -> Nat]
    /\ pool \in Nat /\ totalStake \in Nat

(* After the deployment, when the nodes have staked.                       *)
StakingInit ==
    /\ now = 0
    /\ balance = Spare
    /\ amount = Holding
    /\ pool = Total(Holding)
    /\ totalStake = Total(Holding)

tick == now < MaxTime /\ now' = now + 1

isMiner(a) == amount[a] >= minimumStake

MutStakeUncovered(a, n) ==
    /\ n > 0 /\ n >= minimumStake
    /\ balance' = [balance EXCEPT ![a] = @ - n]
    /\ pool' = pool + n
    /\ totalStake' = totalStake + n
    /\ amount' = [amount EXCEPT ![a] = @ + n]

stake(a, n) ==
    /\ n > 0 /\ n >= minimumStake
    /\ balance[a] >= n
    /\ balance' = [balance EXCEPT ![a] = @ - n]
    /\ pool' = pool + n
    /\ totalStake' = totalStake + n
    /\ amount' = [amount EXCEPT ![a] = @ + n]

MutWithdrawTwice(a, n) ==
    /\ amount[a] >= n
    /\ n > 0 /\ totalStake >= 2 * n
    /\ totalStake' = totalStake - 2 * n
    /\ amount' = [amount EXCEPT ![a] = @ - n]
    /\ pool' = pool - n
    /\ balance' = [balance EXCEPT ![a] = @ + n]

withdraw(a, n) ==
    /\ amount[a] >= n
    /\ n > 0
    /\ totalStake' = totalStake - n
    /\ amount' = [amount EXCEPT ![a] = @ - n]
    /\ pool' = pool - n
    /\ balance' = [balance EXCEPT ![a] = @ + n]

(* The reward of a submission is minted to the contract and staked.        *)
mineAndStake(a) ==
    /\ pool' = pool + minerReward
    /\ totalStake' = totalStake + minerReward
    /\ amount' = [amount EXCEPT ![a] = @ + minerReward]
    /\ UNCHANGED balance

(* Whether slashMiner goes through for these recipients.                   *)
CanSlash(miner, recipients) ==
    /\ isMiner(miner)
    /\ \A r \in Range(recipients) : r # miner /\ isMiner(r)

(* The places of a in the list.                                            *)
Entries(recipients, a) == {i \in DOMAIN recipients : recipients[i] = a}

MutSlashAll(miner, recipients) ==
    LET share == amount[miner] \div Len(recipients) IN
    /\ amount' = [a \in Account |->
                     IF a = miner THEN 0
                     ELSE amount[a] + share * Cardinality(Entries(recipients, a))]
    /\ UNCHANGED <<balance, pool, totalStake>>

(* The stake goes to the recipients in equal shares, one for each entry of *)
(* the list; what the division leaves over stays with the miner.           *)
slashMiner(miner, recipients) ==
    LET share == amount[miner] \div Len(recipients) IN
    /\ amount' = [a \in Account |->
                     IF a = miner THEN amount[a] - share * Len(recipients)
                     ELSE amount[a] + share * Cardinality(Entries(recipients, a))]
    /\ UNCHANGED <<balance, pool, totalStake>>
=============================================================================
