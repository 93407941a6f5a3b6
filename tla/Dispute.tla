------------------------------- MODULE Dispute ------------------------------
(***************************************************************************)
(* The contract DioneDispute (eth-contracts/contracts/DioneDispute.sol).   *)
(* A dispute is named by the hash of the accused miner and the request.    *)
(***************************************************************************)
EXTENDS Oracle

CONSTANTS
    voteWindowTime,   \* how long votes are collected
    minStake          \* the stake that a vote takes

ASSUME DisputeAssumption == voteWindowTime \in Nat /\ minStake \in Nat /\ None \notin Account

VARIABLE disputes     \* disputes[m][r]: the dispute against m about r

NoDispute == [initiator |-> None, timestamp |-> 0, sum |-> 0, voted |-> <<>>,
              finished |-> FALSE, disputeResult |-> FALSE]

DisputeTypeOK ==
    disputes \in [Account -> [Request ->
        [initiator : Account \cup {None}, timestamp : 0..MaxTime, sum : Int,
         voted : Seq(Account), finished : BOOLEAN, disputeResult : BOOLEAN]]]

DisputeInit == disputes = [m \in Account |-> [r \in Request |-> NoDispute]]

CanBegin(a, m, r) == disputes[m][r].initiator = None /\ isMiner(a)

beginDispute(a, m, r) ==
    disputes' = [disputes EXCEPT ![m][r] = [NoDispute EXCEPT !.initiator = a,
                                                            !.timestamp = now]]

CanVote(a, m, r) ==
    LET d == disputes[m][r] IN
    /\ d.initiator # None /\ ~d.finished
    /\ a # d.initiator /\ a # m
    /\ isMiner(a) /\ amount[a] >= minStake

(* A vote weighs what its caller has staked.  Nothing here stops a second  *)
(* vote of the same account.                                               *)
vote(a, m, r, voteStatus) ==
    disputes' = [disputes EXCEPT ![m][r].sum = @ + (IF voteStatus THEN amount[a] ELSE -amount[a]),
                                 ![m][r].voted = Append(@, a)]

(* Those who share the stake: all voters, whatever they voted, and the     *)
(* initiator.                                                              *)
Recipients(m, r) == Append(disputes[m][r].voted, disputes[m][r].initiator)

(* finishDispute as a whole reverts if slashMiner does.                    *)
MutFinishAnyTime(a, m, r) ==
    LET d == disputes[m][r] IN
    /\ d.initiator = a
    /\ ~d.finished
    /\ d.sum > 0 => CanSlash(m, Recipients(m, r))

CanFinish(a, m, r) ==
    LET d == disputes[m][r] IN
    /\ d.initiator = a
    /\ now - d.timestamp >= voteWindowTime
    /\ ~d.finished
    /\ d.sum > 0 => CanSlash(m, Recipients(m, r))

finishDispute(m, r) ==
    LET upheld == disputes[m][r].sum > 0 IN
    /\ disputes' = [disputes EXCEPT
                       ![m][r].finished = TRUE,
                       ![m][r].disputeResult = upheld,
                       ![m][r].voted = IF upheld THEN Recipients(m, r) ELSE @]
    /\ IF upheld THEN slashMiner(m, Recipients(m, r)) ELSE UNCHANGED stakingVars
=============================================================================
