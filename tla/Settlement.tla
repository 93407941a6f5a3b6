----------------------------- MODULE Settlement -----------------------------
(***************************************************************************)
(* How an answer settles on Ethereum: the nodes that submit the tasks of   *)
(* their blocks (consensus/consensus_handler.go), the dispute managers     *)
(* that watch the submissions (consensus/dispute_manager.go), the client   *)
(* they call the contracts through (ethclient/ethereum.go), and the        *)
(* contracts.                                                              *)
(*                                                                         *)
(* The mining of blocks is reduced to its outcome: a request is answered   *)
(* by the blocks of one or several proposers, and each node stores some of *)
(* them, in some order.  All nodes run the code as it is.                  *)
(***************************************************************************)
EXTENDS Dispute

CONSTANTS
    Proposer,       \* the nodes that win rounds
    Payload,        \* Payload[p][r]: what p's RPC call for r returned
    voteWindow,     \* ethereum.dispute_vote_window of the nodes
    MaxStored,      \* bound: the blocks that the nodes store together
    Changing,       \* bound: the nodes that restart, disconnect or move their stake
    MaxChanges      \* bound: how often they do

ASSUME SettlementAssumption ==
    /\ Proposer \subseteq Account /\ Payload \in [Proposer -> [Request -> Answer]]
    /\ voteWindow \in Nat /\ MaxStored \in Nat /\ MaxChanges \in Nat /\ Changing \subseteq Account

VARIABLES
    ledger,            \* ledger[n][r]: the proposers of n's blocks with r, oldest first
    txs,               \* txs[n]: n's transactions that are sent and not yet included
    submissionChan,    \* submissionChan[n]: the submissions n has not looked at
    disputesChan,      \* disputesChan[n]: the new disputes n has not looked at
    submissionCache,   \* submissionCache[n][r]: the submitted data that n saw
    disputeCache,      \* disputeCache[n][r]: the miner of the last dispute n saw
    timer,             \* timer[n][r]: when n's timer for r fires
    watching,          \* the nodes whose subscriptions are alive
    stored,            \* the blocks that were stored so far
    changes            \* how often they did

nodeVars == <<submissionCache, disputeCache, timer>>
chans == <<submissionChan, disputesChan, watching>>
vars == <<now, stakingVars, oracleVars, disputes, ledger, stored, txs, chans, nodeVars, changes>>

Call == [kind : {"submit"}, r : Request, data : Answer]
        \cup [kind : {"begin", "finish"}, m : Account, r : Request]
        \cup [kind : {"vote"}, m : Account, r : Request, status : BOOLEAN]

SettlementTypeOK ==
    /\ StakingTypeOK /\ OracleTypeOK /\ DisputeTypeOK
    /\ ledger \in [Account -> [Request -> Seq(Proposer)]]
    /\ txs \in [Account -> Seq(Call)]
    /\ submissionChan \in [Account -> Seq([r : Request, data : Answer])]
    /\ disputesChan \in [Account -> Seq([m : Account, r : Request, initiator : Account])]
    /\ submissionCache \in [Account -> [Request -> Answer \cup {None}]]
    /\ disputeCache \in [Account -> [Request -> Account \cup {None}]]
    /\ timer \in [Account -> [Request -> Nat \cup {None}]]
    /\ watching \subseteq Account
    /\ stored \in 0..MaxStored /\ changes \in 0..MaxChanges

ForEach(x) == [n \in Account |-> [r \in Request |-> x]]

Init ==
    /\ StakingInit /\ OracleInit /\ DisputeInit
    /\ ledger = ForEach(<<>>)
    /\ txs = [n \in Account |-> <<>>]
    /\ submissionChan = [n \in Account |-> <<>>]
    /\ disputesChan = [n \in Account |-> <<>>]
    /\ submissionCache = ForEach(None)
    /\ disputeCache = ForEach(None)
    /\ timer = ForEach(None)
    /\ watching = Account
    /\ stored = 0 /\ changes = 0

-----------------------------------------------------------------------------
(* The Ethereum client.                                                    *)

(* Whether the contract accepts call c of n in its present state.          *)
Accepts(n, c) ==
    \/ c.kind = "submit" /\ CanSubmit(c.r)
    \/ c.kind = "begin" /\ CanBegin(n, c.m, c.r)
    \/ c.kind = "vote" /\ CanVote(n, c.m, c.r)
    \/ c.kind = "finish" /\ CanFinish(n, c.m, c.r)

(* A session's call estimates its gas, and returns an error if the call    *)
(* would revert now; otherwise the transaction is sent and nobody waits    *)
(* for it.                                                                 *)
SubmitRequestAnswer(r, data) == [kind |-> "submit", r |-> r, data |-> data]
BeginDispute(m, r) == [kind |-> "begin", m |-> m, r |-> r]
VoteDispute(m, r, status) == [kind |-> "vote", m |-> m, r |-> r, status |-> status]
FinishDispute(m, r) == [kind |-> "finish", m |-> m, r |-> r]

Send(n, c) == txs' = [txs EXCEPT ![n] = Append(@, c)]

(* An event goes to the channel of every subscription that is alive.       *)
Emit(chan, e) == [n \in Account |-> IF n \in watching THEN Append(chan[n], e) ELSE chan[n]]
WatchSubmittedOracleRequest(e) == submissionChan' = Emit(submissionChan, e) /\ UNCHANGED watching
WatchNewDispute(e) == disputesChan' = Emit(disputesChan, e) /\ UNCHANGED watching

(* A block includes the oldest transaction of n; one that reverts by then  *)
(* is lost.                                                                *)
include(n) ==
    /\ txs[n] # <<>>
    /\ txs' = [txs EXCEPT ![n] = Tail(@)]
    /\ LET c == Head(txs[n]) IN
       \/ /\ Accepts(n, c) /\ c.kind = "submit"
          /\ submitOracleRequest(n, c.r, c.data)
          /\ WatchSubmittedOracleRequest([r |-> c.r, data |-> c.data])
          /\ UNCHANGED <<disputes, disputesChan>>
       \/ /\ Accepts(n, c) /\ c.kind = "begin"
          /\ beginDispute(n, c.m, c.r)
          /\ WatchNewDispute([m |-> c.m, r |-> c.r, initiator |-> n])
          /\ UNCHANGED <<stakingVars, oracleVars, submissionChan>>
       \/ /\ Accepts(n, c) /\ c.kind = "vote"
          /\ vote(n, c.m, c.r, c.status)
          /\ UNCHANGED <<stakingVars, oracleVars, chans>>
       \/ /\ Accepts(n, c) /\ c.kind = "finish"
          /\ finishDispute(c.m, c.r)
          /\ UNCHANGED <<oracleVars, chans>>
       \/ /\ ~Accepts(n, c)
          /\ UNCHANGED <<stakingVars, oracleVars, disputes, chans>>
    /\ UNCHANGED <<now, ledger, stored, nodeVars, changes>>

-----------------------------------------------------------------------------
(* The nodes.                                                              *)

(* n stores a block of p that answers r.  The proposer itself submits the  *)
(* answer; an error is only logged.                                        *)
storeBlock(n, r, p) ==
    LET c == SubmitRequestAnswer(r, Payload[p][r]) IN
    /\ r <= requestCounter
    /\ p \notin Range(ledger[n][r]) /\ stored < MaxStored
    /\ stored' = stored + 1
    /\ ledger' = [ledger EXCEPT ![n][r] = Append(@, p)]
    /\ IF p = n /\ Accepts(n, c) THEN Send(n, c) ELSE UNCHANGED txs
    /\ UNCHANGED <<now, stakingVars, oracleVars, disputes, chans, nodeVars, changes>>

(* The newest block with r is found, from the top of the chain down.       *)
found(n, r) == ledger[n][r] # <<>>
findTaskAndBlockWithRequestID(n, r) == ledger[n][r][Len(ledger[n][r])]

(* The answer of the local task differs from the submitted one.            *)
Mismatch(n, r, data) == Payload[findTaskAndBlockWithRequestID(n, r)][r] # data

MutUnchecked(n) ==
    /\ submissionChan[n] # <<>>
    /\ submissionChan' = [submissionChan EXCEPT ![n] = Tail(@)]
    /\ LET s == Head(submissionChan[n])
           c == BeginDispute(findTaskAndBlockWithRequestID(n, s.r), s.r) IN
       /\ submissionCache' = [submissionCache EXCEPT ![n][s.r] = s.data]
       /\ IF found(n, s.r) /\ Accepts(n, c)
          THEN Send(n, c) /\ timer' = [timer EXCEPT ![n][s.r] = now + voteWindow]
          ELSE UNCHANGED <<txs, timer>>
    /\ UNCHANGED <<now, stakingVars, oracleVars, disputes, ledger, stored,
                   disputesChan, watching, disputeCache, changes>>

(* A submission that differs from the local task opens a dispute against   *)
(* the proposer of the local block, and starts the timer that will close   *)
(* it.  The fields Checked, Voted and Finished are written, never read.    *)
onNewSubmission(n) ==
    /\ submissionChan[n] # <<>>
    /\ submissionChan' = [submissionChan EXCEPT ![n] = Tail(@)]
    /\ LET s == Head(submissionChan[n])
           c == BeginDispute(findTaskAndBlockWithRequestID(n, s.r), s.r) IN
       /\ submissionCache' = [submissionCache EXCEPT ![n][s.r] = s.data]
       /\ IF found(n, s.r) /\ Mismatch(n, s.r, s.data) /\ Accepts(n, c)
          THEN Send(n, c) /\ timer' = [timer EXCEPT ![n][s.r] = now + voteWindow]
          ELSE UNCHANGED <<txs, timer>>
    /\ UNCHANGED <<now, stakingVars, oracleVars, disputes, ledger, stored,
                   disputesChan, watching, disputeCache, changes>>

(* The timer looks the dispute up by its request alone, and does not try   *)
(* again when the call fails.                                              *)
finishTimer(n, r) ==
    LET c == FinishDispute(disputeCache[n][r], r) IN
    /\ timer[n][r] # None /\ timer[n][r] <= now
    /\ timer' = [timer EXCEPT ![n][r] = None]
    /\ IF disputeCache[n][r] # None /\ Accepts(n, c) THEN Send(n, c) ELSE UNCHANGED txs
    /\ UNCHANGED <<now, stakingVars, oracleVars, disputes, ledger, stored, chans,
                   submissionCache, disputeCache, changes>>

MutVoteAgain(n) ==
    /\ disputesChan[n] # <<>>
    /\ LET d == Head(disputesChan[n])
           c == VoteDispute(d.m, d.r, Mismatch(n, d.r, submissionCache[n][d.r]))
           votes == found(n, d.r) /\ submissionCache[n][d.r] # None /\ d.initiator # n IN
       /\ disputeCache' = [disputeCache EXCEPT ![n][d.r] = d.m]
       /\ IF votes /\ Accepts(n, c)
          THEN Send(n, c) /\ UNCHANGED disputesChan
          ELSE UNCHANGED txs /\ disputesChan' = [disputesChan EXCEPT ![n] = Tail(@)]
    /\ UNCHANGED <<now, stakingVars, oracleVars, disputes, ledger, stored, submissionChan, watching,
                   submissionCache, timer, changes>>

(* A node that has the task and saw the submission votes by what its own   *)
(* chain holds, unless it opened the dispute.                              *)
onNewDispute(n) ==
    /\ disputesChan[n] # <<>>
    /\ disputesChan' = [disputesChan EXCEPT ![n] = Tail(@)]
    /\ LET d == Head(disputesChan[n])
           c == VoteDispute(d.m, d.r, Mismatch(n, d.r, submissionCache[n][d.r]))
           votes == found(n, d.r) /\ submissionCache[n][d.r] # None /\ d.initiator # n IN
       /\ disputeCache' = [disputeCache EXCEPT ![n][d.r] = d.m]
       /\ IF votes /\ Accepts(n, c) THEN Send(n, c) ELSE UNCHANGED txs
    /\ UNCHANGED <<now, stakingVars, oracleVars, disputes, ledger, stored, submissionChan, watching,
                   submissionCache, timer, changes>>

Change(n) == n \in Changing /\ changes < MaxChanges /\ changes' = changes + 1

(* n's connection to Ethereum breaks: its subscriptions end with the events *)
(* that they hold.  The dispute manager does not look at their errors, and *)
(* nobody subscribes again before the node restarts.                       *)
Unsubscribe(n) ==
    /\ submissionChan' = [submissionChan EXCEPT ![n] = <<>>]
    /\ disputesChan' = [disputesChan EXCEPT ![n] = <<>>]

loseConnection(n) ==
    /\ Change(n)
    /\ watching' = watching \ {n}
    /\ Unsubscribe(n)
    /\ UNCHANGED <<now, stakingVars, oracleVars, disputes, ledger, stored, txs, nodeVars>>

(* A node restarts: what it kept in memory is gone, the events it missed   *)
(* included; the transactions it sent are not.                             *)
NewDisputeManager(n) ==
    /\ watching' = watching \cup {n}
    /\ submissionCache' = [submissionCache EXCEPT ![n] = [r \in Request |-> None]]
    /\ disputeCache' = [disputeCache EXCEPT ![n] = [r \in Request |-> None]]
    /\ timer' = [timer EXCEPT ![n] = [r \in Request |-> None]]

restart(n) ==
    /\ Change(n)
    /\ Unsubscribe(n)
    /\ NewDisputeManager(n)
    /\ UNCHANGED <<now, stakingVars, oracleVars, disputes, ledger, stored, txs>>

-----------------------------------------------------------------------------
(* The others: the clock, those who ask, and the owners of the stakes.     *)

Tick ==
    /\ tick
    /\ UNCHANGED <<stakingVars, oracleVars, disputes, ledger, stored, txs, chans, nodeVars, changes>>

Ask ==
    /\ requestOracles \/ \E r \in Request : cancelOracleRequest(r)
    /\ UNCHANGED <<now, stakingVars, disputes, ledger, stored, txs, chans, nodeVars, changes>>

MoveStake(n) ==
    /\ Change(n)
    /\ \E k \in Amount : stake(n, k) \/ withdraw(n, k)
    /\ UNCHANGED <<now, oracleVars, disputes, ledger, stored, txs, chans, nodeVars>>

Next ==
    \/ Tick
    \/ Ask
    \/ \E n \in Account :
          \/ include(n) \/ onNewSubmission(n) \/ onNewDispute(n)
          \/ MoveStake(n) \/ loseConnection(n) \/ restart(n)
          \/ \E r \in Request :
                \/ finishTimer(n, r)
                \/ \E p \in Proposer : storeBlock(n, r, p)

Spec == Init /\ [][Next]_vars

-----------------------------------------------------------------------------
(* The stakes are covered: the total that win counts are measured against  *)
(* is the sum of the miners' stakes and what the contract holds, however   *)
(* rewards, withdrawals and slashings interleave; and tokens come into     *)
(* being only as the reward of an answer, once for each request.           *)
StakeConserved ==
    /\ totalStake = Total(amount)
    /\ pool = totalStake
    /\ pool + Total(balance)
         = Supply + minerReward * Cardinality({r \in Request : submitted[r] # None})

(* No account has two entries among those who voted on a dispute, which    *)
(* would count its stake twice and give it two shares: the contract does   *)
(* not look, and it rests on the dispute managers alone.                   *)
VotesOnce ==
    \A m \in Account, r \in Request : IsInjective(disputes[m][r].voted)

(* A dispute is only ever opened against the proposer of a block whose     *)
(* answer differs from the one that was submitted: nodes whose answers     *)
(* agree with the submission are safe, on every fork, and so is the node   *)
(* that submitted.                                                         *)
DisputeHasGrounds ==
    \A m \in Account, r \in Request :
        disputes[m][r].initiator # None =>
            /\ submitted[r] # None /\ submitted[r].miner # m
            /\ m \in Proposer /\ Payload[m][r] # submitted[r].data

(* A miner's stake falls in two ways only: by its own withdrawal, which    *)
(* pays out what the stake loses, or when a dispute against it closes that *)
(* others voted for and that has been open for the whole vote window.      *)
StakeLoss ==
    \A m \in Account : amount'[m] < amount[m] =>
        \/ balance'[m] - balance[m] = amount[m] - amount'[m]
        \/ \E r \in Request :
              LET d == disputes[m][r] IN
              /\ ~d.finished /\ disputes'[m][r].finished
              /\ d.sum > 0 /\ d.voted # <<>>
              /\ now - d.timestamp >= voteWindowTime
NoOtherLoss == [][StakeLoss]_vars

(* Whoever loses its stake over a request is the one who submitted the     *)
(* answer that was disputed: "malicious nodes would lose their stakes"     *)
(* (README.md).                                                            *)
SlashedSubmitted ==
    \A m \in Account, r \in Request :
        disputes[m][r].disputeResult => submitted[r].miner = m
=============================================================================
