------------------------------ MODULE Consensus ------------------------------
(***************************************************************************)
(* The voting core of a Dione network: the ConsensusManager and message    *)
(* log of every node (consensus/consensus_manager.go, consensus/msg_log.go)*)
(* the handlers that feed them (consensus/consensus_handler.go), and the   *)
(* pubsub topic between the nodes (pubsub/pubsub_router.go).               *)
(*                                                                         *)
(* A block is identified with its hash.  A consensus message is a type, a  *)
(* sender and a block, so that a set of messages of one type about one     *)
(* block is the set of their senders.  Honest nodes sign what they send,   *)
(* so the signature tests of handlePrepare and handleCommit pass; whether  *)
(* a PREPREPARE passes ValidateBlock depends on the chain, which module    *)
(* DioneNetwork adds, and is left open here.                               *)
(***************************************************************************)
EXTENDS Integers, FiniteSets

CONSTANTS
    Node,          \* the peers of the service topic
    Block,         \* the hashes of the blocks that may be proposed
    Proposer,      \* the Header.Proposer of each block
    minApprovals   \* config.ConsensusMinApprovals, the same on every node

ASSUME NodeAssumption == IsFiniteSet(Node)
ASSUME ProposerAssumption == Proposer \in [Block -> Node]
ASSUME ApprovalsAssumption == minApprovals \in Nat

VARIABLES
    cinfo,    \* cinfo[n][b]: the entry of n's consensusInfoMap for b
    pending,  \* pending[n]: the consensus:newState events n has yet to handle
    sent,     \* sent[b][t]: who has broadcast a message of type t about b
    got       \* got[n][b][t]: whose message of type t about b reached n

vars == <<cinfo, pending, sent, got>>

MsgType == {"PREPREPARE", "PREPARE", "COMMIT"}

Unknown     == 0
PrePrepared == 1
Prepared    == 2
Commited    == 3

Log == [MsgType -> SUBSET Node]

EmptyLog == [t \in MsgType |-> {}]

(* An entry that is not in the map.  InsertMessageIntoLog never leaves an  *)
(* entry with an empty log behind, so absence needs no value of its own.   *)
NoInfo == [state |-> Unknown, hasBlock |-> FALSE, log |-> EmptyLog]

NewState == Block \X {PrePrepared, Prepared}

TypeOK ==
    /\ cinfo \in [Node -> [Block -> [state : Unknown..Commited,
                                     hasBlock : BOOLEAN, log : Log]]]
    /\ pending \in [Node -> SUBSET NewState]
    /\ sent \in [Block -> Log]
    /\ got \in [Node -> [Block -> Log]]

-----------------------------------------------------------------------------
(* The message log and the state of one entry.                             *)

(* ConsensusMessageLog.Get: every message of an entry's log is about that  *)
(* entry's block, so the hash comparison selects nothing further.          *)
Get(ci, t) == ci.log[t]

MutAcceptAnyType(ci, t) ==
    IF ci.state = Unknown
    THEN [ci EXCEPT !.state = PrePrepared, !.hasBlock = TRUE] ELSE ci

MutForgetBlock(ci, t) ==
    IF ci.state = Unknown /\ t = "PREPREPARE"
    THEN [ci EXCEPT !.state = PrePrepared,
                    !.hasBlock = Get(ci, "PREPARE") \cup Get(ci, "COMMIT") = {}]
    ELSE ci

DiscoverBlock(ci, t) ==
    IF ci.state = Unknown /\ t = "PREPREPARE"
    THEN [ci EXCEPT !.state = PrePrepared, !.hasBlock = TRUE] ELSE ci

MutCountPreparesOffByOne(ci) ==
    IF Cardinality(Get(ci, "PREPARE")) >= minApprovals - 2 /\ ci.state = PrePrepared
    THEN [ci EXCEPT !.state = Prepared] ELSE ci

CountPrepares(ci) ==
    IF Cardinality(Get(ci, "PREPARE")) >= minApprovals - 1 /\ ci.state = PrePrepared
    THEN [ci EXCEPT !.state = Prepared] ELSE ci

MutCountCommitsOffByOne(ci) ==
    IF Cardinality(Get(ci, "COMMIT")) >= minApprovals - 1 /\ ci.state = Prepared
    THEN [ci EXCEPT !.state = Commited] ELSE ci

MutCountCommitsAgain(ci) ==
    IF Cardinality(Get(ci, "COMMIT")) >= minApprovals /\ ci.state >= Prepared
    THEN [ci EXCEPT !.state = @ + 1] ELSE ci

MutCountCommitsStrictly(ci) ==
    IF Cardinality(Get(ci, "COMMIT")) > minApprovals /\ ci.state = Prepared
    THEN [ci EXCEPT !.state = Commited] ELSE ci

CountCommits(ci) ==
    IF Cardinality(Get(ci, "COMMIT")) >= minApprovals /\ ci.state = Prepared
    THEN [ci EXCEPT !.state = Commited] ELSE ci

(* Three tests in a row: one message can carry an entry over several states.*)
maybeUpdateConsensusState(ci, t) == CountCommits(CountPrepares(DiscoverBlock(ci, t)))

(* The log is a set.  A message that is already there changes nothing, but *)
(* no message reaches a node twice, so how the set compares does not matter.*)
InsertMessageIntoLog(ci, t, from) ==
    IF from \in ci.log[t] THEN ci
    ELSE maybeUpdateConsensusState([ci EXCEPT !.log[t] = @ \cup {from}], t)

(* The states published while an entry moves from old to new.  The         *)
(* subscriber only logs the arrival in Commited.                           *)
Published(b, old, new) ==
    {b} \X {s \in {PrePrepared, Prepared} : old.state < s /\ s <= new.state}

(* n inserts a message of type t from k about b, under mapMutex.           *)
Insert(n, b, t, k) ==
    LET ci == InsertMessageIntoLog(cinfo[n][b], t, k) IN
    /\ cinfo' = [cinfo EXCEPT ![n][b] = ci]
    /\ pending' = [pending EXCEPT ![n] = @ \cup Published(b, cinfo[n][b], ci)]

-----------------------------------------------------------------------------
Init ==
    /\ cinfo = [n \in Node |-> [b \in Block |-> NoInfo]]
    /\ pending = [n \in Node |-> {}]
    /\ sent = [b \in Block |-> EmptyLog]
    /\ got = [n \in Node |-> [b \in Block |-> EmptyLog]]

Broadcast(n, b, t) == sent' = [sent EXCEPT ![b][t] = @ \cup {n}]

(* propose: the block's own proposer logs its PREPREPARE without           *)
(* validation, then broadcasts it.  A block is mined, hence proposed, once.*)
propose(n, b) ==
    /\ Proposer[b] = n
    /\ sent[b]["PREPREPARE"] = {}
    /\ Insert(n, b, "PREPREPARE", n)
    /\ Broadcast(n, b, "PREPREPARE")
    /\ UNCHANGED got

(* The topic hands each message at most once to each node, in any order or *)
(* never, and the router drops a node's own messages.                      *)
Deliver(n, b, t, k) ==
    /\ k \in sent[b][t]
    /\ k # n
    /\ k \notin got[n][b][t]
    /\ got' = [got EXCEPT ![n][b][t] = @ \cup {k}]

(* A PREPREPARE that ValidateBlock accepts.                                *)
handlePrePrepare(n, b, k) ==
    /\ Deliver(n, b, "PREPREPARE", k)
    /\ Proposer[b] # n
    /\ Insert(n, b, "PREPREPARE", k)
    /\ UNCHANGED sent

(* A PREPREPARE that ValidateBlock rejects is consumed and forgotten.      *)
rejectPrePrepare(n, b, k) ==
    /\ Deliver(n, b, "PREPREPARE", k)
    /\ UNCHANGED <<cinfo, pending, sent>>

(* handlePrepare and handleCommit.                                         *)
handleVote(n, b, t, k) ==
    /\ t \in {"PREPARE", "COMMIT"}
    /\ Deliver(n, b, t, k)
    /\ Insert(n, b, t, k)
    /\ UNCHANGED sent

MutProposerPrepares(n, b, s) ==
    /\ <<b, s>> \in pending[n]
    /\ s = Prepared => <<b, PrePrepared>> \notin pending[n]
    /\ pending' = [pending EXCEPT ![n] = @ \ {<<b, s>>}]
    /\ \/ s = PrePrepared /\ Broadcast(n, b, "PREPARE")
       \/ s = Prepared /\ Broadcast(n, b, "COMMIT")
    /\ UNCHANGED <<cinfo, got>>

(* The subscriber of consensus:newState: a node other than the proposer    *)
(* answers PrePrepared with a PREPARE, and every node answers Prepared with*)
(* a COMMIT.  It acts on the event, whatever has become of the entry since.*)
(* The subscription is transactional: events come in the order published.  *)
onNewState(n, b, s) ==
    /\ <<b, s>> \in pending[n]
    /\ s = Prepared => <<b, PrePrepared>> \notin pending[n]
    /\ pending' = [pending EXCEPT ![n] = @ \ {<<b, s>>}]
    /\ \/ s = PrePrepared /\ Proposer[b] # n /\ Broadcast(n, b, "PREPARE")
       \/ s = PrePrepared /\ Proposer[b] = n /\ UNCHANGED sent
       \/ s = Prepared /\ Broadcast(n, b, "COMMIT")
    /\ UNCHANGED <<cinfo, got>>

(* Prune forgets every entry, committed or not.                            *)
Prune(n) ==
    /\ cinfo' = [cinfo EXCEPT ![n] = [b \in Block |-> NoInfo]]
    /\ UNCHANGED <<pending, sent, got>>

(* The consensus state is held in memory only.                             *)
Restart(n) ==
    /\ cinfo' = [cinfo EXCEPT ![n] = [b \in Block |-> NoInfo]]
    /\ pending' = [pending EXCEPT ![n] = {}]
    /\ UNCHANGED <<sent, got>>

Next ==
    \E n \in Node :
        \/ \E b \in Block :
            \/ propose(n, b)
            \/ \E k \in Node : handlePrePrepare(n, b, k)
            \/ \E k \in Node : rejectPrePrepare(n, b, k)
            \/ \E k \in Node, t \in MsgType : handleVote(n, b, t, k)
            \/ \E s \in {PrePrepared, Prepared} : onNewState(n, b, s)
        \/ Prune(n)
        \/ Restart(n)

Spec == Init /\ [][Next]_vars

-----------------------------------------------------------------------------
(* A node that has reached Commited for b (consensus_manager.go:94) heard  *)
(* so from at least minApprovals nodes other than itself: its own COMMIT   *)
(* never counts, because the router drops it, and messages that arrive     *)
(* late, after a Prune, or after a restart do not count twice.             *)
CommitCertificate ==
    \A n \in Node, b \in Block :
        cinfo[n][b].state = Commited =>
            Cardinality(sent[b]["COMMIT"] \ {n}) >= minApprovals

(* What entitles k to a COMMIT for b.                                      *)
Prepares(b, k) ==
    /\ sent[b]["PREPREPARE"] = {Proposer[b]}
    /\ Cardinality(sent[b]["PREPARE"] \ {k, Proposer[b]}) >= minApprovals - 1

(* Every COMMIT that was ever broadcast rests on a proposal of the block   *)
(* and on PREPAREs from minApprovals - 1 nodes that are neither its sender *)
(* nor the proposer (consensus_manager.go:89, consensus_handler.go:98).    *)
PrepareCertificate ==
    \A b \in Block : \A k \in sent[b]["COMMIT"] : Prepares(b, k)

(* What n's log holds about b really was sent, and reached n or is n's own *)
(* proposal.                                                               *)
LogSound ==
    \A n \in Node, b \in Block, t \in MsgType :
        /\ got[n][b][t] \subseteq sent[b][t] \ {n}
        /\ cinfo[n][b].log[t] \subseteq got[n][b][t] \cup {n}
        /\ n \in cinfo[n][b].log[t] => t = "PREPREPARE" /\ n \in sent[b][t]

(* Only a block's proposer proposes it, and it never votes PREPARE.        *)
RolesSound ==
    \A b \in Block :
        /\ sent[b]["PREPREPARE"] \subseteq {Proposer[b]}
        /\ Proposer[b] \notin sent[b]["PREPARE"]

(* The state of an entry is witnessed by its log.                          *)
StateSound ==
    \A n \in Node, b \in Block :
        LET ci == cinfo[n][b] IN
        /\ ci.state # Unknown => ci.hasBlock
        /\ ci.hasBlock => ci.log["PREPREPARE"] # {}
        /\ ci.state >= Prepared => Cardinality(ci.log["PREPARE"]) >= minApprovals - 1
        /\ ci.state = Commited => Cardinality(ci.log["COMMIT"]) >= minApprovals

PendingSound ==
    \A n \in Node, b \in Block : <<b, Prepared>> \in pending[n] => Prepares(b, n)

(* The inductive invariant behind the certificates: every message in a     *)
(* node's log was really sent by someone else (or is its own proposal),    *)
(* every state is witnessed by the log, and every COMMIT that was sent or  *)
(* is about to be (consensus_handler.go:89) by PREPAREs that were sent.    *)
Evidence ==
    /\ LogSound
    /\ RolesSound
    /\ StateSound
    /\ PendingSound
    /\ PrepareCertificate

(* A proposal n has consumed: it arrived, or n is its proposer.            *)
Consumed(n, b) ==
    \/ got[n][b]["PREPREPARE"] # {}
    \/ n \in sent[b]["PREPREPARE"]

(* A block that a node has consumed and no longer holds (it was rejected,  *)
(* pruned or lost in a restart) never comes back to life there: votes that *)
(* arrive later re-create the entry (consensus_manager.go:61) but cannot   *)
(* carry it to Commited, so no block is selected twice.                    *)
NoRevival ==
    [][\A n \in Node, b \in Block :
        Consumed(n, b) /\ ~cinfo[n][b].hasBlock => ~cinfo'[n][b].hasBlock]_vars

(* Only an entry that holds its block leaves Unknown: GetAllBlocksWithCommit*)
(* hands commitAcceptedBlocks no entry whose Block is nil, which it would  *)
(* dereference (consensus_handler.go:365).                                 *)
CommitedHasBlock ==
    \A n \in Node, b \in Block : cinfo[n][b].state # Unknown => cinfo[n][b].hasBlock

=============================================================================
