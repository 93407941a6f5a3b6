------------------------------- MODULE Oracle -------------------------------
(***************************************************************************)
(* The contract DioneOracle (eth-contracts/contracts/DioneOracle.sol): a   *)
(* request is pending until it is cancelled or answered, and the answer    *)
(* must come before the deadline.                                          *)
(***************************************************************************)
EXTENDS Staking

CONSTANTS
    MaxRequests,    \* bound: the requests that are made
    Answer,         \* the data that a request may be answered with
    MAXIMUM_DELAY,  \* the time an answer may take
    None            \* no value under a key

ASSUME OracleAssumption ==
    /\ None \notin Answer /\ None \notin [miner : Account, data : Answer]
    /\ MAXIMUM_DELAY \in Nat /\ MaxRequests \in Nat

Request == 1..MaxRequests

VARIABLES
    requestCounter,    \* the number of requests so far
    pendingRequests,   \* pendingRequests[r]: the deadline of r, if it is pending
    submitted          \* submitted[r]: SubmittedOracleRequest of r, with its sender

oracleVars == <<requestCounter, pendingRequests, submitted>>

Submission == [miner : Account, data : Answer]

OracleTypeOK ==
    /\ requestCounter \in Request \cup {0}
    /\ pendingRequests \in [Request -> Nat \cup {None}]
    /\ submitted \in [Request -> Submission \cup {None}]

OracleInit ==
    /\ requestCounter = 0
    /\ pendingRequests = [r \in Request |-> None]
    /\ submitted = [r \in Request |-> None]

requestOracles ==
    /\ requestCounter + 1 \in Request
    /\ requestCounter' = requestCounter + 1
    /\ pendingRequests' = [pendingRequests EXCEPT ![requestCounter'] = now + MAXIMUM_DELAY]
    /\ UNCHANGED submitted

(* By the account that asked.                                              *)
cancelOracleRequest(r) ==
    /\ pendingRequests[r] # None
    /\ pendingRequests' = [pendingRequests EXCEPT ![r] = None]
    /\ UNCHANGED <<requestCounter, submitted>>

CanSubmit(r) == pendingRequests[r] # None /\ pendingRequests[r] >= now

(* Any account may answer, and the first answer counts.  The request is    *)
(* deleted before its callback is looked up, so that the call goes to the  *)
(* zero address and does nothing.                                          *)
submitOracleRequest(a, r, data) ==
    /\ pendingRequests' = [pendingRequests EXCEPT ![r] = None]
    /\ mineAndStake(a)
    /\ submitted' = [submitted EXCEPT ![r] = [miner |-> a, data |-> data]]
    /\ UNCHANGED requestCounter
=============================================================================
