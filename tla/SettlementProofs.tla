--------------------------- MODULE SettlementProofs -------------------------
(***************************************************************************)
(* Proofs about the settlement, for any number of nodes and requests, any  *)
(* answers, stakes and windows.                                            *)
(***************************************************************************)
EXTENDS Settlement, StakingProofs

(* The backends a leaf is tried with, in this order, unless it names one.  *)
USE SMTT(60), Z3T(60), ZenonT(60)

-----------------------------------------------------------------------------
(* The elements of a sequence.                                             *)
Elems(s) == {s[i] : i \in 1..Len(s)}

LEMMA ElemsAppend ==
    ASSUME NEW S, NEW s \in Seq(S), NEW e
    PROVE  Elems(Append(s, e)) = Elems(s) \cup {e}
<1>1. Len(Append(s, e)) = Len(s) + 1 /\ Len(s) \in Nat
  OBVIOUS
<1>2. \A i \in 1..(Len(s) + 1) : Append(s, e)[i] = IF i = Len(s) + 1 THEN e ELSE s[i]
  OBVIOUS
<1> HIDE DEF Elems
<1>3. ASSUME NEW x \in Elems(Append(s, e)) PROVE x \in Elems(s) \cup {e}
  BY <1>1, <1>2, <1>3 DEF Elems
<1>4. ASSUME NEW x \in Elems(s) PROVE x \in Elems(Append(s, e))
  <2>1. PICK i \in 1..Len(s) : x = s[i]
    BY <1>4 DEF Elems
  <2>2. i \in 1..(Len(s) + 1) /\ Append(s, e)[i] = x
    BY <1>1, <1>2, <2>1
  <2> QED BY <1>1, <2>2 DEF Elems
<1>5. e \in Elems(Append(s, e))
  <2>1. Len(s) + 1 \in 1..(Len(s) + 1) /\ Append(s, e)[Len(s) + 1] = e
    BY <1>1, <1>2
  <2> QED BY <1>1, <2>1 DEF Elems
<1> QED BY <1>3, <1>4, <1>5

LEMMA ElemsTail ==
    ASSUME NEW S, NEW s \in Seq(S), s # <<>>
    PROVE  /\ Head(s) \in Elems(s) /\ Head(s) \in S
           /\ Tail(s) \in Seq(S) /\ Elems(Tail(s)) \subseteq Elems(s)
<1>1. /\ Len(s) \in Nat /\ Len(s) > 0 /\ Head(s) = s[1] /\ Len(Tail(s)) = Len(s) - 1
      /\ Tail(s) \in Seq(S) /\ Head(s) \in S
  OBVIOUS
<1>2. \A i \in 1..(Len(s) - 1) : Tail(s)[i] = s[i + 1]
  OBVIOUS
<1>3. ASSUME NEW x \in Elems(Tail(s)) PROVE x \in Elems(s)
  <2>1. PICK i \in 1..(Len(s) - 1) : x = Tail(s)[i]
    BY <1>1, <1>3 DEF Elems
  <2>2. i + 1 \in 1..Len(s) /\ x = s[i + 1]
    BY <1>1, <1>2, <2>1
  <2> QED BY <2>2 DEF Elems
<1>4. 1 \in 1..Len(s)
  BY <1>1
<1> QED BY <1>1, <1>3, <1>4 DEF Elems

LEMMA ElemsEmpty == Elems(<<>>) = {}
BY DEF Elems

-----------------------------------------------------------------------------
(* The types that the arguments below rest on.                             *)

Submitted == [r : Request, data : Answer]
Opened == [m : Account, r : Request, initiator : Account]

ChainTypes ==
    /\ now \in 0..MaxTime /\ OracleTypeOK
    /\ disputeCache \in [Account -> [Request -> Account \cup {None}]]
    /\ ledger \in [Account -> [Request -> Seq(Proposer)]]

QueueTypes ==
    /\ txs \in [Account -> Seq(Call)]
    /\ submissionChan \in [Account -> Seq(Submitted)]
    /\ disputesChan \in [Account -> Seq(Opened)]

Types == ChainTypes /\ QueueTypes

LEMMA CallTypes ==
    ASSUME NEW r \in Request, NEW m \in Account
    PROVE  /\ \A data \in Answer : SubmitRequestAnswer(r, data) \in Call
           /\ BeginDispute(m, r) \in Call /\ FinishDispute(m, r) \in Call
           /\ \A status \in BOOLEAN : VoteDispute(m, r, status) \in Call
BY DEF Call, SubmitRequestAnswer, BeginDispute, FinishDispute, VoteDispute

LEMMA CallFields ==
    ASSUME NEW c \in Call
    PROVE  /\ c.r \in Request
           /\ c.kind = "submit" => c.data \in Answer
           /\ c.kind # "submit" => c.m \in Account
           /\ c.kind = "vote" => c.status \in BOOLEAN
BY DEF Call

LEMMA SendTypes ==
    ASSUME NEW n \in Account, NEW c \in Call, txs \in [Account -> Seq(Call)], Send(n, c)
    PROVE  /\ txs' \in [Account -> Seq(Call)]
           /\ txs'[n] = Append(txs[n], c)
           /\ \A a \in Account : a # n => txs'[a] = txs[a]
BY DEF Send

LEMMA EmitTypes ==
    ASSUME NEW S, NEW chan \in [Account -> Seq(S)], NEW e \in S
    PROVE  /\ Emit(chan, e) \in [Account -> Seq(S)]
           /\ \A a \in Account : Emit(chan, e)[a] \in {chan[a], Append(chan[a], e)}
BY DEF Emit

(* The newest block with a request is one that was stored.                 *)
LEMMA FoundProposer ==
    ASSUME ChainTypes, NEW n \in Account, NEW r \in Request, found(n, r)
    PROVE  findTaskAndBlockWithRequestID(n, r) \in Proposer
<1>1. ledger[n][r] \in Seq(Proposer) /\ ledger[n][r] # <<>>
  BY DEF ChainTypes, found
<1>2. Len(ledger[n][r]) \in 1..Len(ledger[n][r])
  BY <1>1
<1> QED BY <1>1, <1>2 DEF findTaskAndBlockWithRequestID

(* The call c of n opens a dispute over the submission that n looks at.    *)
Opens(n, c) ==
    LET s == Head(submissionChan[n]) IN
    /\ s \in Submitted /\ s \in Elems(submissionChan[n])
    /\ found(n, s.r) /\ Mismatch(n, s.r, s.data)
    /\ c = BeginDispute(findTaskAndBlockWithRequestID(n, s.r), s.r)

(* What the nodes have sent changes by the calls below, and by inclusion.  *)
LEMMA Sends ==
    ASSUME Types, [Next]_vars, txs' # txs
    PROVE  \/ \E n \in Account : include(n)
           \/ \E n \in Account, c \in Call :
                 /\ Send(n, c) /\ UNCHANGED <<oracleVars, disputes>>
                 /\ \/ c.kind \in {"submit", "finish"} /\ UNCHANGED chans
                    \/ c.kind = "begin" /\ onNewSubmission(n) /\ Opens(n, c)
                    \/ c.kind = "vote" /\ onNewDispute(n)
<1>1. ASSUME NEW n \in Account, NEW r \in Request, NEW p \in Proposer, storeBlock(n, r, p)
      PROVE  \E c \in Call : Send(n, c) /\ c.kind = "submit" /\ UNCHANGED <<oracleVars, disputes, chans>>
  <2> DEFINE c == SubmitRequestAnswer(r, Payload[p][r])
  <2>1. c \in Call /\ c.kind = "submit"
    BY SettlementAssumption DEF Call, SubmitRequestAnswer
  <2>2. Send(n, c) /\ UNCHANGED <<oracleVars, disputes, chans>>
    BY <1>1 DEF storeBlock
  <2> QED BY <2>1, <2>2
<1>2. ASSUME NEW n \in Account, NEW r \in Request, finishTimer(n, r)
      PROVE  \E c \in Call : Send(n, c) /\ c.kind = "finish" /\ UNCHANGED <<oracleVars, disputes, chans>>
  <2> DEFINE c == FinishDispute(disputeCache[n][r], r)
  <2>1. Send(n, c) /\ UNCHANGED <<oracleVars, disputes, chans>> /\ disputeCache[n][r] # None
    BY <1>2 DEF finishTimer
  <2>2. disputeCache[n][r] \in Account
    BY <2>1 DEF Types, ChainTypes
  <2>3. c \in Call /\ c.kind = "finish"
    BY <2>2 DEF Call, FinishDispute
  <2> QED BY <2>1, <2>3
<1>3. ASSUME NEW n \in Account, onNewSubmission(n)
      PROVE  \E c \in Call :
                Send(n, c) /\ c.kind = "begin" /\ Opens(n, c) /\ UNCHANGED <<oracleVars, disputes>>
  <2> DEFINE s == Head(submissionChan[n])
             c == BeginDispute(findTaskAndBlockWithRequestID(n, s.r), s.r)
  <2>1. s \in Submitted /\ s \in Elems(submissionChan[n])
    BY <1>3, ElemsTail DEF onNewSubmission, Types, QueueTypes
  <2>2. Send(n, c) /\ UNCHANGED <<oracleVars, disputes>> /\ found(n, s.r) /\ Mismatch(n, s.r, s.data)
    BY <1>3 DEF onNewSubmission
  <2>3. s.r \in Request
    BY <2>1 DEF Submitted
  <2>4. findTaskAndBlockWithRequestID(n, s.r) \in Account
    BY <2>2, <2>3, FoundProposer, SettlementAssumption DEF Types
  <2>5. c \in Call /\ c.kind = "begin"
    BY <2>3, <2>4 DEF Call, BeginDispute
  <2>6. Opens(n, c)
    BY <2>1, <2>2 DEF Opens
  <2> QED BY <2>2, <2>5, <2>6
<1>4. ASSUME NEW n \in Account, onNewDispute(n)
      PROVE  \E c \in Call : Send(n, c) /\ c.kind = "vote" /\ UNCHANGED <<oracleVars, disputes>>
  <2> DEFINE d == Head(disputesChan[n])
             c == VoteDispute(d.m, d.r, Mismatch(n, d.r, submissionCache[n][d.r]))
  <2>1. d \in Opened
    BY <1>4, ElemsTail DEF onNewDispute, Types, QueueTypes
  <2>2. Send(n, c) /\ UNCHANGED <<oracleVars, disputes>>
    BY <1>4 DEF onNewDispute
  <2>3. Mismatch(n, d.r, submissionCache[n][d.r]) \in BOOLEAN
    BY DEF Mismatch
  <2>4. d.m \in Account /\ d.r \in Request
    BY <2>1 DEF Opened
  <2>5. c \in Call
    BY <2>3, <2>4, CallTypes
  <2>6. c.kind = "vote"
    BY DEF VoteDispute
  <2> QED BY <2>2, <2>5, <2>6
<1>5. \E n \in Account :
         \/ include(n) \/ onNewSubmission(n) \/ onNewDispute(n)
         \/ \E r \in Request : finishTimer(n, r) \/ \E p \in Proposer : storeBlock(n, r, p)
  BY DEF Next, vars, Tick, Ask, MoveStake, loseConnection, restart
<1> QED BY <1>1, <1>2, <1>3, <1>4, <1>5

(* What the longer actions leave alone.                                    *)
LEMMA Frames ==
    ASSUME NEW n \in Account
    PROVE  /\ include(n) => UNCHANGED <<now, ledger, submissionCache, disputeCache, timer>>
           /\ onNewSubmission(n) =>
                 UNCHANGED <<now, stakingVars, oracleVars, disputes, ledger, disputesChan, disputeCache>>
           /\ onNewDispute(n) =>
                 UNCHANGED <<now, stakingVars, oracleVars, disputes, ledger, submissionChan>>
BY DEF include, onNewSubmission, onNewDispute, nodeVars

(* The call that a block includes.                                         *)
LEMMA Included ==
    ASSUME Types, NEW n \in Account, include(n)
    PROVE  /\ txs[n] # <<>> /\ Head(txs[n]) \in Call /\ Head(txs[n]) \in Elems(txs[n])
           /\ txs' = [txs EXCEPT ![n] = Tail(txs[n])] /\ txs' \in [Account -> Seq(Call)]
           /\ \A a \in Account : Elems(txs'[a]) \subseteq Elems(txs[a])
<1>1. txs[n] # <<>> /\ txs' = [txs EXCEPT ![n] = Tail(txs[n])]
  BY DEF include
<1>2. txs \in [Account -> Seq(Call)] /\ txs[n] \in Seq(Call)
  BY DEF Types, QueueTypes
<1>3. /\ Head(txs[n]) \in Elems(txs[n]) /\ Head(txs[n]) \in Call
      /\ Tail(txs[n]) \in Seq(Call) /\ Elems(Tail(txs[n])) \subseteq Elems(txs[n])
  BY <1>1, <1>2, ElemsTail
<1> QED BY <1>1, <1>2, <1>3

LEMMA OracleStep == Types /\ [Next]_vars => OracleTypeOK'
<1> SUFFICES ASSUME Types, [Next]_vars PROVE OracleTypeOK'
  OBVIOUS
<1>1. OracleTypeOK /\ now \in Nat
  BY DEF Types, ChainTypes
<1>2. CASE UNCHANGED oracleVars
  BY <1>1, <1>2 DEF OracleTypeOK, oracleVars
<1>3. CASE Ask
  <2>1. CASE requestOracles
    <3>1. now + MAXIMUM_DELAY \in Nat
      BY <1>1, OracleAssumption
    <3> QED BY <1>1, <2>1, <3>1 DEF requestOracles, OracleTypeOK
  <2>2. ASSUME NEW r \in Request, cancelOracleRequest(r) PROVE OracleTypeOK'
    BY ZenonT(60), <1>1, <2>2 DEF cancelOracleRequest, OracleTypeOK
  <2> QED BY <1>3, <2>1, <2>2 DEF Ask
<1>4. ASSUME NEW n \in Account, include(n) PROVE OracleTypeOK'
  <2> DEFINE c == Head(txs[n])
  <2>1. c \in Call
    BY <1>4, Included
  <2>2. CASE c.kind = "submit" /\ submitOracleRequest(n, c.r, c.data)
    <3>1. c.r \in Request /\ c.data \in Answer
      BY <2>1, <2>2, CallFields
    <3>2. [miner |-> n, data |-> c.data] \in Submission
      BY <3>1 DEF Submission
    <3> HIDE DEF c
    <3> QED BY <1>1, <2>2, <3>1, <3>2 DEF submitOracleRequest, OracleTypeOK
  <2> QED BY ZenonT(60), <1>2, <1>4, <2>2 DEF include
<1> QED
  BY <1>2, <1>3, <1>4, Frames
  DEF Next, vars, Tick, MoveStake, loseConnection, restart, finishTimer, storeBlock

LEMMA ChainTypesStep == Types /\ [Next]_vars => ChainTypes'
<1> SUFFICES ASSUME Types, [Next]_vars PROVE ChainTypes'
  OBVIOUS
<1>1. /\ now \in 0..MaxTime /\ disputeCache \in [Account -> [Request -> Account \cup {None}]]
      /\ ledger \in [Account -> [Request -> Seq(Proposer)]]
  BY DEF Types, ChainTypes
<1>2. now' \in 0..MaxTime
  <2>1. now' = now \/ (now < MaxTime /\ now' = now + 1)
    BY Frames DEF Next, vars, Tick, tick, Ask, MoveStake, loseConnection, restart,
                  finishTimer, storeBlock
  <2> QED BY StakingAssumption, <1>1, <2>1
<1>3. disputeCache' \in [Account -> [Request -> Account \cup {None}]]
  <2>1. ASSUME NEW n \in Account, onNewDispute(n)
        PROVE  disputeCache' \in [Account -> [Request -> Account \cup {None}]]
    <3> DEFINE d == Head(disputesChan[n])
    <3>1. d \in Opened
      BY <2>1, ElemsTail DEF onNewDispute, Types, QueueTypes
    <3>2. disputeCache' = [disputeCache EXCEPT ![n][d.r] = d.m]
      BY <2>1 DEF onNewDispute
    <3> HIDE DEF d
    <3> QED BY <1>1, <3>1, <3>2 DEF Opened
  <2>2. ASSUME NEW n \in Account, restart(n)
        PROVE  disputeCache' \in [Account -> [Request -> Account \cup {None}]]
    BY <1>1, <2>2 DEF restart, NewDisputeManager
  <2>3. \/ disputeCache' = disputeCache
        \/ \E n \in Account : onNewDispute(n) \/ restart(n)
    BY Frames DEF Next, vars, nodeVars, Tick, Ask, MoveStake, loseConnection,
                  finishTimer, storeBlock
  <2> QED BY <1>1, <2>1, <2>2, <2>3
<1>4. ledger' \in [Account -> [Request -> Seq(Proposer)]]
  <2>1. ASSUME NEW n \in Account, NEW r \in Request, NEW p \in Proposer, storeBlock(n, r, p)
        PROVE  ledger' \in [Account -> [Request -> Seq(Proposer)]]
    BY <1>1, <2>1 DEF storeBlock
  <2>2. \/ ledger' = ledger
        \/ \E n \in Account, r \in Request, p \in Proposer : storeBlock(n, r, p)
    BY Frames DEF Next, vars, Tick, Ask, MoveStake, loseConnection, restart, finishTimer
  <2> QED BY <1>1, <2>1, <2>2
<1> QED BY <1>2, <1>3, <1>4, OracleStep DEF ChainTypes

(* How the channels change.                                                *)
LEMMA Submissions ==
    ASSUME Types, [Next]_vars
    PROVE  /\ submissionChan' \in [Account -> Seq(Submitted)]
           /\ \/ \A a \in Account : Elems(submissionChan'[a]) \subseteq Elems(submissionChan[a])
              \/ \E n \in Account :
                    /\ include(n) /\ Accepts(n, Head(txs[n])) /\ Head(txs[n]).kind = "submit"
                    /\ submitOracleRequest(n, Head(txs[n]).r, Head(txs[n]).data)
                    /\ \A a \in Account :
                          Elems(submissionChan'[a]) \subseteq
                              Elems(submissionChan[a]) \cup
                                  {[r |-> Head(txs[n]).r, data |-> Head(txs[n]).data]}
<1>1. submissionChan \in [Account -> Seq(Submitted)]
  BY DEF Types, QueueTypes
<1>2. CASE submissionChan' = submissionChan
  BY <1>1, <1>2
<1>3. ASSUME NEW n \in Account, onNewSubmission(n)
      PROVE  /\ submissionChan' \in [Account -> Seq(Submitted)]
             /\ \A a \in Account : Elems(submissionChan'[a]) \subseteq Elems(submissionChan[a])
  <2>1. /\ submissionChan[n] # <<>>
        /\ submissionChan' = [submissionChan EXCEPT ![n] = Tail(submissionChan[n])]
    BY <1>3 DEF onNewSubmission
  <2>2. /\ Tail(submissionChan[n]) \in Seq(Submitted)
        /\ Elems(Tail(submissionChan[n])) \subseteq Elems(submissionChan[n])
    BY <1>1, <2>1, ElemsTail
  <2> QED BY <1>1, <2>1, <2>2
<1>4. ASSUME NEW n \in Account, Unsubscribe(n)
      PROVE  /\ submissionChan' \in [Account -> Seq(Submitted)]
             /\ \A a \in Account : Elems(submissionChan'[a]) \subseteq Elems(submissionChan[a])
  <2>1. submissionChan' = [submissionChan EXCEPT ![n] = <<>>] /\ <<>> \in Seq(Submitted)
    BY <1>4 DEF Unsubscribe
  <2> QED BY <1>1, <2>1, ElemsEmpty
<1>5. ASSUME NEW n \in Account, include(n), submissionChan' # submissionChan
      PROVE  /\ submissionChan' \in [Account -> Seq(Submitted)]
             /\ Accepts(n, Head(txs[n])) /\ Head(txs[n]).kind = "submit"
             /\ submitOracleRequest(n, Head(txs[n]).r, Head(txs[n]).data)
             /\ \A a \in Account :
                   Elems(submissionChan'[a]) \subseteq
                       Elems(submissionChan[a]) \cup
                           {[r |-> Head(txs[n]).r, data |-> Head(txs[n]).data]}
  <2> DEFINE c == Head(txs[n])
             e == [r |-> c.r, data |-> c.data]
  <2>1. /\ Accepts(n, c) /\ c.kind = "submit" /\ submitOracleRequest(n, c.r, c.data)
        /\ submissionChan' = Emit(submissionChan, e)
    BY <1>5 DEF include, chans, WatchSubmittedOracleRequest
  <2>2. c \in Call
    BY <1>5, Included
  <2>3. e \in Submitted
    BY <2>1, <2>2, CallFields DEF Submitted
  <2> HIDE DEF c, e
  <2>4. submissionChan' \in [Account -> Seq(Submitted)]
    BY <1>1, <2>1, <2>3, EmitTypes
  <2>5. ASSUME NEW a \in Account PROVE Elems(submissionChan'[a]) \subseteq Elems(submissionChan[a]) \cup {e}
    <3>1. submissionChan'[a] \in {submissionChan[a], Append(submissionChan[a], e)}
      BY ZenonT(60), <1>1, <2>1, <2>3, EmitTypes
    <3>2. Elems(Append(submissionChan[a], e)) = Elems(submissionChan[a]) \cup {e}
      BY ZenonT(60), <1>1, ElemsAppend
    <3> QED BY ZenonT(60), <3>1, <3>2
  <2> QED BY ZenonT(60), <2>1, <2>4, <2>5 DEF c, e
<1>6. \/ submissionChan' = submissionChan
      \/ \E n \in Account : onNewSubmission(n) \/ Unsubscribe(n)
      \/ \E n \in Account : include(n)
  BY Frames DEF Next, vars, chans, Tick, Ask, MoveStake, loseConnection, restart,
                finishTimer, storeBlock
<1> QED BY ZenonT(60), <1>2, <1>3, <1>4, <1>5, <1>6

LEMMA DisputesChanTypes ==
    ASSUME Types, [Next]_vars
    PROVE  disputesChan' \in [Account -> Seq(Opened)]
<1>1. disputesChan \in [Account -> Seq(Opened)]
  BY DEF Types, QueueTypes
<1>2. ASSUME NEW n \in Account, onNewDispute(n) PROVE disputesChan' \in [Account -> Seq(Opened)]
  <2>1. /\ disputesChan[n] # <<>>
        /\ disputesChan' = [disputesChan EXCEPT ![n] = Tail(disputesChan[n])]
    BY <1>2 DEF onNewDispute
  <2>2. Tail(disputesChan[n]) \in Seq(Opened)
    BY <1>1, <2>1, ElemsTail
  <2> QED BY <1>1, <2>1, <2>2
<1>3. ASSUME NEW n \in Account, Unsubscribe(n) PROVE disputesChan' \in [Account -> Seq(Opened)]
  <2>1. disputesChan' = [disputesChan EXCEPT ![n] = <<>>] /\ <<>> \in Seq(Opened)
    BY <1>3 DEF Unsubscribe
  <2> QED BY <1>1, <2>1
<1>4. ASSUME NEW n \in Account, include(n), disputesChan' # disputesChan
      PROVE  disputesChan' \in [Account -> Seq(Opened)]
  <2> DEFINE c == Head(txs[n])
             e == [m |-> c.m, r |-> c.r, initiator |-> n]
  <2>1. c.kind = "begin" /\ disputesChan' = Emit(disputesChan, e)
    BY ZenonT(60), <1>4 DEF include, chans, WatchNewDispute
  <2>2. c \in Call
    BY <1>4, Included
  <2>3. e \in Opened
    BY ZenonT(60), <2>1, <2>2, CallFields DEF Opened
  <2> QED BY ZenonT(60), <1>1, <2>1, <2>3, EmitTypes
<1>5. \/ disputesChan' = disputesChan
      \/ \E n \in Account : onNewDispute(n) \/ Unsubscribe(n)
      \/ \E n \in Account : include(n)
  BY Frames DEF Next, vars, chans, Tick, Ask, MoveStake, loseConnection, restart,
                finishTimer, storeBlock
<1> QED BY <1>1, <1>2, <1>3, <1>4, <1>5

LEMMA TypesStep == Types /\ [Next]_vars => Types'
<1> SUFFICES ASSUME Types, [Next]_vars PROVE Types'
  OBVIOUS
<1>1. txs' \in [Account -> Seq(Call)]
  <2>1. txs \in [Account -> Seq(Call)]
    BY DEF Types, QueueTypes
  <2> QED BY <2>1, Sends, Included, SendTypes
<1> QED BY <1>1, ChainTypesStep, Submissions, DisputesChanTypes DEF Types, QueueTypes

LEMMA InitTypes == Init => Types
<1> SUFFICES ASSUME Init PROVE Types
  OBVIOUS
<1>1. OracleTypeOK
  BY DEF Init, OracleInit, OracleTypeOK, Request
<1>2. <<>> \in Seq(Proposer) /\ <<>> \in Seq(Call) /\ <<>> \in Seq(Submitted) /\ <<>> \in Seq(Opened)
  OBVIOUS
<1> QED
  BY StakingAssumption, <1>1, <1>2 DEF Init, StakingInit, ForEach, Types, ChainTypes, QueueTypes

(* The types of what a node keeps in memory, and of the bounds.            *)
NodeTypes ==
    /\ submissionCache \in [Account -> [Request -> Answer \cup {None}]]
    /\ timer \in [Account -> [Request -> Nat \cup {None}]]
    /\ watching \subseteq Account
    /\ stored \in 0..MaxStored /\ changes \in 0..MaxChanges

LEMMA InitNodeTypes == Init => NodeTypes
<1> SUFFICES ASSUME Init PROVE NodeTypes
  OBVIOUS
<1>1. 0 \in 0..MaxStored /\ 0 \in 0..MaxChanges
  BY SettlementAssumption
<1> QED BY <1>1 DEF Init, ForEach, NodeTypes

(* The submission that a node looks at.                                    *)
LEMMA Noticed ==
    ASSUME Types, NEW n \in Account, onNewSubmission(n)
    PROVE  Head(submissionChan[n]).r \in Request /\ Head(submissionChan[n]).data \in Answer
<1>1. submissionChan[n] \in Seq(Submitted)
  BY DEF Types, QueueTypes
<1>2. submissionChan[n] # <<>>
  BY DEF onNewSubmission
<1>3. Head(submissionChan[n]) \in Submitted
  BY <1>1, <1>2, ElemsTail
<1> QED BY <1>3 DEF Submitted

LEMMA Bounds ==
    ASSUME NEW n \in Account, include(n) \/ onNewSubmission(n) \/ onNewDispute(n)
    PROVE  watching' = watching /\ stored' = stored /\ changes' = changes
<1>1. ASSUME include(n) PROVE watching' = watching /\ stored' = stored /\ changes' = changes
  <2>1. watching' = watching
    BY ZenonT(60), <1>1 DEF include, chans, WatchSubmittedOracleRequest, WatchNewDispute
  <2>2. stored' = stored /\ changes' = changes
    BY ZenonT(60), <1>1 DEF include
  <2> QED BY ZenonT(60), <2>1, <2>2
<1>2. ASSUME onNewSubmission(n) PROVE watching' = watching /\ stored' = stored /\ changes' = changes
  BY ZenonT(60), <1>2 DEF onNewSubmission
<1>3. ASSUME onNewDispute(n) PROVE watching' = watching /\ stored' = stored /\ changes' = changes
  BY ZenonT(60), <1>3 DEF onNewDispute
<1> QED BY ZenonT(60), <1>1, <1>2, <1>3

LEMMA NodeTypesStep == Types /\ NodeTypes /\ [Next]_vars => NodeTypes'
<1> SUFFICES ASSUME Types, NodeTypes, [Next]_vars PROVE NodeTypes'
  OBVIOUS
<1>0. /\ submissionCache \in [Account -> [Request -> Answer \cup {None}]]
      /\ timer \in [Account -> [Request -> Nat \cup {None}]]
      /\ watching \subseteq Account
      /\ stored \in 0..MaxStored /\ changes \in 0..MaxChanges
  BY DEF NodeTypes
<1>1. submissionCache' \in [Account -> [Request -> Answer \cup {None}]]
  <2>1. ASSUME NEW n \in Account, onNewSubmission(n)
        PROVE  submissionCache' \in [Account -> [Request -> Answer \cup {None}]]
    <3>1. PICK s : s = Head(submissionChan[n])
      BY ZenonT(60)
    <3>2. s.r \in Request /\ s.data \in Answer
      BY ZenonT(60), <2>1, <3>1, Noticed
    <3>3. submissionCache' = [submissionCache EXCEPT ![n][s.r] = s.data]
      BY ZenonT(60), <2>1, <3>1 DEF onNewSubmission
    <3> QED BY <1>0, <3>2, <3>3
  <2>2. ASSUME NEW n \in Account, restart(n)
        PROVE  submissionCache' \in [Account -> [Request -> Answer \cup {None}]]
    <3>1. submissionCache' = [submissionCache EXCEPT ![n] = [r \in Request |-> None]]
      BY ZenonT(60), <2>2 DEF restart, NewDisputeManager
    <3> QED BY <1>0, <3>1
  <2>3. \/ submissionCache' = submissionCache
        \/ \E n \in Account : onNewSubmission(n) \/ restart(n)
    BY ZenonT(60), Frames DEF Next, vars, nodeVars, Tick, Ask, MoveStake, loseConnection,
                  finishTimer, storeBlock, onNewDispute
  <2> QED BY ZenonT(60), <1>0, <2>1, <2>2, <2>3
<1>2. timer' \in [Account -> [Request -> Nat \cup {None}]]
  <2>1. ASSUME NEW n \in Account, onNewSubmission(n)
        PROVE  timer' \in [Account -> [Request -> Nat \cup {None}]]
    <3>1. PICK q : q = Head(submissionChan[n]).r
      BY ZenonT(60)
    <3>2. q \in Request
      BY ZenonT(60), <2>1, <3>1, Noticed
    <3>3. now + voteWindow \in Nat
      BY SettlementAssumption DEF Types, ChainTypes
    <3>4. PICK t \in Nat : t = now + voteWindow
      BY ZenonT(60), <3>3
    <3>5. timer' = timer \/ timer' = [timer EXCEPT ![n][q] = t]
      BY ZenonT(60), <2>1, <3>1, <3>4 DEF onNewSubmission
    <3>6. [timer EXCEPT ![n][q] = t] \in [Account -> [Request -> Nat \cup {None}]]
      BY <1>0, <3>2
    <3> QED BY ZenonT(60), <1>0, <3>5, <3>6
  <2>2. ASSUME NEW n \in Account, restart(n)
        PROVE  timer' \in [Account -> [Request -> Nat \cup {None}]]
    <3>1. timer' = [timer EXCEPT ![n] = [r \in Request |-> None]]
      BY ZenonT(60), <2>2 DEF restart, NewDisputeManager
    <3> QED BY <1>0, <3>1
  <2>3. ASSUME NEW n \in Account, NEW r \in Request, finishTimer(n, r)
        PROVE  timer' \in [Account -> [Request -> Nat \cup {None}]]
    <3>1. timer' = [timer EXCEPT ![n][r] = None]
      BY ZenonT(60), <2>3 DEF finishTimer
    <3> QED BY <1>0, <3>1
  <2>4. \/ timer' = timer
        \/ \E n \in Account : onNewSubmission(n) \/ restart(n)
        \/ \E n \in Account, r \in Request : finishTimer(n, r)
    BY ZenonT(60), Frames DEF Next, vars, nodeVars, Tick, Ask, MoveStake, loseConnection,
                  storeBlock, onNewDispute
  <2> QED BY ZenonT(60), <1>0, <2>1, <2>2, <2>3, <2>4
<1>3. watching' \subseteq Account
  <2>1. \/ watching' = watching
        \/ \E n \in Account : watching' = watching \ {n} \/ watching' = watching \cup {n}
    BY ZenonT(60), Bounds DEF Next, vars, chans, Tick, Ask, MoveStake, loseConnection, restart,
                  NewDisputeManager, finishTimer, storeBlock
  <2> QED BY <1>0, <2>1
<1>4. stored' \in 0..MaxStored
  <2>1. stored' = stored \/ (stored < MaxStored /\ stored' = stored + 1)
    BY ZenonT(60), Bounds DEF Next, vars, Tick, Ask, MoveStake, loseConnection, restart,
                  finishTimer, storeBlock
  <2> QED BY <1>0, <2>1, SettlementAssumption
<1>5. changes' \in 0..MaxChanges
  <2>1. changes' = changes \/ (changes < MaxChanges /\ changes' = changes + 1)
    BY ZenonT(60), Bounds DEF Next, vars, Tick, Ask, MoveStake, loseConnection, restart, Change,
                  finishTimer, storeBlock
  <2> QED BY <1>0, <2>1, SettlementAssumption
<1> QED BY ZenonT(60), <1>1, <1>2, <1>3, <1>4, <1>5 DEF NodeTypes

-----------------------------------------------------------------------------
(* The disputes and the stakes.                                            *)

DisputeRecord ==
    [initiator : Account \cup {None}, timestamp : 0..MaxTime, sum : Int,
     voted : Seq(Account), finished : BOOLEAN, disputeResult : BOOLEAN]

NewDispute(n) == [NoDispute EXCEPT !.initiator = n, !.timestamp = now]

Voted(d, n, status) ==
    [d EXCEPT !.sum = d.sum + (IF status THEN amount[n] ELSE -amount[n]),
              !.voted = Append(d.voted, n)]

Finished(d) ==
    [d EXCEPT !.finished = TRUE, !.disputeResult = d.sum > 0,
              !.voted = IF d.sum > 0 THEN Append(d.voted, d.initiator) ELSE d.voted]

StakeTypes == balance \in [Account -> Int] /\ amount \in [Account -> Nat]

(* A dispute whose votes count for something has votes.                    *)
SumNeedsVotes == \A m \in Account, r \in Request : disputes[m][r].sum > 0 => disputes[m][r].voted # <<>>

(* The dispute m, r changes by the oldest call of n.                       *)
Moves(n, m, r) ==
    LET c == Head(txs[n])
        d == disputes[m][r] IN
    /\ include(n) /\ Accepts(n, c) /\ c.m = m /\ c.r = r
    /\ \/ c.kind = "begin" /\ disputes' = [disputes EXCEPT ![m][r] = NewDispute(n)]
       \/ c.kind = "vote" /\ disputes' = [disputes EXCEPT ![m][r] = Voted(d, n, c.status)]
       \/ c.kind = "finish" /\ disputes' = [disputes EXCEPT ![m][r] = Finished(d)]

LEMMA VoteEffect ==
    ASSUME DisputeTypeOK, NEW n \in Account, NEW m \in Account, NEW r \in Request,
           NEW status \in BOOLEAN, vote(n, m, r, status)
    PROVE  disputes' = [disputes EXCEPT ![m][r] = Voted(disputes[m][r], n, status)]
BY ZenonT(60) DEF vote, DisputeTypeOK, Voted

LEMMA FinishEffect ==
    ASSUME DisputeTypeOK, NEW m \in Account, NEW r \in Request, finishDispute(m, r)
    PROVE  disputes' = [disputes EXCEPT ![m][r] = Finished(disputes[m][r])]
BY ZenonT(60) DEF finishDispute, DisputeTypeOK, Finished, Recipients

LEMMA IncludeMoves ==
    ASSUME Types, DisputeTypeOK, NEW n \in Account, include(n)
    PROVE  \/ UNCHANGED <<disputes, disputesChan>>
           \/ \E m \in Account, r \in Request :
                 /\ Moves(n, m, r)
                 /\ \/ /\ Head(txs[n]).kind = "begin"
                       /\ disputesChan' = Emit(disputesChan, [m |-> m, r |-> r, initiator |-> n])
                    \/ Head(txs[n]).kind # "begin" /\ UNCHANGED disputesChan
<1> DEFINE c == Head(txs[n])
<1>1. c \in Call
  BY ZenonT(60), Included
<1>2. \/ UNCHANGED <<disputes, disputesChan>>
      \/ /\ Accepts(n, c) /\ c.kind = "begin" /\ beginDispute(n, c.m, c.r)
         /\ disputesChan' = Emit(disputesChan, [m |-> c.m, r |-> c.r, initiator |-> n])
      \/ Accepts(n, c) /\ c.kind = "vote" /\ vote(n, c.m, c.r, c.status) /\ UNCHANGED disputesChan
      \/ Accepts(n, c) /\ c.kind = "finish" /\ finishDispute(c.m, c.r) /\ UNCHANGED disputesChan
  BY ZenonT(60) DEF include, chans, WatchNewDispute
<1>3. c.r \in Request /\ (c.kind # "submit" => c.m \in Account) /\ (c.kind = "vote" => c.status \in BOOLEAN)
  BY <1>1, CallFields
<1>4. CASE /\ Accepts(n, c) /\ c.kind = "begin" /\ beginDispute(n, c.m, c.r)
           /\ disputesChan' = Emit(disputesChan, [m |-> c.m, r |-> c.r, initiator |-> n])
  <2>1. Moves(n, c.m, c.r)
    BY ZenonT(60), <1>4 DEF beginDispute, Moves, NewDispute
  <2> QED BY <1>3, <1>4, <2>1
<1>5. CASE Accepts(n, c) /\ c.kind = "vote" /\ vote(n, c.m, c.r, c.status) /\ UNCHANGED disputesChan
  <2>1. disputes' = [disputes EXCEPT ![c.m][c.r] = Voted(disputes[c.m][c.r], n, c.status)]
    BY <1>3, <1>5, VoteEffect
  <2>2. Moves(n, c.m, c.r)
    BY ZenonT(60), <1>5, <2>1 DEF Moves
  <2> QED BY <1>3, <1>5, <2>2
<1>6. CASE Accepts(n, c) /\ c.kind = "finish" /\ finishDispute(c.m, c.r) /\ UNCHANGED disputesChan
  <2>1. disputes' = [disputes EXCEPT ![c.m][c.r] = Finished(disputes[c.m][c.r])]
    BY <1>3, <1>6, FinishEffect
  <2>2. Moves(n, c.m, c.r)
    BY ZenonT(60), <1>6, <2>1 DEF Moves
  <2> QED BY <1>3, <1>6, <2>2
<1> QED BY ZenonT(60), <1>2, <1>4, <1>5, <1>6

LEMMA DisputeMoves ==
    ASSUME Types, DisputeTypeOK, [Next]_vars
    PROVE  disputes' = disputes \/ \E n, m \in Account, r \in Request : Moves(n, m, r)
BY ZenonT(60), IncludeMoves, Frames
DEF Next, vars, Tick, Ask, MoveStake, loseConnection, restart, finishTimer, storeBlock

LEMMA Grown ==
    ASSUME NEW s \in Seq(Account), NEW n \in Account
    PROVE  Append(s, n) \in Seq(Account) /\ Append(s, n) # <<>>
<1>1. Len(Append(s, n)) = Len(s) + 1 /\ Len(s) \in Nat
  OBVIOUS
<1>2. Append(s, n) \in Seq(Account) /\ Len(<<>>) = 0
  OBVIOUS
<1>3. Len(Append(s, n)) # Len(<<>>)
  BY <1>1, <1>2
<1> QED BY <1>2, <1>3, ZenonT(60)

LEMMA NewFacts ==
    ASSUME now \in 0..MaxTime, NEW n \in Account
    PROVE  /\ NewDispute(n) \in DisputeRecord
           /\ NewDispute(n).initiator = n /\ NewDispute(n).voted = <<>>
           /\ NewDispute(n).sum = 0 /\ NewDispute(n).finished = FALSE
<1>1. <<>> \in Seq(Account) /\ 0 \in 0..MaxTime
  BY StakingAssumption DEF StakingAssumption
<1>2. /\ NoDispute \in DisputeRecord /\ NoDispute.voted = <<>>
      /\ NoDispute.sum = 0 /\ NoDispute.finished = FALSE
  BY <1>1 DEF NoDispute, DisputeRecord
<1> QED BY ZenonT(60), <1>2 DEF NewDispute, DisputeRecord

LEMMA VotedFacts ==
    ASSUME StakeTypes, NEW d \in DisputeRecord, NEW n \in Account, NEW status \in BOOLEAN
    PROVE  /\ Voted(d, n, status) \in DisputeRecord
           /\ Voted(d, n, status).initiator = d.initiator
           /\ Voted(d, n, status).voted = Append(d.voted, n)
           /\ Voted(d, n, status).finished = d.finished
<1>1. (IF status THEN amount[n] ELSE -amount[n]) \in Int
  BY DEF StakeTypes
<1>2. d.sum + (IF status THEN amount[n] ELSE -amount[n]) \in Int /\ Append(d.voted, n) \in Seq(Account)
  BY <1>1 DEF DisputeRecord
<1> QED BY ZenonT(60), <1>2 DEF Voted, DisputeRecord

LEMMA FinishedFacts ==
    ASSUME NEW d \in DisputeRecord, d.initiator # None
    PROVE  /\ Finished(d) \in DisputeRecord
           /\ Finished(d).initiator = d.initiator /\ Finished(d).finished = TRUE
           /\ Finished(d).sum = d.sum
           /\ Finished(d).voted = IF d.sum > 0 THEN Append(d.voted, d.initiator) ELSE d.voted
<1>1. (IF d.sum > 0 THEN Append(d.voted, d.initiator) ELSE d.voted) \in Seq(Account)
  BY DEF DisputeRecord
<1>2. (d.sum > 0) \in BOOLEAN
  OBVIOUS
<1> QED BY ZenonT(60), <1>1, <1>2 DEF Finished, DisputeRecord

LEMMA DisputeStep ==
    ASSUME Types, StakeTypes, DisputeTypeOK, SumNeedsVotes, [Next]_vars
    PROVE  DisputeTypeOK' /\ SumNeedsVotes'
<1>1. CASE disputes' = disputes
  BY <1>1 DEF DisputeTypeOK, SumNeedsVotes
<1>2. ASSUME NEW n \in Account, NEW m \in Account, NEW r \in Request, Moves(n, m, r)
      PROVE  DisputeTypeOK' /\ SumNeedsVotes'
  <2> DEFINE c == Head(txs[n])
             d == disputes[m][r]
  <2>0. disputes \in [Account -> [Request -> DisputeRecord]] /\ d \in DisputeRecord
    BY DEF DisputeTypeOK, DisputeRecord
  <2>1. c \in Call /\ (c.kind = "vote" => c.status \in BOOLEAN) /\ now \in 0..MaxTime
    BY <1>2, Included, CallFields DEF Moves, Types, ChainTypes
  <2>2. ASSUME NEW e \in DisputeRecord, disputes' = [disputes EXCEPT ![m][r] = e],
               e.sum > 0 => e.voted # <<>>
        PROVE  DisputeTypeOK' /\ SumNeedsVotes'
    <3>1. disputes' \in [Account -> [Request -> DisputeRecord]]
      BY <2>0, <2>2
    <3>2. DisputeTypeOK'
      BY <3>1 DEF DisputeTypeOK, DisputeRecord
    <3>3. \A k \in Account, q \in Request : disputes'[k][q] = e \/ disputes'[k][q] = disputes[k][q]
      BY <2>0, <2>2
    <3> QED BY <2>2, <3>2, <3>3 DEF SumNeedsVotes
  <2>3. CASE c.kind = "begin" /\ disputes' = [disputes EXCEPT ![m][r] = NewDispute(n)]
    <3> DEFINE e == NewDispute(n)
    <3>1. e \in DisputeRecord /\ e.sum = 0
      BY ZenonT(60), <2>1, NewFacts
    <3>2. ~(e.sum > 0)
      BY <3>1
    <3> HIDE DEF e
    <3>3. disputes' = [disputes EXCEPT ![m][r] = e]
      BY <2>3 DEF e
    <3> QED BY ZenonT(60), <2>2, <3>1, <3>2, <3>3
  <2>4. CASE c.kind = "vote" /\ disputes' = [disputes EXCEPT ![m][r] = Voted(d, n, c.status)]
    <3> DEFINE e == Voted(d, n, c.status)
    <3>1. e \in DisputeRecord /\ e.voted = Append(d.voted, n)
      BY <2>0, <2>1, <2>4, VotedFacts
    <3> HIDE DEF e
    <3>2. e.voted # <<>>
      <4>1. d.voted \in Seq(Account)
        BY <2>0 DEF DisputeRecord
      <4> QED BY <3>1, <4>1, Grown
    <3>3. disputes' = [disputes EXCEPT ![m][r] = e]
      BY <2>4 DEF e
    <3> QED BY ZenonT(60), <2>2, <3>1, <3>2, <3>3
  <2>5. CASE c.kind = "finish" /\ disputes' = [disputes EXCEPT ![m][r] = Finished(d)]
    <3>1. d.initiator # None
      BY ZenonT(60), DisputeAssumption, <1>2, <2>5 DEF Moves, Accepts, CanFinish
    <3> DEFINE e == Finished(d)
    <3>2. /\ e \in DisputeRecord /\ e.sum = d.sum
          /\ e.voted = IF d.sum > 0 THEN Append(d.voted, d.initiator) ELSE d.voted
      BY ZenonT(60), <2>0, <3>1, FinishedFacts
    <3> HIDE DEF e
    <3>3. d.sum > 0 => e.voted # <<>>
      <4>1. d.voted \in Seq(Account) /\ d.initiator \in Account
        BY <2>0, <3>1 DEF DisputeRecord
      <4> QED BY <3>2, <4>1, Grown
    <3>4. disputes' = [disputes EXCEPT ![m][r] = e]
      BY ZenonT(60), <2>5 DEF e
    <3> QED BY ZenonT(60), <2>2, <3>2, <3>3, <3>4
  <2> QED BY <1>2, <2>3, <2>4, <2>5 DEF Moves
<1> QED BY <1>1, <1>2, DisputeMoves

-----------------------------------------------------------------------------
(* How stakes move.                                                        *)

Closes(m, r) ==
    /\ ~disputes[m][r].finished /\ disputes'[m][r].finished
    /\ disputes[m][r].sum > 0 /\ now - disputes[m][r].timestamp >= voteWindowTime
    /\ disputes[m][r].initiator \in Account
    /\ slashMiner(m, Recipients(m, r))

LEMMA StakeMoves ==
    ASSUME Types, DisputeTypeOK, [Next]_vars
    PROVE  \/ UNCHANGED stakingVars
           \/ \E n \in Account : mineAndStake(n)
           \/ \E n \in Account, k \in Amount : stake(n, k) \/ withdraw(n, k)
           \/ \E m \in Account, r \in Request : Closes(m, r)
<1>1. ASSUME NEW n \in Account, include(n), ~UNCHANGED stakingVars, ~mineAndStake(n)
      PROVE  \E m \in Account, r \in Request : Closes(m, r)
  <2> DEFINE c == Head(txs[n])
  <2>1. c \in Call
    BY ZenonT(60), <1>1, Included
  <2>2. Accepts(n, c) /\ c.kind = "finish" /\ finishDispute(c.m, c.r)
    BY ZenonT(60), <1>1 DEF include, submitOracleRequest
  <2>3. c.r \in Request /\ c.m \in Account
    <3>1. "finish" # "submit"
      OBVIOUS
    <3> QED BY ZenonT(60), <2>1, <2>2, <3>1, CallFields
  <2>4. ASSUME NEW m \in Account, NEW r \in Request, c.m = m, c.r = r PROVE Closes(m, r)
    <3> DEFINE d == disputes[m][r]
    <3>1. d.sum > 0 /\ slashMiner(m, Recipients(m, r))
      BY ZenonT(60), <1>1, <2>2, <2>4 DEF finishDispute
    <3>2. d.initiator = n /\ now - d.timestamp >= voteWindowTime /\ ~d.finished
      BY ZenonT(60), <2>2, <2>4 DEF Accepts, CanFinish
    <3>3. disputes' = [disputes EXCEPT ![m][r] = Finished(d)]
      BY <2>2, <2>4, FinishEffect
    <3>4. disputes \in [Account -> [Request -> DisputeRecord]] /\ d \in DisputeRecord
      BY DEF DisputeTypeOK, DisputeRecord
    <3>5. Finished(d).finished
      BY ZenonT(60), DisputeAssumption, <3>2, <3>4, FinishedFacts
    <3>6. disputes'[m][r] = Finished(d)
      BY <3>3, <3>4
    <3> QED BY <3>1, <3>2, <3>5, <3>6 DEF Closes
  <2> QED BY <2>3, <2>4
<1> QED
  BY <1>1, Frames
  DEF Next, vars, Tick, Ask, MoveStake, loseConnection, restart, finishTimer, storeBlock

LEMMA Product == ASSUME NEW k \in Nat, NEW n \in Nat PROVE k * n \in Nat
OBVIOUS

LEMMA Redistributed ==
    ASSUME StakeTypes, NEW m \in Account, NEW loss \in Nat, NEW gain \in [Account -> Nat],
           loss <= amount[m], balance' = balance,
           amount' = [a \in Account |-> IF a = m THEN amount[a] - loss ELSE amount[a] + gain[a]]
    PROVE  /\ StakeTypes'
           /\ \A a \in Account : a # m => amount'[a] >= amount[a]
<1>1. amount \in [Account -> Nat] /\ amount[m] \in Nat
  BY DEF StakeTypes
<1>2. ASSUME NEW a \in Account, a # m PROVE amount'[a] \in Nat /\ amount'[a] >= amount[a]
  <2>1. amount[a] \in Nat /\ gain[a] \in Nat /\ amount'[a] = amount[a] + gain[a]
    BY <1>1, <1>2
  <2> QED BY <2>1
<1>3. amount'[m] \in Nat
  <2>1. amount'[m] = amount[m] - loss
    OBVIOUS
  <2> QED BY <1>1, <2>1
<1>4. amount' \in [Account -> Nat]
  BY <1>2, <1>3
<1> QED BY <1>2, <1>4 DEF StakeTypes

(* Slashing takes no more than there is, and takes from the miner alone.   *)
LEMMA Slashed ==
    ASSUME StakeTypes, NEW m \in Account, NEW s \in Seq(Account), s # <<>>, slashMiner(m, s)
    PROVE  /\ StakeTypes'
           /\ \A a \in Account : a # m => amount'[a] >= amount[a]
<1> DEFINE share == amount[m] \div Len(s)
           gain == [a \in Account |-> share * Cardinality(Entries(s, a))]
<1>1. Len(s) \in Nat \ {0} /\ amount[m] \in Nat
  BY DEF StakeTypes
<1>2. share \in Nat /\ share * Len(s) \in Nat /\ share * Len(s) <= amount[m]
  BY ZenonT(60), <1>1, Division
<1>3. gain \in [Account -> Nat]
  <2>1. ASSUME NEW a \in Account PROVE share * Cardinality(Entries(s, a)) \in Nat
    <3>1. Cardinality(Entries(s, a)) \in Nat
      BY ZenonT(60), EntriesCount
    <3> HIDE DEF share
    <3> QED BY <1>2, <3>1, Product
  <2> QED BY ZenonT(60), <2>1
<1>4. amount' = [a \in Account |-> IF a = m THEN amount[a] - share * Len(s) ELSE amount[a] + gain[a]]
  BY DEF slashMiner
<1>5. balance' = balance
  BY DEF slashMiner
<1> HIDE DEF share, gain
<1> QED BY ZenonT(60), <1>2, <1>3, <1>4, <1>5, Redistributed

(* Those who share a closed dispute's stake are accounts, and there is one *)
(* at least.                                                               *)
LEMMA Shared ==
    ASSUME DisputeTypeOK, NEW m \in Account, NEW r \in Request, disputes[m][r].initiator \in Account
    PROVE  Recipients(m, r) \in Seq(Account) /\ Recipients(m, r) # <<>>
<1>1. disputes[m][r].voted \in Seq(Account)
  BY DEF DisputeTypeOK
<1> QED BY <1>1, Grown DEF Recipients

LEMMA StakeStep ==
    ASSUME Types, StakeTypes, DisputeTypeOK, SumNeedsVotes, [Next]_vars
    PROVE  StakeTypes' /\ StakeLoss
<1>1. balance \in [Account -> Int] /\ amount \in [Account -> Nat]
  BY DEF StakeTypes
<1>2. CASE UNCHANGED stakingVars
  BY <1>1, <1>2 DEF stakingVars, StakeTypes, StakeLoss
<1>3. ASSUME NEW n \in Account, mineAndStake(n) PROVE StakeTypes' /\ StakeLoss
  <2>1. amount' = [amount EXCEPT ![n] = @ + minerReward] /\ balance' = balance
    BY <1>3 DEF mineAndStake
  <2>2. \A a \in Account : amount'[a] \in Nat /\ amount[a] \in Nat /\ amount'[a] >= amount[a]
    BY StakingAssumption, <1>1, <2>1
  <2>3. StakeTypes'
    BY StakingAssumption, <1>1, <2>1 DEF StakeTypes
  <2>4. \A a \in Account : ~(amount'[a] < amount[a])
    BY <2>2
  <2> QED BY <2>3, <2>4 DEF StakeLoss
<1>4. ASSUME NEW n \in Account, NEW k \in Amount, stake(n, k) PROVE StakeTypes' /\ StakeLoss
  <2>1. k \in Nat
    BY StakingAssumption
  <2>2. amount' = [amount EXCEPT ![n] = @ + k] /\ balance' = [balance EXCEPT ![n] = @ - k]
    BY <1>4 DEF stake
  <2>3. \A a \in Account : amount'[a] \in Nat /\ amount[a] \in Nat /\ amount'[a] >= amount[a]
    BY <1>1, <2>1, <2>2
  <2>4. StakeTypes'
    BY <1>1, <2>1, <2>2 DEF StakeTypes
  <2>5. \A a \in Account : ~(amount'[a] < amount[a])
    BY <2>3
  <2> QED BY <2>4, <2>5 DEF StakeLoss
<1>5. ASSUME NEW n \in Account, NEW k \in Amount, withdraw(n, k) PROVE StakeTypes' /\ StakeLoss
  <2>1. k \in Nat
    BY StakingAssumption
  <2>2. /\ amount[n] >= k
        /\ amount' = [amount EXCEPT ![n] = @ - k] /\ balance' = [balance EXCEPT ![n] = @ + k]
    BY <1>5 DEF withdraw
  <2>3. StakeTypes'
    BY <1>1, <2>1, <2>2 DEF StakeTypes
  <2>4. balance'[n] - balance[n] = amount[n] - amount'[n]
    BY <1>1, <2>1, <2>2
  <2>5. \A a \in Account : a # n => amount'[a] = amount[a] /\ amount[a] \in Nat
    BY <1>1, <2>2
  <2>6. \A a \in Account : amount'[a] < amount[a] => a = n
    BY <2>5
  <2> QED BY <2>3, <2>4, <2>6 DEF StakeLoss
<1>6. ASSUME NEW m \in Account, NEW r \in Request, Closes(m, r) PROVE StakeTypes' /\ StakeLoss
  <2>1. Recipients(m, r) \in Seq(Account) /\ Recipients(m, r) # <<>>
    BY <1>6, Shared DEF Closes
  <2>2. StakeTypes' /\ \A a \in Account : a # m => amount'[a] >= amount[a]
    BY <1>6, <2>1, Slashed DEF Closes
  <2>3. disputes[m][r].voted # <<>>
    BY <1>6 DEF Closes, SumNeedsVotes
  <2>4. \A a \in Account : amount'[a] \in Nat /\ amount[a] \in Nat
    BY <1>1, <2>2 DEF StakeTypes
  <2>5. \A a \in Account : amount'[a] < amount[a] => a = m
    BY <2>2, <2>4
  <2> QED BY <1>6, <2>2, <2>3, <2>5 DEF Closes, StakeLoss
<1> QED BY <1>2, <1>3, <1>4, <1>5, <1>6, StakeMoves

LEMMA InitStakes == Init => StakeTypes /\ DisputeTypeOK /\ SumNeedsVotes
<1> SUFFICES ASSUME Init PROVE StakeTypes /\ DisputeTypeOK /\ SumNeedsVotes
  OBVIOUS
<1>1. StakeTypes
  BY StakingAssumption DEF Init, StakingInit, StakeTypes
<1>2. \A m \in Account, r \in Request : disputes[m][r] = NoDispute
  BY DEF Init, DisputeInit
<1>3. DisputeTypeOK
  <2>1. <<>> \in Seq(Account) /\ 0 \in 0..MaxTime
    BY StakingAssumption
  <2>2. NoDispute \in DisputeRecord
    BY <2>1 DEF NoDispute, DisputeRecord
  <2> QED BY <2>2 DEF Init, DisputeInit, DisputeTypeOK, DisputeRecord
<1>4. SumNeedsVotes
  <2>1. \A m \in Account, r \in Request : ~(disputes[m][r].sum > 0)
    BY <1>2 DEF NoDispute
  <2> QED BY <2>1 DEF SumNeedsVotes
<1> QED BY <1>1, <1>3, <1>4

(* The inductive invariant of the stakes and the disputes.                 *)
StakeInv == Types /\ StakeTypes /\ DisputeTypeOK /\ SumNeedsVotes

LEMMA StakeInvStep == StakeInv /\ [Next]_vars => StakeInv' /\ StakeLoss
BY TypesStep, StakeStep, DisputeStep DEF StakeInv

LEMMA StakesSound == Spec => []StakeInv
<1>1. Init => StakeInv
  BY InitTypes, InitStakes DEF StakeInv
<1> QED BY <1>1, StakeInvStep, PTL DEF Spec

(* For any stakes and windows: a stake falls only by the withdrawal of its *)
(* owner, which pays it out, or by the closing of a dispute that was voted *)
(* for and open for its whole window (slashMiner, DioneStaking.sol).       *)
THEOREM StakeFallsOnlyByDispute == Spec => NoOtherLoss
<1>1. StakeInv /\ [Next]_vars => [StakeLoss]_vars
  BY StakeInvStep
<1> QED BY <1>1, StakesSound, PTL DEF Spec, NoOtherLoss
=============================================================================
