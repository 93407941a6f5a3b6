---------------------------- MODULE DisputeProofs ---------------------------
(***************************************************************************)
(* Proofs about the disputes and the tokens of the settlement: that nobody *)
(* votes twice, that a dispute has its grounds, and that the stakes add up. *)
(***************************************************************************)
EXTENDS SettlementProofs

(* The backends a leaf is tried with, in this order, unless it names one.  *)
USE SMTT(60), Z3T(60), ZenonT(60)

-----------------------------------------------------------------------------
(* Nobody votes twice on a dispute, although the contract does not look:   *)
(* the argument follows a vote from the event that asks for it, through    *)
(* the call that casts it, to the list of the voters.                      *)

(* The entries of a queue that lie in K.                                   *)
Has(s, K) == \E i \in 1..Len(s) : s[i] \in K
AtMostOne(s, K) == \A i, j \in 1..Len(s) : s[i] \in K /\ s[j] \in K => i = j

LEMMA AppendOne ==
    ASSUME NEW S, NEW s \in Seq(S), NEW e \in S, NEW K
    PROVE  /\ Has(Append(s, e), K) => Has(s, K) \/ e \in K
           /\ AtMostOne(s, K) /\ (e \in K => ~Has(s, K)) => AtMostOne(Append(s, e), K)
<1>1. Len(Append(s, e)) = Len(s) + 1 /\ Len(s) \in Nat
  OBVIOUS
<1>2. \A i \in 1..(Len(s) + 1) : Append(s, e)[i] = IF i = Len(s) + 1 THEN e ELSE s[i]
  OBVIOUS
<1>3. \A i \in 1..(Len(s) + 1) : i = Len(s) + 1 \/ i \in 1..Len(s)
  BY <1>1
<1>4. ASSUME Has(Append(s, e), K) PROVE Has(s, K) \/ e \in K
  BY <1>1, <1>2, <1>3, <1>4 DEF Has
<1>5. ASSUME AtMostOne(s, K), e \in K => ~Has(s, K) PROVE AtMostOne(Append(s, e), K)
  BY <1>1, <1>2, <1>3, <1>5 DEF Has, AtMostOne
<1> QED BY <1>4, <1>5

LEMMA TailOne ==
    ASSUME NEW S, NEW s \in Seq(S), s # <<>>, NEW K
    PROVE  /\ Head(s) \in K => Has(s, K)
           /\ Has(Tail(s), K) => Has(s, K)
           /\ AtMostOne(s, K) => AtMostOne(Tail(s), K)
           /\ AtMostOne(s, K) /\ Head(s) \in K => ~Has(Tail(s), K)
<1>1. /\ Len(s) \in Nat /\ Len(s) > 0 /\ Head(s) = s[1] /\ Len(Tail(s)) = Len(s) - 1
  OBVIOUS
<1>2. \A i \in 1..(Len(s) - 1) : Tail(s)[i] = s[i + 1]
  OBVIOUS
<1>3. \A i \in 1..(Len(s) - 1) : i + 1 \in 1..Len(s) /\ i + 1 # 1 /\ i \in Nat
  BY <1>1
<1>4. 1 \in 1..Len(s)
  BY <1>1
<1>5. Head(s) \in K => Has(s, K)
  BY <1>1, <1>4 DEF Has
<1>6. Has(Tail(s), K) => Has(s, K)
  BY <1>1, <1>2, <1>3 DEF Has
<1>7. ASSUME AtMostOne(s, K), NEW i \in 1..(Len(s) - 1), NEW j \in 1..(Len(s) - 1),
             Tail(s)[i] \in K, Tail(s)[j] \in K
      PROVE  i = j
  <2>1. i + 1 = j + 1
    BY <1>2, <1>3, <1>7 DEF AtMostOne
  <2> QED BY <1>3, <2>1
<1>8. AtMostOne(s, K) => AtMostOne(Tail(s), K)
  BY <1>1, <1>7 DEF AtMostOne
<1>9. AtMostOne(s, K) /\ Head(s) \in K => ~Has(Tail(s), K)
  BY <1>1, <1>2, <1>3, <1>4 DEF Has, AtMostOne
<1> QED BY <1>5, <1>6, <1>8, <1>9

LEMMA EmptyOne == ASSUME NEW K PROVE ~Has(<<>>, K) /\ AtMostOne(<<>>, K)
BY DEF Has, AtMostOne

LEMMA InjectiveAppend ==
    ASSUME NEW s \in Seq(Account), NEW n \in Account, IsInjective(s), n \notin Elems(s)
    PROVE  IsInjective(Append(s, n))
<1>1. /\ Len(s) \in Nat
      /\ DOMAIN s = 1..Len(s) /\ DOMAIN Append(s, n) = 1..(Len(s) + 1)
  OBVIOUS
<1>2. \A i \in 1..(Len(s) + 1) : Append(s, n)[i] = IF i = Len(s) + 1 THEN n ELSE s[i]
  OBVIOUS
<1>3. \A i \in 1..(Len(s) + 1) : i = Len(s) + 1 \/ i \in 1..Len(s)
  BY <1>1
<1>4. \A i \in 1..Len(s) : s[i] # n
  BY DEF Elems
<1>5. ASSUME NEW i \in 1..(Len(s) + 1), NEW j \in 1..(Len(s) + 1), Append(s, n)[i] = Append(s, n)[j]
      PROVE  i = j
  <2>1. CASE i = Len(s) + 1 /\ j = Len(s) + 1
    BY <2>1
  <2>2. CASE i \in 1..Len(s) /\ j \in 1..Len(s)
    <3>1. s[i] = s[j]
      BY <1>1, <1>2, <1>5, <2>2
    <3> QED BY <1>1, <2>2, <3>1 DEF IsInjective
  <2>3. CASE i = Len(s) + 1 /\ j \in 1..Len(s)
    BY <1>1, <1>2, <1>4, <1>5, <2>3
  <2>4. CASE i \in 1..Len(s) /\ j = Len(s) + 1
    BY <1>1, <1>2, <1>4, <1>5, <2>4
  <2> QED BY <1>3, <2>1, <2>2, <2>3, <2>4
<1> QED BY <1>1, <1>5 DEF IsInjective

-----------------------------------------------------------------------------
(* The calls that vote on the dispute m, r, and the events that open it.   *)
Votes(m, r) == {c \in Call : c.kind = "vote" /\ c.m = m /\ c.r = r}
Events(m, r) == {e \in Opened : e.m = m /\ e.r = r}

(* The vote of a on the dispute m, r is asked for, on its way, or cast; it *)
(* is at most one of the three, and it is that once.                       *)
Once(a, m, r) ==
    LET d == disputes[m][r] IN
    /\ AtMostOne(txs[a], Votes(m, r)) /\ AtMostOne(disputesChan[a], Events(m, r))
    /\ Has(txs[a], Votes(m, r)) =>
          /\ d.initiator # None /\ a # d.initiator /\ a \notin Elems(d.voted)
          /\ ~Has(disputesChan[a], Events(m, r))
    /\ Has(disputesChan[a], Events(m, r)) =>
          d.initiator # None /\ (d.finished \/ a \notin Elems(d.voted))

(* The initiator is entered when the dispute is closed, and not before.    *)
Voters(m, r) ==
    LET d == disputes[m][r] IN
    /\ IsInjective(d.voted)
    /\ d.initiator = None => d.voted = <<>>
    /\ d.initiator # None /\ ~d.finished => d.initiator \notin Elems(d.voted)

VotesSound == \A m \in Account, r \in Request : Voters(m, r) /\ \A a \in Account : Once(a, m, r)

(* How one dispute changes: it is opened, voted on or closed.              *)
Begins(n, m, r) ==
    LET d == disputes[m][r]
        e == disputes'[m][r] IN
    /\ d.initiator = None
    /\ e.initiator = n /\ e.voted = <<>> /\ e.finished = FALSE

VotesOn(n, m, r) ==
    LET d == disputes[m][r]
        e == disputes'[m][r] IN
    /\ Head(txs[n]) \in Votes(m, r)
    /\ d.initiator # None /\ n # d.initiator
    /\ e.initiator = d.initiator /\ e.finished = d.finished /\ e.voted = Append(d.voted, n)

Ends(m, r) ==
    LET d == disputes[m][r]
        e == disputes'[m][r] IN
    /\ d.initiator # None /\ ~d.finished
    /\ e.initiator = d.initiator /\ e.finished /\ e.voted \in {d.voted, Append(d.voted, d.initiator)}

LEMMA MovesCases ==
    ASSUME Types, StakeTypes, DisputeTypeOK,
           NEW n \in Account, NEW m \in Account, NEW r \in Request, Moves(n, m, r)
    PROVE  /\ \A k \in Account, q \in Request :
                 k # m \/ q # r => disputes'[k][q] = disputes[k][q]
           /\ \/ Head(txs[n]).kind = "begin" /\ Begins(n, m, r)
              \/ Head(txs[n]).kind = "vote" /\ VotesOn(n, m, r)
              \/ Head(txs[n]).kind = "finish" /\ Ends(m, r)
<1> DEFINE c == Head(txs[n])
           d == disputes[m][r]
<1>1. disputes \in [Account -> [Request -> DisputeRecord]] /\ d \in DisputeRecord
  BY DEF DisputeTypeOK, DisputeRecord
<1>2. /\ c \in Call /\ (c.kind = "vote" => c.status \in BOOLEAN) /\ now \in 0..MaxTime
      /\ Accepts(n, c) /\ c.m = m /\ c.r = r
  BY Included, CallFields DEF Moves, Types, ChainTypes
<1>3. ASSUME NEW e, disputes' = [disputes EXCEPT ![m][r] = e]
      PROVE  /\ disputes'[m][r] = e
             /\ \A k \in Account, q \in Request : k # m \/ q # r => disputes'[k][q] = disputes[k][q]
  BY <1>1, <1>3
<1>4. CASE c.kind = "begin" /\ disputes' = [disputes EXCEPT ![m][r] = NewDispute(n)]
  <2>1. disputes'[m][r] = NewDispute(n)
    BY ZenonT(60), <1>3, <1>4
  <2>2. d.initiator = None
    BY <1>2, <1>4 DEF Accepts, CanBegin
  <2>3. Begins(n, m, r)
    BY ZenonT(60), <1>2, <2>1, <2>2, NewFacts DEF Begins
  <2> QED BY <1>3, <1>4, <2>3
<1>5. CASE c.kind = "vote" /\ disputes' = [disputes EXCEPT ![m][r] = Voted(d, n, c.status)]
  <2>1. disputes'[m][r] = Voted(d, n, c.status)
    BY ZenonT(60), <1>3, <1>5
  <2>2. d.initiator # None /\ n # d.initiator
    BY ZenonT(60), <1>2, <1>5 DEF Accepts, CanVote
  <2>3. c \in Votes(m, r)
    BY ZenonT(60), <1>2, <1>5 DEF Votes
  <2>4. /\ Voted(d, n, c.status).initiator = d.initiator
        /\ Voted(d, n, c.status).finished = d.finished
        /\ Voted(d, n, c.status).voted = Append(d.voted, n)
    BY <1>1, <1>2, <1>5, VotedFacts
  <2>5. VotesOn(n, m, r)
    BY ZenonT(60), <2>1, <2>2, <2>3, <2>4 DEF VotesOn
  <2> QED BY <1>3, <1>5, <2>5
<1>6. CASE c.kind = "finish" /\ disputes' = [disputes EXCEPT ![m][r] = Finished(d)]
  <2>1. disputes'[m][r] = Finished(d)
    BY ZenonT(60), <1>3, <1>6
  <2>2. d.initiator # None /\ ~d.finished
    BY ZenonT(60), <1>2, <1>6, DisputeAssumption DEF Accepts, CanFinish
  <2>3. /\ Finished(d).initiator = d.initiator /\ Finished(d).finished
        /\ Finished(d).voted \in {d.voted, Append(d.voted, d.initiator)}
    BY ZenonT(60), <1>1, <2>2, FinishedFacts
  <2>4. Ends(m, r)
    BY <2>1, <2>2, <2>3 DEF Ends
  <2> QED BY <1>3, <1>6, <2>4
<1> QED BY <1>4, <1>5, <1>6 DEF Moves

(* The queues of an including block.                                       *)
LEMMA QueuesTail ==
    ASSUME Types, NEW n \in Account, include(n), NEW a \in Account, NEW K
    PROVE  /\ Has(txs'[a], K) => Has(txs[a], K)
           /\ AtMostOne(txs[a], K) => AtMostOne(txs'[a], K)
           /\ Head(txs[n]) \in K => Has(txs[n], K)
           /\ Head(txs[n]) \in K /\ AtMostOne(txs[n], K) => ~Has(txs'[n], K)
           /\ a # n => txs'[a] = txs[a]
<1>1. txs \in [Account -> Seq(Call)] /\ txs[n] \in Seq(Call)
  BY DEF Types, QueueTypes
<1>2. txs[n] # <<>> /\ txs' = [txs EXCEPT ![n] = Tail(txs[n])]
  BY Included
<1>3. txs'[n] = Tail(txs[n]) /\ (a # n => txs'[a] = txs[a])
  BY <1>1, <1>2
<1> QED BY <1>1, <1>2, <1>3, TailOne

LEMMA VotersMove ==
    ASSUME DisputeTypeOK, Types, NEW n \in Account, include(n), NEW m \in Account, NEW r \in Request,
           Voters(m, r), Once(n, m, r),
           Begins(n, m, r) \/ VotesOn(n, m, r) \/ Ends(m, r)
    PROVE  Voters(m, r)'
<1> DEFINE d == disputes[m][r]
           e == disputes'[m][r]
<1>1. d.voted \in Seq(Account) /\ d.initiator \in Account \cup {None}
  BY DEF DisputeTypeOK
<1>2. CASE Begins(n, m, r)
  <2>1. e.initiator = n /\ e.voted = <<>>
    BY <1>2 DEF Begins
  <2>2. IsInjective(<<>>) /\ n # None
    BY DisputeAssumption DEF IsInjective
  <2> QED BY <2>1, <2>2, ElemsEmpty DEF Voters
<1>3. CASE VotesOn(n, m, r)
  <2>1. n \notin Elems(d.voted)
    BY <1>3, QueuesTail DEF VotesOn, Once
  <2>2. IsInjective(Append(d.voted, n))
    BY <1>1, <2>1, InjectiveAppend DEF Voters
  <2>3. Elems(Append(d.voted, n)) = Elems(d.voted) \cup {n}
    BY <1>1, ElemsAppend
  <2> QED BY ZenonT(60), <1>3, <2>2, <2>3 DEF VotesOn, Voters
<1>4. CASE Ends(m, r)
  <2>1. d.initiator \in Account /\ d.initiator \notin Elems(d.voted)
    BY ZenonT(60), <1>1, <1>4 DEF Ends, Voters
  <2>2. IsInjective(Append(d.voted, d.initiator))
    BY <1>1, <2>1, InjectiveAppend DEF Voters
  <2> QED BY ZenonT(60), <1>4, <2>1, <2>2 DEF Ends, Voters
<1> QED BY <1>2, <1>3, <1>4

(* Less to do about the same dispute.                                      *)
LEMMA OnceKept ==
    ASSUME NEW a \in Account, NEW m \in Account, NEW r \in Request, Once(a, m, r),
           disputes'[m][r] = disputes[m][r],
           Has(txs'[a], Votes(m, r)) => Has(txs[a], Votes(m, r)),
           AtMostOne(txs'[a], Votes(m, r)),
           Has(disputesChan'[a], Events(m, r)) => Has(disputesChan[a], Events(m, r)),
           AtMostOne(disputesChan'[a], Events(m, r))
    PROVE  Once(a, m, r)'
BY DEF Once

LEMMA OnceBegin ==
    ASSUME Types, NEW n \in Account, include(n), NEW m \in Account, NEW r \in Request,
           Begins(n, m, r), NEW a \in Account, Once(a, m, r),
           disputesChan' = Emit(disputesChan, [m |-> m, r |-> r, initiator |-> n])
    PROVE  Once(a, m, r)'
<1> DEFINE e == [m |-> m, r |-> r, initiator |-> n]
<1>1. e \in Opened /\ disputesChan \in [Account -> Seq(Opened)]
  BY ZenonT(60) DEF Opened, Types, QueueTypes
<1>2. ~Has(txs[a], Votes(m, r)) /\ ~Has(disputesChan[a], Events(m, r))
  BY DEF Once, Begins
<1>3. ~Has(txs'[a], Votes(m, r)) /\ AtMostOne(txs'[a], Votes(m, r))
  BY <1>2, QueuesTail DEF Once
<1> HIDE DEF e
<1>4. disputesChan'[a] \in {disputesChan[a], Append(disputesChan[a], e)}
  BY ZenonT(60), <1>1, EmitTypes DEF e
<1>5. AtMostOne(disputesChan'[a], Events(m, r))
  <2>1. disputesChan[a] \in Seq(Opened) /\ AtMostOne(disputesChan[a], Events(m, r))
    BY <1>1 DEF Once
  <2>2. AtMostOne(Append(disputesChan[a], e), Events(m, r))
    BY <1>1, <1>2, <2>1, AppendOne
  <2> QED BY ZenonT(60), <1>4, <2>1, <2>2
<1>6. disputes'[m][r].initiator # None /\ a \notin Elems(disputes'[m][r].voted)
  BY ElemsEmpty, DisputeAssumption DEF Begins
<1> QED BY <1>3, <1>5, <1>6 DEF Once

LEMMA OnceVote ==
    ASSUME Types, DisputeTypeOK, NEW n \in Account, include(n), NEW m \in Account, NEW r \in Request,
           VotesOn(n, m, r), NEW a \in Account, Once(a, m, r), disputesChan' = disputesChan
    PROVE  Once(a, m, r)'
<1> DEFINE d == disputes[m][r]
<1>1. d.voted \in Seq(Account)
  BY DEF DisputeTypeOK
<1>2. CASE a = n
  <2>1. Has(txs[a], Votes(m, r)) /\ ~Has(txs'[a], Votes(m, r)) /\ AtMostOne(txs'[a], Votes(m, r))
    BY <1>2, QueuesTail DEF VotesOn, Once
  <2>2. ~Has(disputesChan'[a], Events(m, r)) /\ AtMostOne(disputesChan'[a], Events(m, r))
    BY ZenonT(60), <2>1 DEF Once
  <2> QED BY ZenonT(60), <2>1, <2>2 DEF Once
<1>3. CASE a # n
  <2>1. txs'[a] = txs[a]
    BY <1>3, QueuesTail
  <2>2. Elems(Append(d.voted, n)) = Elems(d.voted) \cup {n}
    BY <1>1, ElemsAppend
  <2> QED BY ZenonT(60), <1>3, <2>1, <2>2 DEF VotesOn, Once
<1> QED BY <1>2, <1>3

LEMMA OnceEnd ==
    ASSUME Types, DisputeTypeOK, NEW n \in Account, include(n), NEW m \in Account, NEW r \in Request,
           Ends(m, r), NEW a \in Account, Once(a, m, r), disputesChan' = disputesChan
    PROVE  Once(a, m, r)'
<1> DEFINE d == disputes[m][r]
<1>1. d.voted \in Seq(Account)
  BY DEF DisputeTypeOK
<1>2. /\ Has(txs'[a], Votes(m, r)) => Has(txs[a], Votes(m, r))
      /\ AtMostOne(txs'[a], Votes(m, r))
  BY QueuesTail DEF Once
<1>3. Elems(Append(d.voted, d.initiator)) = Elems(d.voted) \cup {d.initiator}
  BY <1>1, ElemsAppend
<1> QED BY ZenonT(60), <1>2, <1>3 DEF Ends, Once

LEMMA IncludeStep ==
    ASSUME Types, StakeTypes, DisputeTypeOK, VotesSound, NEW n \in Account, include(n)
    PROVE  VotesSound'
<1>1. ASSUME NEW m \in Account, NEW r \in Request, NEW a \in Account
      PROVE  Voters(m, r) /\ Once(a, m, r) /\ Once(n, m, r)
  BY DEF VotesSound
<1>2. ASSUME NEW m \in Account, NEW r \in Request, NEW a \in Account,
             disputes'[m][r] = disputes[m][r],
             Has(disputesChan'[a], Events(m, r)) => Has(disputesChan[a], Events(m, r)),
             AtMostOne(disputesChan'[a], Events(m, r))
      PROVE  Once(a, m, r)'
  <2>1. AtMostOne(txs[a], Votes(m, r))
    BY <1>1 DEF Once
  <2>2. /\ Has(txs'[a], Votes(m, r)) => Has(txs[a], Votes(m, r))
        /\ AtMostOne(txs'[a], Votes(m, r))
    BY <2>1, QueuesTail
  <2> QED BY ZenonT(60), <1>1, <1>2, <2>2, OnceKept
<1>3. ASSUME NEW m \in Account, NEW r \in Request, disputes'[m][r] = disputes[m][r]
      PROVE  Voters(m, r)'
  BY <1>1, <1>3 DEF Voters
<1>4. CASE UNCHANGED <<disputes, disputesChan>>
  <2>1. ASSUME NEW m \in Account, NEW r \in Request, NEW a \in Account PROVE Once(a, m, r)'
    BY ZenonT(60), <1>1, <1>2, <1>4 DEF Once
  <2> QED BY ZenonT(60), <1>3, <1>4, <2>1 DEF VotesSound
<1>5. ASSUME NEW k \in Account, NEW q \in Request, Moves(n, k, q),
             \/ /\ Head(txs[n]).kind = "begin"
                /\ disputesChan' = Emit(disputesChan, [m |-> k, r |-> q, initiator |-> n])
             \/ Head(txs[n]).kind # "begin" /\ UNCHANGED disputesChan
      PROVE  VotesSound'
  <2>1. \A m \in Account, r \in Request : m # k \/ r # q => disputes'[m][r] = disputes[m][r]
    BY ZenonT(60), <1>5, MovesCases
  <2>2. \/ Begins(n, k, q) /\ disputesChan' = Emit(disputesChan, [m |-> k, r |-> q, initiator |-> n])
        \/ VotesOn(n, k, q) /\ UNCHANGED disputesChan
        \/ Ends(k, q) /\ UNCHANGED disputesChan
    BY <1>5, MovesCases
  <2>3. Voters(k, q)'
    BY <1>1, <2>2, VotersMove
  <2>4. ASSUME NEW a \in Account PROVE Once(a, k, q)'
    BY <1>1, <2>2, OnceBegin, OnceVote, OnceEnd
  <2>5. ASSUME NEW m \in Account, NEW r \in Request, NEW a \in Account, m # k \/ r # q
        PROVE  Once(a, m, r)'
    <3> DEFINE e == [m |-> k, r |-> q, initiator |-> n]
    <3>1. AtMostOne(disputesChan[a], Events(m, r))
      BY ZenonT(60), <1>1 DEF Once
    <3>2. CASE UNCHANGED disputesChan
      BY ZenonT(60), <1>2, <2>1, <2>5, <3>1, <3>2
    <3>3. CASE disputesChan' = Emit(disputesChan, e)
      <4>1. e \in Opened /\ disputesChan \in [Account -> Seq(Opened)]
        BY ZenonT(60) DEF Opened, Types, QueueTypes
      <4>2. e \notin Events(m, r)
        BY <2>5 DEF Events
      <4> HIDE DEF e
      <4>3. disputesChan'[a] \in {disputesChan[a], Append(disputesChan[a], e)}
        BY ZenonT(60), <3>3, <4>1, EmitTypes
      <4>4. /\ Has(disputesChan'[a], Events(m, r)) => Has(disputesChan[a], Events(m, r))
            /\ AtMostOne(disputesChan'[a], Events(m, r))
        <5>1. disputesChan[a] \in Seq(Opened)
          BY <4>1
        <5>2. /\ Has(Append(disputesChan[a], e), Events(m, r)) => Has(disputesChan[a], Events(m, r))
              /\ AtMostOne(Append(disputesChan[a], e), Events(m, r))
          BY <3>1, <4>1, <4>2, <5>1, AppendOne
        <5> QED BY ZenonT(60), <3>1, <4>3, <5>2
      <4> QED BY <1>2, <2>1, <2>5, <4>4
    <3> QED BY ZenonT(60), <2>2, <3>2, <3>3
  <2>6. ASSUME NEW m \in Account, NEW r \in Request PROVE Voters(m, r)'
    BY <1>3, <2>1, <2>3
  <2> QED BY ZenonT(60), <2>4, <2>5, <2>6 DEF VotesSound
<1> QED BY ZenonT(60), <1>4, <1>5, IncludeMoves

(* A node that looks at a new dispute takes the event out and may vote.    *)
LEMMA AskedStep ==
    ASSUME Types, VotesSound, NEW n \in Account, onNewDispute(n)
    PROVE  VotesSound'
<1> DEFINE e == Head(disputesChan[n])
           c == VoteDispute(e.m, e.r, Mismatch(n, e.r, submissionCache[n][e.r]))
<1>1. /\ txs \in [Account -> Seq(Call)] /\ txs[n] \in Seq(Call)
      /\ disputesChan \in [Account -> Seq(Opened)] /\ disputesChan[n] \in Seq(Opened)
  BY DEF Types, QueueTypes
<1>2. /\ disputesChan[n] # <<>>
      /\ disputesChan' = [disputesChan EXCEPT ![n] = Tail(disputesChan[n])]
      /\ disputes' = disputes
      /\ txs' = txs \/ (Accepts(n, c) /\ Send(n, c))
  BY DEF onNewDispute
<1>3. e \in Opened /\ e.m \in Account /\ e.r \in Request
  <2>1. e \in Opened
    BY ZenonT(60), <1>1, <1>2, ElemsTail
  <2> HIDE DEF e
  <2> QED BY ZenonT(60), <2>1 DEF Opened
<1>4. c \in Call /\ c.kind = "vote" /\ c.m = e.m /\ c.r = e.r
  <2>1. Mismatch(n, e.r, submissionCache[n][e.r]) \in BOOLEAN
    BY DEF Mismatch
  <2>2. c \in Call
    BY <1>3, <2>1, CallTypes
  <2> QED BY <2>2 DEF VoteDispute
<1> HIDE DEF c, e
<1>5. ASSUME NEW a \in Account, NEW K
      PROVE  /\ Has(disputesChan'[a], K) => Has(disputesChan[a], K)
             /\ AtMostOne(disputesChan[a], K) => AtMostOne(disputesChan'[a], K)
             /\ a # n => disputesChan'[a] = disputesChan[a]
  <2>1. disputesChan'[n] = Tail(disputesChan[n]) /\ (a # n => disputesChan'[a] = disputesChan[a])
    BY <1>1, <1>2
  <2> QED BY <1>1, <1>2, <2>1, TailOne
<1>6. ASSUME NEW a \in Account, NEW m \in Account, NEW r \in Request PROVE Once(a, m, r)'
  <2>1. Once(a, m, r)
    BY DEF VotesSound
  <2>2. disputes'[m][r] = disputes[m][r]
    BY <1>2
  <2>3. /\ Has(disputesChan'[a], Events(m, r)) => Has(disputesChan[a], Events(m, r))
        /\ AtMostOne(disputesChan'[a], Events(m, r))
    BY ZenonT(60), <1>5, <2>1 DEF Once
  <2>4. CASE txs'[a] = txs[a]
    BY ZenonT(60), <2>1, <2>2, <2>3, <2>4, OnceKept DEF Once
  <2>5. CASE a = n /\ Accepts(n, c) /\ txs'[n] = Append(txs[n], c)
    <3>1. CASE c \notin Votes(m, r)
      <4>1. /\ Has(txs'[a], Votes(m, r)) => Has(txs[a], Votes(m, r))
            /\ AtMostOne(txs'[a], Votes(m, r))
        <5>1. AtMostOne(txs[n], Votes(m, r))
          BY ZenonT(60), <2>1, <2>5 DEF Once
        <5>2. /\ Has(Append(txs[n], c), Votes(m, r)) => Has(txs[n], Votes(m, r))
              /\ AtMostOne(Append(txs[n], c), Votes(m, r))
          BY ZenonT(60), <1>1, <1>4, <3>1, <5>1, AppendOne
        <5> QED BY ZenonT(60), <2>5, <5>2
      <4> QED BY ZenonT(60), <2>1, <2>2, <2>3, <4>1, OnceKept
    <3>2. CASE c \in Votes(m, r)
      <4>1. e \in Events(m, r) /\ c.m = m /\ c.r = r
        BY <1>3, <1>4, <3>2 DEF Votes, Events
      <4>2. Has(disputesChan[n], Events(m, r)) /\ ~Has(disputesChan'[n], Events(m, r))
        <5>1. disputesChan'[n] = Tail(disputesChan[n]) /\ Head(disputesChan[n]) \in Events(m, r)
          BY ZenonT(60), <1>1, <1>2, <4>1 DEF e
        <5>2. AtMostOne(disputesChan[n], Events(m, r))
          BY ZenonT(60), <2>1, <2>5 DEF Once
        <5> QED BY ZenonT(60), <1>1, <1>2, <5>1, <5>2, TailOne
      <4>3. ~Has(txs[n], Votes(m, r)) /\ AtMostOne(txs[n], Votes(m, r))
        BY <2>1, <2>5, <4>2 DEF Once
      <4>4. AtMostOne(txs'[n], Votes(m, r))
        BY <1>1, <1>4, <2>5, <4>3, AppendOne
      <4>5. CanVote(n, m, r)
        BY ZenonT(60), <1>4, <2>5, <4>1 DEF Accepts
      <4>6. /\ disputes[m][r].initiator # None /\ n # disputes[m][r].initiator
            /\ n \notin Elems(disputes[m][r].voted)
        BY ZenonT(60), <2>1, <2>5, <4>2, <4>5 DEF Once, CanVote
      <4> QED BY ZenonT(60), <2>2, <2>3, <2>5, <4>2, <4>4, <4>6 DEF Once
    <3> QED BY ZenonT(60), <3>1, <3>2
  <2>6. txs'[a] = txs[a] \/ (a = n /\ Accepts(n, c) /\ txs'[n] = Append(txs[n], c))
    BY ZenonT(60), <1>1, <1>2, <1>4, SendTypes
  <2> QED BY <2>4, <2>5, <2>6
<1>7. ASSUME NEW m \in Account, NEW r \in Request PROVE Voters(m, r)'
  BY ZenonT(60), <1>2 DEF VotesSound, Voters
<1> QED BY <1>6, <1>7 DEF VotesSound

(* The other steps vote on nothing and announce nothing.                   *)
LEMMA QuietStep ==
    ASSUME Types, VotesSound, disputes' = disputes,
           \A a \in Account : disputesChan'[a] \in {disputesChan[a], <<>>},
           txs' = txs \/ \E n \in Account, c \in Call : Send(n, c) /\ c.kind # "vote"
    PROVE  VotesSound'
<1>1. txs \in [Account -> Seq(Call)]
  BY DEF Types, QueueTypes
<1>2. ASSUME NEW a \in Account, NEW m \in Account, NEW r \in Request PROVE Once(a, m, r)'
  <2>1. Once(a, m, r) /\ disputes'[m][r] = disputes[m][r]
    BY DEF VotesSound
  <2>2. /\ Has(disputesChan'[a], Events(m, r)) => Has(disputesChan[a], Events(m, r))
        /\ AtMostOne(disputesChan'[a], Events(m, r))
    BY <2>1, EmptyOne DEF Once
  <2>3. ASSUME NEW n \in Account, NEW c \in Call, Send(n, c), c.kind # "vote"
        PROVE  /\ Has(txs'[a], Votes(m, r)) => Has(txs[a], Votes(m, r))
               /\ AtMostOne(txs'[a], Votes(m, r))
    <3>1. txs'[a] \in {txs[a], Append(txs[a], c)} /\ txs[a] \in Seq(Call)
      BY <1>1, <2>3, SendTypes
    <3>2. c \notin Votes(m, r)
      BY ZenonT(60), <2>3 DEF Votes
    <3>3. AtMostOne(txs[a], Votes(m, r))
      BY <2>1 DEF Once
    <3>4. /\ Has(Append(txs[a], c), Votes(m, r)) => Has(txs[a], Votes(m, r))
          /\ AtMostOne(Append(txs[a], c), Votes(m, r))
      BY ZenonT(60), <3>1, <3>2, <3>3, AppendOne
    <3> QED BY ZenonT(60), <3>1, <3>3, <3>4
  <2>4. /\ Has(txs'[a], Votes(m, r)) => Has(txs[a], Votes(m, r))
        /\ AtMostOne(txs'[a], Votes(m, r))
    BY ZenonT(60), <2>1, <2>3 DEF Once
  <2> QED BY ZenonT(60), <2>1, <2>2, <2>4, OnceKept
<1>3. ASSUME NEW m \in Account, NEW r \in Request PROVE Voters(m, r)'
  BY DEF VotesSound, Voters
<1> QED BY <1>2, <1>3 DEF VotesSound

LEMMA VotesStep ==
    ASSUME Types, StakeTypes, DisputeTypeOK, VotesSound, [Next]_vars
    PROVE  VotesSound'
<1>1. CASE \E n \in Account : include(n) \/ onNewDispute(n)
  BY <1>1, IncludeStep, AskedStep
<1>2. CASE ~\E n \in Account : include(n) \/ onNewDispute(n)
  <2>1. disputes' = disputes
    BY ZenonT(60), <1>2, Frames DEF Next, vars, Tick, Ask, MoveStake, loseConnection, restart, finishTimer, storeBlock
  <2>2. \/ disputesChan' = disputesChan
        \/ \E n \in Account : disputesChan' = [disputesChan EXCEPT ![n] = <<>>]
    BY <1>2, Frames DEF Next, vars, chans, Tick, Ask, MoveStake, loseConnection, restart, finishTimer,
                        storeBlock, Unsubscribe
  <2>3. \A a \in Account : disputesChan'[a] \in {disputesChan[a], <<>>}
    BY <2>2 DEF Types, QueueTypes
  <2>4. txs' = txs \/ \E n \in Account, c \in Call : Send(n, c) /\ c.kind # "vote"
    BY <1>2, Sends
  <2> QED BY ZenonT(60), <2>1, <2>3, <2>4, QuietStep
<1> QED BY <1>1, <1>2

LEMMA InitVotes == Init => VotesSound
<1> SUFFICES ASSUME Init PROVE VotesSound
  OBVIOUS
<1>1. \A a \in Account : txs[a] = <<>> /\ disputesChan[a] = <<>>
  BY DEF Init
<1>2. \A m \in Account, r \in Request : disputes[m][r].initiator = None /\ disputes[m][r].voted = <<>>
  BY DEF Init, DisputeInit, NoDispute
<1>3. IsInjective(<<>>)
  BY DEF IsInjective
<1>4. ASSUME NEW m \in Account, NEW r \in Request PROVE Voters(m, r)
  BY ZenonT(60), <1>2, <1>3 DEF Voters
<1>5. ASSUME NEW a \in Account, NEW m \in Account, NEW r \in Request PROVE Once(a, m, r)
  BY <1>1, EmptyOne DEF Once
<1> QED BY <1>4, <1>5 DEF VotesSound

LEMMA VotesInvariant == Spec => []VotesSound
<1>1. StakeInv /\ VotesSound /\ [Next]_vars => VotesSound'
  BY VotesStep DEF StakeInv
<1> QED BY <1>1, InitVotes, StakesSound, PTL DEF Spec

(* For any number of nodes, disputes and forks, whatever reverts, is lost  *)
(* or is forgotten in a restart: no account is entered twice among the     *)
(* voters of a dispute: vote (DioneDispute.sol) does not look, but each    *)
(* dispute manager is asked once (onNewDispute, dispute_manager.go).       *)
THEOREM NobodyVotesTwice == Spec => []VotesOnce
<1>1. VotesSound => VotesOnce
  BY ZenonT(60) DEF VotesSound, Voters, VotesOnce
<1> QED BY <1>1, VotesInvariant, PTL

-----------------------------------------------------------------------------
(* What a dispute rests on.                                                *)

(* The grounds of a dispute.                                               *)
Grounds(m, r) ==
    submitted[r] # None /\ m \in Proposer /\ Payload[m][r] # submitted[r].data

(* A request that was answered is never pending again, ...                 *)
AnsweredOnce ==
    \A r \in Request :
        /\ pendingRequests[r] # None => r <= requestCounter
        /\ submitted[r] # None => pendingRequests[r] = None /\ r <= requestCounter

(* ... so that what the watchers saw is what was submitted, and a call to  *)
(* open a dispute has its grounds when it is sent and ever after.          *)
GroundsSound ==
    /\ \A n \in Account, s \in Submitted :
          s \in Elems(submissionChan[n]) => submitted[s.r] # None /\ submitted[s.r].data = s.data
    /\ \A n \in Account, c \in Call :
          c \in Elems(txs[n]) /\ c.kind = "begin" => Grounds(c.m, c.r)
    /\ \A m \in Account, r \in Request :
          disputes[m][r].initiator # None => Grounds(m, r)

LEMMA OracleMoves ==
    ASSUME [Next]_vars
    PROVE  \/ UNCHANGED oracleVars \/ Ask
           \/ \E n \in Account :
                 /\ include(n) /\ Accepts(n, Head(txs[n])) /\ Head(txs[n]).kind = "submit"
                 /\ submitOracleRequest(n, Head(txs[n]).r, Head(txs[n]).data)
<1>1. ASSUME NEW n \in Account, include(n)
      PROVE  \/ UNCHANGED oracleVars
             \/ /\ Accepts(n, Head(txs[n])) /\ Head(txs[n]).kind = "submit"
                /\ submitOracleRequest(n, Head(txs[n]).r, Head(txs[n]).data)
  BY ZenonT(60), <1>1 DEF include
<1> QED
  BY ZenonT(60), <1>1, Frames DEF Next, vars, Tick, MoveStake, loseConnection, restart, finishTimer, storeBlock

LEMMA AnsweredStep ==
    ASSUME Types, AnsweredOnce, [Next]_vars
    PROVE  /\ AnsweredOnce'
           /\ \A r \in Request : submitted[r] # None => submitted'[r] = submitted[r]
<1>1. /\ requestCounter \in Nat /\ Request \subseteq Nat
      /\ pendingRequests \in [Request -> Nat \cup {None}]
      /\ submitted \in [Request -> Submission \cup {None}]
  BY DEF Types, ChainTypes, OracleTypeOK, Request
<1>2. CASE UNCHANGED oracleVars
  BY <1>2 DEF oracleVars, AnsweredOnce
<1>3. CASE Ask
  <2>1. CASE requestOracles
    BY <1>1, <2>1 DEF requestOracles, AnsweredOnce
  <2>2. ASSUME NEW r \in Request, cancelOracleRequest(r)
        PROVE  /\ AnsweredOnce'
               /\ \A q \in Request : submitted[q] # None => submitted'[q] = submitted[q]
    BY <1>1, <2>2 DEF cancelOracleRequest, AnsweredOnce
  <2> QED BY <1>3, <2>1, <2>2 DEF Ask
<1>4. ASSUME NEW n \in Account, include(n), Accepts(n, Head(txs[n])), Head(txs[n]).kind = "submit",
             submitOracleRequest(n, Head(txs[n]).r, Head(txs[n]).data)
      PROVE  /\ AnsweredOnce'
             /\ \A q \in Request : submitted[q] # None => submitted'[q] = submitted[q]
  <2> DEFINE c == Head(txs[n])
  <2>1. c.r \in Request
    BY ZenonT(60), <1>4, Included, CallFields
  <2>2. pendingRequests[c.r] # None
    BY ZenonT(60), <1>4 DEF Accepts, CanSubmit
  <2>3. /\ pendingRequests' = [pendingRequests EXCEPT ![c.r] = None]
        /\ submitted' = [submitted EXCEPT ![c.r] = [miner |-> n, data |-> c.data]]
        /\ requestCounter' = requestCounter
    BY <1>4 DEF submitOracleRequest
  <2> HIDE DEF c
  <2> QED BY ZenonT(60), <1>1, <2>1, <2>2, <2>3 DEF AnsweredOnce
<1> QED BY ZenonT(60), <1>2, <1>3, <1>4, OracleMoves

(* Grounds once given stay.                                                *)
LEMMA GroundsKept ==
    ASSUME Types, AnsweredOnce, [Next]_vars, NEW m \in Account, NEW r \in Request, Grounds(m, r)
    PROVE  Grounds(m, r)'
BY AnsweredStep DEF Grounds

LEMMA SubmissionsSound ==
    ASSUME Types, AnsweredOnce, GroundsSound, [Next]_vars,
           NEW a \in Account, NEW s \in Submitted, s \in Elems(submissionChan'[a])
    PROVE  submitted'[s.r] # None /\ submitted'[s.r].data = s.data
<1>1. s.r \in Request
  BY DEF Submitted
<1>2. CASE s \in Elems(submissionChan[a])
  BY <1>1, <1>2, AnsweredStep DEF GroundsSound
<1>3. ASSUME NEW n \in Account, include(n),
             submitOracleRequest(n, Head(txs[n]).r, Head(txs[n]).data),
             s = [r |-> Head(txs[n]).r, data |-> Head(txs[n]).data]
      PROVE  submitted'[s.r] # None /\ submitted'[s.r].data = s.data
  <2>1. submitted' = [submitted EXCEPT ![s.r] = [miner |-> n, data |-> s.data]]
    BY <1>3 DEF submitOracleRequest
  <2>2. submitted \in [Request -> Submission \cup {None}] /\ submitted' \in [Request -> Submission \cup {None}]
    BY OracleStep DEF Types, ChainTypes, OracleTypeOK
  <2>3. submitted'[s.r] = [miner |-> n, data |-> s.data]
    BY ZenonT(60), <1>1, <2>1, <2>2
  <2>4. [miner |-> n, data |-> s.data] # None
    BY OracleAssumption DEF Submitted
  <2>5. [miner |-> n, data |-> s.data].data = s.data
    OBVIOUS
  <2> QED BY ZenonT(60), <2>3, <2>4, <2>5
<1> QED BY ZenonT(60), <1>2, <1>3, Submissions

LEMMA CallsSound ==
    ASSUME Types, AnsweredOnce, GroundsSound, [Next]_vars,
           NEW a \in Account, NEW c \in Call, c \in Elems(txs'[a]), c.kind = "begin"
    PROVE  Grounds(c.m, c.r)'
<1>1. c.m \in Account /\ c.r \in Request
  BY CallFields
<1>2. CASE c \in Elems(txs[a])
  BY ZenonT(60), <1>1, <1>2, GroundsKept DEF GroundsSound
<1>3. ASSUME NEW n \in Account, NEW e \in Call, Send(n, e),
             UNCHANGED <<oracleVars, disputes>>, c \notin Elems(txs[a]),
             e.kind = "begin" => Opens(n, e)
      PROVE  Grounds(c.m, c.r)'
  <2>1. txs \in [Account -> Seq(Call)]
    BY DEF Types, QueueTypes
  <2>2. c = e
    <3>1. a = n /\ txs'[n] = Append(txs[n], e)
      BY <1>3, <2>1, SendTypes
    <3>2. Elems(Append(txs[n], e)) = Elems(txs[n]) \cup {e}
      BY ZenonT(60), <2>1, ElemsAppend
    <3> QED BY ZenonT(60), <1>3, <3>1, <3>2
  <2> DEFINE s == Head(submissionChan[n])
             p == findTaskAndBlockWithRequestID(n, s.r)
  <2>3. /\ s \in Submitted /\ s \in Elems(submissionChan[n])
        /\ found(n, s.r) /\ Mismatch(n, s.r, s.data) /\ c = BeginDispute(p, s.r)
    BY ZenonT(60), <1>3, <2>2 DEF Opens
  <2>4. c.m = p /\ c.r = s.r
    BY ZenonT(60), <2>3 DEF BeginDispute
  <2>5. p \in Proposer
    BY ZenonT(60), <1>1, <2>3, <2>4, FoundProposer DEF Types
  <2>6. submitted[s.r] # None /\ submitted[s.r].data = s.data
    BY ZenonT(60), <2>3 DEF GroundsSound
  <2>7. Payload[p][s.r] # s.data
    BY ZenonT(60), <2>3 DEF Mismatch
  <2>8. Grounds(c.m, c.r)
    BY ZenonT(60), <2>4, <2>5, <2>6, <2>7 DEF Grounds
  <2> QED BY ZenonT(60), <1>1, <2>8, GroundsKept
<1>4. CASE txs' = txs
  BY <1>2, <1>4
<1>5. ASSUME NEW n \in Account, include(n) PROVE Grounds(c.m, c.r)'
  BY ZenonT(60), <1>2, <1>5, Included
<1> QED BY ZenonT(60), <1>2, <1>3, <1>4, <1>5, Sends

LEMMA GroundsStep ==
    ASSUME Types, StakeTypes, DisputeTypeOK, AnsweredOnce, GroundsSound, [Next]_vars
    PROVE  GroundsSound'
<1>1. ASSUME NEW m \in Account, NEW r \in Request, disputes'[m][r].initiator # None
      PROVE  Grounds(m, r)'
  <2>1. CASE disputes[m][r].initiator # None
    BY ZenonT(60), <2>1, GroundsKept DEF GroundsSound
  <2>2. ASSUME disputes[m][r].initiator = None, NEW n \in Account, NEW k \in Account,
               NEW q \in Request, Moves(n, k, q)
        PROVE  Grounds(m, r)'
    <3> DEFINE c == Head(txs[n])
               d == disputes[k][q]
    <3>1. disputes \in [Account -> [Request -> DisputeRecord]] /\ d \in DisputeRecord
      BY DEF DisputeTypeOK, DisputeRecord
    <3>2. c \in Call /\ (c.kind = "vote" => c.status \in BOOLEAN) /\ c \in Elems(txs[n])
      BY <2>2, Included, CallFields DEF Moves
    <3>3. CASE c.kind = "begin" /\ disputes' = [disputes EXCEPT ![k][q] = NewDispute(n)]
      <4>1. m = k /\ r = q
        BY <1>1, <2>2, <3>1, <3>3
      <4>2. c.m = m /\ c.r = r
        BY ZenonT(60), <2>2, <4>1 DEF Moves
      <4>3. Grounds(m, r)
        BY <3>2, <3>3, <4>2 DEF GroundsSound
      <4> QED BY ZenonT(60), <4>3, GroundsKept
    <3>4. CASE c.kind = "vote" /\ disputes' = [disputes EXCEPT ![k][q] = Voted(d, n, c.status)]
      <4> DEFINE e == Voted(d, n, c.status)
      <4>1. e.initiator = d.initiator
        BY <3>1, <3>2, <3>4, VotedFacts
      <4> HIDE DEF e
      <4>2. disputes' = [disputes EXCEPT ![k][q] = e]
        BY ZenonT(60), <3>4 DEF e
      <4> QED BY ZenonT(60), <1>1, <2>2, <3>1, <4>1, <4>2
    <3>5. CASE c.kind = "finish" /\ disputes' = [disputes EXCEPT ![k][q] = Finished(d)]
      <4>0. d.initiator # None
        BY ZenonT(60), DisputeAssumption, <2>2, <3>5 DEF Moves, Accepts, CanFinish
      <4> DEFINE e == Finished(d)
      <4>1. e.initiator = d.initiator
        BY ZenonT(60), <3>1, <4>0, FinishedFacts
      <4> HIDE DEF e
      <4>2. disputes' = [disputes EXCEPT ![k][q] = e]
        BY <3>5 DEF e
      <4> QED BY <1>1, <2>2, <3>1, <4>1, <4>2
    <3> QED BY ZenonT(60), <2>2, <3>3, <3>4, <3>5 DEF Moves
  <2> QED BY ZenonT(60), <1>1, <2>1, <2>2, DisputeMoves
<1> QED BY ZenonT(60), <1>1, SubmissionsSound, CallsSound DEF GroundsSound

LEMMA InitGrounds == Init => AnsweredOnce /\ GroundsSound
<1> SUFFICES ASSUME Init PROVE AnsweredOnce /\ GroundsSound
  OBVIOUS
<1>1. \A m \in Account, r \in Request : disputes[m][r].initiator = None
  BY DEF Init, DisputeInit, NoDispute
<1>2. AnsweredOnce
  BY DEF Init, OracleInit, AnsweredOnce
<1>3. \A n \in Account : Elems(submissionChan[n]) = {} /\ Elems(txs[n]) = {}
  BY ElemsEmpty DEF Init
<1> QED BY <1>1, <1>2, <1>3 DEF GroundsSound

LEMMA GroundsInvariant == Spec => [](StakeInv /\ AnsweredOnce /\ GroundsSound)
<1>1. StakeInv /\ AnsweredOnce /\ GroundsSound /\ [Next]_vars => AnsweredOnce' /\ GroundsSound'
  BY AnsweredStep, GroundsStep DEF StakeInv
<1> QED BY <1>1, InitGrounds, StakesSound, PTL DEF Spec

(* For any number of requests: an answer once submitted is never replaced, *)
(* although any account may answer and transactions are included in any    *)
(* order (submitOracleRequest, DioneOracle.sol).                           *)
THEOREM AnswersAreFinal ==
    Spec => [][\A r \in Request : submitted[r] # None => submitted'[r] = submitted[r]]_vars
<1>1. StakeInv /\ AnsweredOnce /\ [Next]_vars =>
        [\A r \in Request : submitted[r] # None => submitted'[r] = submitted[r]]_vars
  BY AnsweredStep DEF StakeInv
<1> QED BY <1>1, GroundsInvariant, PTL DEF Spec

-----------------------------------------------------------------------------
(* Whose answers are submitted.                                            *)

(* A node submits the answers of its own blocks, and nothing else.         *)
OwnCalls ==
    \A n \in Account, c \in Call :
        c \in Elems(txs[n]) /\ c.kind = "submit" => n \in Proposer /\ c.data = Payload[n][c.r]

OwnAnswers ==
    \A r \in Request : submitted[r] # None =>
        LET s == submitted[r] IN s.miner \in Proposer /\ s.data = Payload[s.miner][r]

(* Where a new call comes from that submits.                               *)
LEMMA SubmitCalls ==
    ASSUME Types, [Next]_vars, NEW a \in Account, NEW c \in Call,
           c \in Elems(txs'[a]), c \notin Elems(txs[a]), c.kind = "submit"
    PROVE  a \in Proposer /\ c.data = Payload[a][c.r]
<1>1. txs \in [Account -> Seq(Call)]
  BY DEF Types, QueueTypes
<1>2. ASSUME NEW n \in Account, NEW e \in Call, Send(n, e) PROVE a = n /\ c = e
  <2>1. a = n /\ txs'[n] = Append(txs[n], e)
    BY <1>1, <1>2, SendTypes
  <2>2. Elems(Append(txs[n], e)) = Elems(txs[n]) \cup {e}
    BY ZenonT(60), <1>1, ElemsAppend
  <2> QED BY ZenonT(60), <2>1, <2>2
<1>3. txs' # txs
  OBVIOUS
<1>4. ASSUME NEW n \in Account, NEW r \in Request, NEW p \in Proposer, storeBlock(n, r, p)
      PROVE  a \in Proposer /\ c.data = Payload[a][c.r]
  <2> DEFINE e == SubmitRequestAnswer(r, Payload[p][r])
  <2>1. Payload[p][r] \in Answer
    BY SettlementAssumption
  <2>2. p = n /\ Send(n, e)
    BY ZenonT(60), <1>3, <1>4 DEF storeBlock
  <2>3. e \in Call
    BY <2>1 DEF Call, SubmitRequestAnswer
  <2>4. a = n /\ c = e
    BY ZenonT(60), <1>2, <2>2, <2>3
  <2>5. e.data = Payload[p][r] /\ e.r = r
    BY DEF SubmitRequestAnswer
  <2> QED BY ZenonT(60), <2>2, <2>4, <2>5
<1>5. ASSUME NEW n \in Account, include(n) PROVE FALSE
  BY ZenonT(60), <1>5, Included
<1>6. ASSUME NEW n \in Account, NEW r \in Request, finishTimer(n, r) PROVE FALSE
  <2> DEFINE e == FinishDispute(disputeCache[n][r], r)
  <2>1. disputeCache[n][r] # None /\ Send(n, e)
    BY ZenonT(60), <1>3, <1>6 DEF finishTimer
  <2>2. disputeCache[n][r] \in Account
    BY <2>1 DEF Types, ChainTypes
  <2>3. e \in Call /\ e.kind = "finish"
    BY <2>2 DEF Call, FinishDispute
  <2>4. c = e
    BY ZenonT(60), <1>2, <2>1, <2>3
  <2> QED BY <2>3, <2>4
<1>7. ASSUME NEW n \in Account, NEW e \in Call, Send(n, e), e.kind # "submit" PROVE FALSE
  BY ZenonT(60), <1>2, <1>7
<1>8. CASE \E n \in Account, r \in Request : finishTimer(n, r)
  BY ZenonT(60), <1>6, <1>8
<1>9. CASE \E n \in Account, r \in Request, p \in Proposer : storeBlock(n, r, p)
  BY ZenonT(60), <1>4, <1>9
<1>10. ASSUME NEW n \in Account, onNewSubmission(n) PROVE FALSE
  <2> DEFINE s == Head(submissionChan[n])
             e == BeginDispute(findTaskAndBlockWithRequestID(n, s.r), s.r)
  <2>1. s \in Submitted
    BY <1>10, ElemsTail DEF onNewSubmission, Types, QueueTypes
  <2>2. Send(n, e) /\ found(n, s.r)
    BY ZenonT(60), <1>3, <1>10 DEF onNewSubmission
  <2>3. s.r \in Request
    BY <2>1 DEF Submitted
  <2>4. findTaskAndBlockWithRequestID(n, s.r) \in Account
    BY <2>2, <2>3, FoundProposer, SettlementAssumption DEF Types
  <2>5. e \in Call /\ e.kind # "submit"
    BY <2>3, <2>4 DEF Call, BeginDispute
  <2> QED BY ZenonT(60), <1>7, <2>2, <2>5
<1>11. ASSUME NEW n \in Account, onNewDispute(n) PROVE FALSE
  <2> DEFINE d == Head(disputesChan[n])
             e == VoteDispute(d.m, d.r, Mismatch(n, d.r, submissionCache[n][d.r]))
  <2>1. d \in Opened
    BY <1>11, ElemsTail DEF onNewDispute, Types, QueueTypes
  <2>2. Send(n, e)
    BY ZenonT(60), <1>3, <1>11 DEF onNewDispute
  <2>3. Mismatch(n, d.r, submissionCache[n][d.r]) \in BOOLEAN
    BY DEF Mismatch
  <2>4. d.m \in Account /\ d.r \in Request
    BY <2>1 DEF Opened
  <2>5. e \in Call
    BY <2>3, <2>4, CallTypes
  <2>6. e.kind # "submit"
    BY DEF VoteDispute
  <2> QED BY ZenonT(60), <1>7, <2>2, <2>5, <2>6
<1>12. \E n \in Account :
          \/ include(n) \/ onNewSubmission(n) \/ onNewDispute(n)
          \/ \E r \in Request : finishTimer(n, r) \/ \E p \in Proposer : storeBlock(n, r, p)
  BY <1>3 DEF Next, vars, Tick, Ask, MoveStake, loseConnection, restart
<1> QED BY ZenonT(60), <1>5, <1>8, <1>9, <1>10, <1>11, <1>12

LEMMA OwnStep ==
    ASSUME Types, AnsweredOnce, OwnCalls, OwnAnswers, [Next]_vars
    PROVE  OwnCalls' /\ OwnAnswers'
<1>1. OwnCalls'
  BY SubmitCalls DEF OwnCalls
<1>2. ASSUME NEW n \in Account, include(n), Head(txs[n]).kind = "submit",
             submitOracleRequest(n, Head(txs[n]).r, Head(txs[n]).data)
      PROVE  OwnAnswers'
  <2> DEFINE c == Head(txs[n])
  <2>1. c \in Call /\ c \in Elems(txs[n])
    BY ZenonT(60), <1>2, Included
  <2>2. n \in Proposer /\ c.data = Payload[n][c.r]
    BY ZenonT(60), <1>2, <2>1 DEF OwnCalls
  <2>3. c.r \in Request
    BY ZenonT(60), <2>1, CallFields
  <2>4. submitted' = [submitted EXCEPT ![c.r] = [miner |-> n, data |-> c.data]]
    BY ZenonT(60), <1>2 DEF submitOracleRequest
  <2>5. submitted \in [Request -> Submission \cup {None}]
    BY DEF Types, ChainTypes, OracleTypeOK
  <2> HIDE DEF c
  <2>6. ASSUME NEW r \in Request, submitted'[r] # None
        PROVE  submitted'[r].miner \in Proposer
               /\ submitted'[r].data = Payload[submitted'[r].miner][r]
    <3>1. CASE r = c.r
      <4>1. submitted'[r] = [miner |-> n, data |-> c.data]
        BY ZenonT(60), <2>3, <2>4, <2>5, <3>1
      <4>2. submitted'[r].miner = n /\ submitted'[r].data = c.data
        BY <4>1
      <4> QED BY ZenonT(60), <2>2, <3>1, <4>2
    <3>2. CASE r # c.r
      <4>1. submitted'[r] = submitted[r]
        BY ZenonT(60), <2>4, <2>5, <3>2
      <4> QED BY ZenonT(60), <2>6, <4>1 DEF OwnAnswers
    <3> QED BY ZenonT(60), <3>1, <3>2
  <2> QED BY ZenonT(60), <2>6 DEF OwnAnswers
<1>3. CASE submitted' = submitted
  BY <1>1, <1>3 DEF OwnAnswers
<1>4. CASE Ask
  BY <1>3, <1>4 DEF Ask, requestOracles, cancelOracleRequest
<1>5. CASE UNCHANGED oracleVars
  BY <1>3, <1>5 DEF oracleVars
<1> QED BY ZenonT(60), <1>1, <1>2, <1>4, <1>5, OracleMoves

LEMMA InitOwn == Init => OwnCalls /\ OwnAnswers
<1> SUFFICES ASSUME Init PROVE OwnCalls /\ OwnAnswers
  OBVIOUS
<1>1. \A n \in Account : Elems(txs[n]) = {}
  BY ElemsEmpty DEF Init
<1>2. \A r \in Request : submitted[r] = None
  BY DEF Init, OracleInit
<1> QED BY ZenonT(60), <1>1, <1>2 DEF OwnCalls, OwnAnswers

LEMMA OwnInvariant == Spec => [](StakeInv /\ VotesSound /\ GroundsSound /\ OwnAnswers)
<1>1. StakeInv /\ AnsweredOnce /\ OwnCalls /\ OwnAnswers /\ [Next]_vars => OwnCalls' /\ OwnAnswers'
  BY OwnStep DEF StakeInv
<1> QED BY <1>1, InitOwn, VotesInvariant, GroundsInvariant, PTL DEF Spec

(* Against whom there is a dispute: not the node that submitted.           *)
LEMMA GroundsAgainst ==
    ASSUME OwnAnswers, NEW m \in Account, NEW r \in Request, Grounds(m, r)
    PROVE  /\ submitted[r].miner \in Proposer /\ submitted[r].miner # m
           /\ Payload[m][r] # Payload[submitted[r].miner][r]
BY ZenonT(60) DEF Grounds, OwnAnswers

(* For any number of nodes, requests and answers: what is submitted for a  *)
(* request is what the RPC call of the submitting node returned, although  *)
(* every account may answer and a call is included long after it was sent  *)
(* (submitTasksFromBlock, consensus_handler.go).                           *)
THEOREM AnswersAreOwn == Spec => []OwnAnswers
BY OwnInvariant, PTL

(* For any number of nodes, requests, forks and answers, whatever is lost  *)
(* by reverts, disconnections and restarts: a dispute is only ever open    *)
(* against the proposer of a block whose answer differs from the one       *)
(* submitted, and never against the node that submitted (onNewSubmission,  *)
(* dispute_manager.go).                                                    *)
THEOREM DisputesHaveGrounds == Spec => []DisputeHasGrounds
<1>1. GroundsSound /\ OwnAnswers => DisputeHasGrounds
  BY ZenonT(60), GroundsAgainst DEF GroundsSound, Grounds, DisputeHasGrounds
<1> QED BY <1>1, OwnInvariant, PTL

(* How a stake is lost otherwise than by a withdrawal: over a request to   *)
(* which another node had another answer, and submitted it first.          *)
LostToFirst ==
    \A m \in Account : amount'[m] < amount[m] =>
        \/ balance'[m] - balance[m] = amount[m] - amount'[m]
        \/ \E r \in Request :
              /\ submitted[r] # None /\ submitted[r].miner # m
              /\ {m, submitted[r].miner} \subseteq Proposer
              /\ Payload[m][r] # Payload[submitted[r].miner][r]

LEMMA LossStep ==
    ASSUME StakeInv, VotesSound, GroundsSound, OwnAnswers, [Next]_vars
    PROVE  LostToFirst
<1> SUFFICES ASSUME NEW m \in Account, amount'[m] < amount[m],
                    ~(balance'[m] - balance[m] = amount[m] - amount'[m])
             PROVE  \E r \in Request :
                       /\ submitted[r] # None /\ submitted[r].miner # m
                       /\ {m, submitted[r].miner} \subseteq Proposer
                       /\ Payload[m][r] # Payload[submitted[r].miner][r]
  BY ZenonT(60) DEF LostToFirst
<1>1. StakeLoss
  BY ZenonT(60), StakeInvStep
<1>2. PICK r \in Request : disputes[m][r].sum > 0 /\ disputes[m][r].voted # <<>>
  BY ZenonT(60), <1>1 DEF StakeLoss
<1>3. disputes[m][r].initiator # None
  BY ZenonT(60), <1>2 DEF VotesSound, Voters
<1>4. Grounds(m, r)
  BY ZenonT(60), <1>3 DEF GroundsSound
<1>5. submitted[r] # None /\ m \in Proposer
  BY ZenonT(60), <1>4 DEF Grounds
<1> QED BY ZenonT(60), <1>4, <1>5, GroundsAgainst

(* For any number of nodes, requests, forks and answers: whoever loses a   *)
(* stake over a request, has another answer to it than the node that was   *)
(* the first to submit, and is never that node itself (slashMiner,         *)
(* DioneStaking.sol; onNewSubmission, dispute_manager.go).                 *)
THEOREM StakeLostToFirstAnswer == Spec => [][LostToFirst]_vars
<1>1. StakeInv /\ VotesSound /\ GroundsSound /\ OwnAnswers /\ [Next]_vars => [LostToFirst]_vars
  BY LossStep
<1> QED BY <1>1, OwnInvariant, PTL DEF Spec

(* If all proposers have the same answer to each request, no dispute is    *)
(* ever opened, and a stake falls only by its owner's withdrawal, however  *)
(* nodes are late, restart or lose their connections (onNewSubmission,     *)
(* dispute_manager.go).                                                    *)
THEOREM AgreementKeepsStakes ==
    ASSUME \A p, q \in Proposer, r \in Request : Payload[p][r] = Payload[q][r]
    PROVE  Spec => /\ [](\A m \in Account, r \in Request : disputes[m][r].initiator = None)
                   /\ [][\A m \in Account : amount'[m] < amount[m] =>
                            balance'[m] - balance[m] = amount[m] - amount'[m]]_vars
<1>1. GroundsSound /\ OwnAnswers =>
        \A m \in Account, r \in Request : disputes[m][r].initiator = None
  <2> SUFFICES ASSUME GroundsSound, OwnAnswers, NEW m \in Account, NEW r \in Request,
                      disputes[m][r].initiator # None
               PROVE  FALSE
    OBVIOUS
  <2>1. Grounds(m, r) /\ m \in Proposer
    BY ZenonT(60) DEF GroundsSound, Grounds
  <2>2. submitted[r].miner \in Proposer /\ Payload[m][r] # Payload[submitted[r].miner][r]
    BY ZenonT(60), <2>1, GroundsAgainst
  <2> QED BY <2>1, <2>2
<1>2. StakeInv /\ VotesSound /\ GroundsSound /\ OwnAnswers /\ [Next]_vars =>
        [\A m \in Account : amount'[m] < amount[m] =>
            balance'[m] - balance[m] = amount[m] - amount'[m]]_vars
  <2>1. LostToFirst => \A m \in Account : amount'[m] < amount[m] =>
                          balance'[m] - balance[m] = amount[m] - amount'[m]
    BY ZenonT(60) DEF LostToFirst
  <2> QED BY ZenonT(60), <2>1, LossStep
<1> QED BY <1>1, <1>2, OwnInvariant, PTL DEF Spec

-----------------------------------------------------------------------------
(* The sums of the stakes, however rewards, withdrawals and slashings      *)
(* interleave.                                                             *)

Answered == {r \in Request : submitted[r] # None}

(* Tokens come into being as rewards, one for each answered request.       *)
Minted == Tokens = Supply + minerReward * Cardinality(Answered)

(* The calls that move stakes, and when.                                   *)
LEMMA StakeCalls ==
    ASSUME Types, [Next]_vars
    PROVE  \/ UNCHANGED <<stakingVars, submitted>>
           \/ \E n \in Account, r \in Request, data \in Answer :
                 pendingRequests[r] # None /\ submitOracleRequest(n, r, data)
           \/ /\ UNCHANGED submitted
              /\ \E n \in Account, k \in Amount : stake(n, k) \/ withdraw(n, k)
           \/ /\ UNCHANGED submitted
              /\ \E m \in Account, r \in Request :
                    /\ disputes[m][r].initiator \in Account
                    /\ CanSlash(m, Recipients(m, r)) /\ slashMiner(m, Recipients(m, r))
<1> DEFINE Rests == UNCHANGED <<stakingVars, submitted>>
           Submits == \E n \in Account, r \in Request, data \in Answer :
                         pendingRequests[r] # None /\ submitOracleRequest(n, r, data)
           Stakes == \E n \in Account, k \in Amount : stake(n, k) \/ withdraw(n, k)
           Slashes == \E m \in Account, r \in Request :
                         /\ disputes[m][r].initiator \in Account
                         /\ CanSlash(m, Recipients(m, r)) /\ slashMiner(m, Recipients(m, r))
<1>1. ASSUME NEW n \in Account, include(n)
      PROVE  Rests \/ Submits \/ (UNCHANGED submitted /\ Slashes)
  <2> DEFINE c == Head(txs[n])
  <2>1. c \in Call
    BY ZenonT(60), <1>1, Included
  <2>2. \/ UNCHANGED stakingVars /\ UNCHANGED oracleVars
        \/ Accepts(n, c) /\ c.kind = "submit" /\ submitOracleRequest(n, c.r, c.data)
        \/ /\ Accepts(n, c) /\ c.kind = "finish" /\ finishDispute(c.m, c.r)
           /\ UNCHANGED oracleVars
    BY ZenonT(60), <1>1 DEF include
  <2>3. CASE UNCHANGED stakingVars /\ UNCHANGED oracleVars
    BY ZenonT(60), <2>3 DEF oracleVars
  <2>4. CASE Accepts(n, c) /\ c.kind = "submit" /\ submitOracleRequest(n, c.r, c.data)
    <3>1. c.r \in Request /\ c.data \in Answer
      BY ZenonT(60), <2>1, <2>4, CallFields
    <3>2. pendingRequests[c.r] # None
      BY ZenonT(60), <2>4 DEF Accepts, CanSubmit
    <3> QED BY ZenonT(60), <2>4, <3>1, <3>2
  <2>5. CASE /\ Accepts(n, c) /\ c.kind = "finish" /\ finishDispute(c.m, c.r)
             /\ UNCHANGED oracleVars
    <3>0. "finish" # "submit"
      OBVIOUS
    <3>1. c.r \in Request /\ c.m \in Account
      BY ZenonT(60), <2>1, <2>5, <3>0, CallFields
    <3>2. PICK m \in Account, r \in Request : m = c.m /\ r = c.r
      BY ZenonT(60), <3>1
    <3>3. CanFinish(n, m, r)
      BY ZenonT(60), <2>5, <3>2 DEF Accepts
    <3>4. CASE disputes[m][r].sum > 0
      <4>1. slashMiner(m, Recipients(m, r))
        BY ZenonT(60), <2>5, <3>2, <3>4 DEF finishDispute
      <4>2. disputes[m][r].initiator \in Account /\ CanSlash(m, Recipients(m, r))
        BY ZenonT(60), <3>3, <3>4 DEF CanFinish
      <4>3. UNCHANGED submitted
        BY ZenonT(60), <2>5 DEF oracleVars
      <4> QED BY ZenonT(60), <4>1, <4>2, <4>3
    <3>5. CASE ~(disputes[m][r].sum > 0)
      BY ZenonT(60), <2>5, <3>2, <3>5 DEF finishDispute, oracleVars
    <3> QED BY ZenonT(60), <3>4, <3>5
  <2> HIDE DEF Rests, Submits, Slashes
  <2> QED BY ZenonT(60), <2>2, <2>3, <2>4, <2>5
<1>2. ASSUME Ask PROVE Rests
  BY ZenonT(60), <1>2 DEF Ask, requestOracles, cancelOracleRequest
<1>3. ASSUME NEW n \in Account, MoveStake(n) PROVE UNCHANGED submitted /\ Stakes
  BY ZenonT(60), <1>3 DEF MoveStake, oracleVars
<1>4. \/ UNCHANGED stakingVars /\ UNCHANGED oracleVars
      \/ Ask \/ \E n \in Account : include(n) \/ MoveStake(n)
  BY ZenonT(60), Frames DEF Next, vars, Tick, loseConnection, restart, finishTimer, storeBlock
<1>5. ASSUME UNCHANGED stakingVars, UNCHANGED oracleVars PROVE Rests
  BY ZenonT(60), <1>5 DEF oracleVars
<1> HIDE DEF Rests, Submits, Slashes, Stakes
<1>6. Rests \/ Submits \/ (UNCHANGED submitted /\ Stakes) \/ (UNCHANGED submitted /\ Slashes)
  BY ZenonT(60), <1>1, <1>2, <1>3, <1>4, <1>5
<1> QED BY ZenonT(60), <1>6 DEF Rests, Submits, Slashes, Stakes

LEMMA AnsweredCount ==
    IsFiniteSet(Answered) /\ Cardinality(Answered) \in Nat
<1>1. 1 \in Int /\ MaxRequests \in Int
  BY OracleAssumption
<1>2. IsFiniteSet(Request)
  BY ZenonT(60), <1>1, FS_Interval DEF Request
<1>3. Answered \subseteq Request
  BY DEF Answered
<1> QED BY ZenonT(60), <1>2, <1>3, FS_Subset, FS_CardinalityType

LEMMA OneMoreAnswered ==
    ASSUME Types, NEW n \in Account, NEW r \in Request, NEW data \in Answer,
           submitted[r] = None, submitOracleRequest(n, r, data)
    PROVE  Cardinality(Answered)' = Cardinality(Answered) + 1
<1>1. submitted \in [Request -> Submission \cup {None}]
  BY DEF Types, ChainTypes, OracleTypeOK
<1>2. PICK e : e = [miner |-> n, data |-> data]
  BY ZenonT(60)
<1>3. e # None
  BY <1>2, OracleAssumption
<1>4. submitted' = [submitted EXCEPT ![r] = e]
  BY ZenonT(60), <1>2 DEF submitOracleRequest
<1>5. Answered' = Answered \cup {r} /\ r \notin Answered
  BY <1>1, <1>3, <1>4 DEF Answered
<1> QED BY ZenonT(60), <1>5, AnsweredCount, FS_AddElement

LEMMA ConservedStep ==
    ASSUME StakeInv, AnsweredOnce, StakesCovered, Minted, [Next]_vars
    PROVE  StakesCovered' /\ Minted'
<1> DEFINE k == Cardinality(Answered)
<1>0. Types /\ DisputeTypeOK
  BY ZenonT(60) DEF StakeInv
<1>1. CASE UNCHANGED <<stakingVars, submitted>>
  <2>1. StakesCovered'
    BY ZenonT(60), <1>1 DEF stakingVars, StakesCovered
  <2>2. Tokens' = Tokens
    BY ZenonT(60), <1>1 DEF stakingVars, Tokens
  <2>3. Answered' = Answered
    BY ZenonT(60), <1>1 DEF Answered
  <2> QED BY ZenonT(60), <2>1, <2>2, <2>3 DEF Minted
<1>2. ASSUME UNCHANGED submitted, StakesCovered', Tokens' = Tokens PROVE StakesCovered' /\ Minted'
  <2>1. Answered' = Answered
    BY ZenonT(60), <1>2 DEF Answered
  <2> QED BY ZenonT(60), <1>2, <2>1 DEF Minted
<1>3. ASSUME NEW n \in Account, NEW r \in Request, NEW data \in Answer,
             pendingRequests[r] # None, submitOracleRequest(n, r, data)
      PROVE  StakesCovered' /\ Minted'
  <2>1. submitted[r] = None
    BY ZenonT(60), <1>3 DEF AnsweredOnce
  <2>2. k' = k + 1
    BY ZenonT(60), <1>0, <1>3, <2>1, OneMoreAnswered
  <2>3. StakesCovered' /\ Tokens' = Tokens + minerReward
    <3>1. mineAndStake(n)
      BY ZenonT(60), <1>3 DEF submitOracleRequest
    <3> QED BY ZenonT(60), <3>1, RewardCall
  <2>4. k \in Nat /\ minerReward \in Nat /\ Tokens = Supply + minerReward * k
    BY ZenonT(60), AnsweredCount, StakingAssumption DEF Minted
  <2>5. Tokens \in Nat
    BY ZenonT(60), StakesAreNumbers
  <2>6. Supply \in Nat
    BY ZenonT(60), SupplyIsNumber
  <2> HIDE DEF k
  <2>7. PICK p \in Nat : p = minerReward * k
    BY <2>4
  <2>8. minerReward * (k + 1) = p + minerReward
    BY <2>4, <2>7
  <2>9. Tokens' = Supply + (p + minerReward)
    BY <2>3, <2>4, <2>6, <2>7
  <2>10. Tokens' = Supply + minerReward * k'
    BY ZenonT(60), <2>2, <2>8, <2>9
  <2> QED BY ZenonT(60), <2>3, <2>10 DEF Minted, k
<1>4. ASSUME UNCHANGED submitted, NEW n \in Account, NEW a \in Amount, stake(n, a) \/ withdraw(n, a)
      PROVE  StakesCovered' /\ Minted'
  BY ZenonT(60), <1>2, <1>4, StakeCall, WithdrawCall
<1>5. ASSUME UNCHANGED submitted, NEW m \in Account, NEW r \in Request,
             disputes[m][r].initiator \in Account,
             CanSlash(m, Recipients(m, r)), slashMiner(m, Recipients(m, r))
      PROVE  StakesCovered' /\ Minted'
  <2>1. Recipients(m, r) \in Seq(Account) /\ Recipients(m, r) # <<>>
    BY ZenonT(60), <1>0, <1>5, Shared
  <2>2. StakesCovered' /\ Tokens' = Tokens
    BY ZenonT(60), <1>5, <2>1, SlashCall
  <2> QED BY ZenonT(60), <1>2, <1>5, <2>2
<1> QED BY ZenonT(60), <1>0, <1>1, <1>3, <1>4, <1>5, StakeCalls

LEMMA InitConserved == Init => StakesCovered /\ Minted
<1> SUFFICES ASSUME Init PROVE StakesCovered /\ Minted
  OBVIOUS
<1>1. StakingInit /\ submitted = [r \in Request |-> None]
  BY ZenonT(60) DEF Init, OracleInit
<1>2. StakesCovered /\ Tokens = Supply
  BY ZenonT(60), <1>1, InitStakesCovered
<1>3. Answered = {}
  BY <1>1 DEF Answered
<1>4. Cardinality(Answered) = 0
  BY ZenonT(60), <1>3, FS_EmptySet
<1>5. Supply \in Nat /\ minerReward \in Nat
  BY ZenonT(60), SupplyIsNumber, StakingAssumption
<1>6. Supply = Supply + minerReward * 0
  BY <1>5
<1> QED BY ZenonT(60), <1>2, <1>4, <1>6 DEF Minted

LEMMA ConservedInvariant ==
    Spec => [](StakeInv /\ AnsweredOnce /\ StakesCovered /\ Minted)
<1>1. /\ StakeInv /\ AnsweredOnce /\ StakesCovered /\ Minted /\ [Next]_vars
      => StakesCovered' /\ Minted'
  BY ConservedStep
<1> QED BY <1>1, InitConserved, GroundsInvariant, PTL DEF Spec

(* For any accounts, stakes and rewards, however the calls of the three    *)
(* contracts interleave: the total that win counts are measured against is *)
(* the sum of the stakes and what DioneStaking holds, and tokens come into *)
(* being only as rewards, one for each request that was answered           *)
(* (mineAndStake, withdraw, slashMiner in DioneStaking.sol).               *)
THEOREM StakesConserved == Spec => []StakeConserved
<1>1. StakesCovered /\ Minted => StakeConserved
  BY ZenonT(60) DEF StakesCovered, Minted, Tokens, Answered, StakeConserved
<1> QED BY <1>1, ConservedInvariant, PTL

(* In particular every number of the contracts stays a natural number: the *)
(* differences that withdraw and slashMiner take never fall below zero,    *)
(* where the contracts would revert.  The queues, the caches and the       *)
(* timers of the nodes keep their types as well.                           *)
THEOREM SettlementTypeCorrect == Spec => []SettlementTypeOK
<1>1. ASSUME StakeInv, StakesCovered, NodeTypes PROVE SettlementTypeOK
  <2>1. now \in 0..MaxTime /\ OracleTypeOK /\ QueueTypes /\ DisputeTypeOK
    BY ZenonT(60), <1>1 DEF StakeInv, Types, ChainTypes
  <2>2. /\ disputeCache \in [Account -> [Request -> Account \cup {None}]]
        /\ ledger \in [Account -> [Request -> Seq(Proposer)]]
    BY ZenonT(60), <1>1 DEF StakeInv, Types, ChainTypes
  <2>3. StakingTypeOK
    BY ZenonT(60), <1>1, <2>1, StakesAreNumbers DEF StakesCovered, StakingTypeOK
  <2> QED BY ZenonT(60), <1>1, <2>1, <2>2, <2>3
          DEF SettlementTypeOK, QueueTypes, Submitted, Opened, NodeTypes
<1>2. StakeInv /\ NodeTypes /\ [Next]_vars => NodeTypes'
  BY ZenonT(60), NodeTypesStep DEF StakeInv
<1> QED BY <1>1, <1>2, InitNodeTypes, ConservedInvariant, PTL DEF Spec
=============================================================================
