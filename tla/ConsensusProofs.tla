--------------------------- MODULE ConsensusProofs ---------------------------
(***************************************************************************)
(* Proofs about the voting core, for every finite set of nodes, every set  *)
(* of blocks and every threshold.                                          *)
(***************************************************************************)
EXTENDS Consensus, FiniteSetTheorems, TLAPS

(* The backends a leaf is tried with, in this order, unless it names one.  *)
USE SMTT(60), Z3T(60), ZenonT(60)

Info == [state : Unknown..Commited, hasBlock : BOOLEAN, log : Log]

USE NodeAssumption, ProposerAssumption, ApprovalsAssumption

-----------------------------------------------------------------------------
(* What inserting a message does to an entry: its sender joins the log,    *)
(* the state never moves back, and each threshold that was passed is       *)
(* witnessed by the log (InsertMessageIntoLog, maybeUpdateConsensusState). *)
LEMMA InsertFacts ==
    ASSUME NEW ci \in Info, NEW t \in MsgType, NEW k \in Node
    PROVE  LET r == InsertMessageIntoLog(ci, t, k) IN
           /\ r \in Info
           /\ r.log = [ci.log EXCEPT ![t] = @ \cup {k}]
           /\ ci.state <= r.state
           /\ r.hasBlock => ci.hasBlock \/ (t = "PREPREPARE" /\ k \notin ci.log[t])
           /\ r.state # Unknown => ci.state # Unknown \/ (t = "PREPREPARE" /\ r.hasBlock)
           /\ ci.hasBlock => r.hasBlock
           /\ r.state >= Prepared =>
                  \/ ci.state >= Prepared
                  \/ Cardinality(r.log["PREPARE"]) >= minApprovals - 1
           /\ r.state = Commited =>
                  \/ ci.state = Commited
                  \/ Cardinality(r.log["COMMIT"]) >= minApprovals
<1> DEFINE r == InsertMessageIntoLog(ci, t, k)
           a == [ci EXCEPT !.log[t] = @ \cup {k}]
           d == DiscoverBlock(a, t)
           p == CountPrepares(d)
           c == CountCommits(p)
<1> USE DEF Unknown, PrePrepared, Prepared, Commited
<1>1. CASE k \in ci.log[t]
  <2>1. r = ci
    BY <1>1 DEF InsertMessageIntoLog
  <2>2. ci.log = [ci.log EXCEPT ![t] = @ \cup {k}]
    BY <1>1 DEF Info, Log
  <2> QED BY <2>1, <2>2 DEF Info
<1>2. CASE k \notin ci.log[t]
  <2>1. r = c
    BY <1>2 DEF InsertMessageIntoLog, maybeUpdateConsensusState
  <2>2. a \in Info /\ a.log = [ci.log EXCEPT ![t] = @ \cup {k}]
        /\ a.state = ci.state /\ a.hasBlock = ci.hasBlock
    BY DEF Info, Log
  <2> HIDE DEF a
  <2>3. /\ d \in Info /\ d.log = a.log
        /\ \/ d.state = a.state /\ d.hasBlock = a.hasBlock
           \/ a.state = Unknown /\ t = "PREPREPARE" /\ d.state = PrePrepared /\ d.hasBlock = TRUE
    <3>1. CASE a.state = Unknown /\ t = "PREPREPARE"
      <4>1. d = [a EXCEPT !.state = PrePrepared, !.hasBlock = TRUE]
        BY <3>1 DEF DiscoverBlock
      <4>2. d = [state |-> PrePrepared, hasBlock |-> TRUE, log |-> a.log]
        BY ZenonT(60), <2>2, <4>1 DEF Info
      <4> HIDE DEF d
      <4>3. d.state = PrePrepared /\ d.hasBlock = TRUE /\ d.log = a.log
        BY <4>2
      <4>4. d \in Info
        BY <2>2, <4>2 DEF Info
      <4> QED BY <3>1, <4>3, <4>4
    <3>2. CASE ~(a.state = Unknown /\ t = "PREPREPARE")
      <4>1. d = a
        BY <3>2, ZenonT(60) DEF DiscoverBlock
      <4> QED BY <2>2, <4>1
    <3> QED BY ZenonT(60), <3>1, <3>2
  <2> HIDE DEF d
  <2>4. /\ p \in Info /\ p.log = d.log /\ p.hasBlock = d.hasBlock
        /\ \/ p.state = d.state
           \/ /\ d.state = PrePrepared /\ p.state = Prepared
              /\ Cardinality(p.log["PREPARE"]) >= minApprovals - 1
    BY <2>3 DEF CountPrepares, Info, Get
  <2> HIDE DEF p
  <2>5. /\ c \in Info /\ c.log = p.log /\ c.hasBlock = p.hasBlock
        /\ \/ c.state = p.state
           \/ /\ p.state = Prepared /\ c.state = Commited
              /\ Cardinality(c.log["COMMIT"]) >= minApprovals
    BY <2>4 DEF CountCommits, Info, Get
  <2> HIDE DEF c
  <2>6. a.state \in 0..3 /\ d.state \in 0..3 /\ p.state \in 0..3 /\ c.state \in 0..3
    BY <2>2, <2>3, <2>4, <2>5 DEF Info
  <2> QED BY <1>2, <2>1, <2>2, <2>3, <2>4, <2>5, <2>6
<1> QED BY <1>1, <1>2

LEMMA PublishedType ==
    ASSUME NEW b \in Block, NEW old \in Info, NEW new \in Info
    PROVE  Published(b, old, new) \in SUBSET NewState
BY DEF Published, NewState

LEMMA InsertTypeOK ==
    ASSUME TypeOK, NEW n \in Node, NEW b \in Block, NEW t \in MsgType, NEW k \in Node,
           Insert(n, b, t, k)
    PROVE  /\ cinfo' \in [Node -> [Block -> Info]]
           /\ pending' \in [Node -> SUBSET NewState]
<1> DEFINE ci == InsertMessageIntoLog(cinfo[n][b], t, k)
<1>1. cinfo \in [Node -> [Block -> Info]] /\ pending \in [Node -> SUBSET NewState]
  BY DEF TypeOK, Info
<1>2. cinfo[n][b] \in Info
  BY <1>1
<1>3. ci \in Info
  BY ZenonT(60), <1>2, InsertFacts
<1>4. Published(b, cinfo[n][b], ci) \in SUBSET NewState
  BY <1>2, <1>3, PublishedType
<1>5. cinfo' = [cinfo EXCEPT ![n][b] = ci]
      /\ pending' = [pending EXCEPT ![n] = @ \cup Published(b, cinfo[n][b], ci)]
  BY DEF Insert
<1> HIDE DEF ci
<1> QED BY <1>1, <1>3, <1>4, <1>5

LEMMA DeliverType ==
    ASSUME TypeOK, NEW n \in Node, NEW b \in Block, NEW t \in MsgType, NEW k \in Node,
           Deliver(n, b, t, k)
    PROVE  got' \in [Node -> [Block -> Log]]
<1>1. got \in [Node -> [Block -> [MsgType -> SUBSET Node]]]
  BY DEF TypeOK, Log
<1>2. got' = [got EXCEPT ![n][b][t] = got[n][b][t] \cup {k}]
  BY DEF Deliver
<1>3. got[n][b][t] \cup {k} \in SUBSET Node
  BY <1>1
<1> QED BY <1>1, <1>2, <1>3 DEF Log

LEMMA BroadcastType ==
    ASSUME TypeOK, NEW n \in Node, NEW b \in Block, NEW t \in MsgType, Broadcast(n, b, t)
    PROVE  sent' \in [Block -> Log]
BY DEF Broadcast, TypeOK, Log

LEMMA TypeStep == TypeOK /\ [Next]_vars => TypeOK'
<1> SUFFICES ASSUME TypeOK, [Next]_vars PROVE TypeOK'
  OBVIOUS
<1>1. ASSUME NEW n \in Node, NEW b \in Block, propose(n, b) PROVE TypeOK'
  <2>1. "PREPREPARE" \in MsgType
    BY DEF MsgType
  <2>2. /\ Broadcast(n, b, "PREPREPARE") /\ Insert(n, b, "PREPREPARE", n) /\ got' = got
    BY <1>1 DEF propose
  <2>3. sent' \in [Block -> Log]
    BY <2>1, <2>2, BroadcastType
  <2>4. cinfo' \in [Node -> [Block -> Info]] /\ pending' \in [Node -> SUBSET NewState]
    BY <2>1, <2>2, InsertTypeOK
  <2> QED BY <2>2, <2>3, <2>4 DEF TypeOK, Info
<1>2. ASSUME NEW n \in Node, NEW b \in Block, NEW k \in Node, handlePrePrepare(n, b, k)
      PROVE TypeOK'
  <2>1. "PREPREPARE" \in MsgType
    BY DEF MsgType
  <2>2. Deliver(n, b, "PREPREPARE", k) /\ Insert(n, b, "PREPREPARE", k) /\ sent' = sent
    BY <1>2 DEF handlePrePrepare
  <2>3. got' \in [Node -> [Block -> Log]]
    BY <2>1, <2>2, DeliverType
  <2>4. cinfo' \in [Node -> [Block -> Info]] /\ pending' \in [Node -> SUBSET NewState]
    BY <2>1, <2>2, InsertTypeOK
  <2> QED BY <2>2, <2>3, <2>4 DEF TypeOK, Info
<1>3. ASSUME NEW n \in Node, NEW b \in Block, NEW k \in Node, rejectPrePrepare(n, b, k)
      PROVE TypeOK'
  <2>1. "PREPREPARE" \in MsgType
    BY DEF MsgType
  <2>2. Deliver(n, b, "PREPREPARE", k) /\ UNCHANGED <<cinfo, pending, sent>>
    BY <1>3 DEF rejectPrePrepare
  <2> QED BY <2>1, <2>2, DeliverType DEF TypeOK
<1>4. ASSUME NEW n \in Node, NEW b \in Block, NEW k \in Node, NEW t \in MsgType,
             handleVote(n, b, t, k)
      PROVE TypeOK'
  <2>1. Deliver(n, b, t, k) /\ Insert(n, b, t, k) /\ sent' = sent
    BY <1>4 DEF handleVote
  <2>2. got' \in [Node -> [Block -> Log]]
    BY <2>1, DeliverType
  <2>3. cinfo' \in [Node -> [Block -> Info]] /\ pending' \in [Node -> SUBSET NewState]
    BY <2>1, InsertTypeOK
  <2> QED BY <2>1, <2>2, <2>3 DEF TypeOK, Info
<1>5. ASSUME NEW n \in Node, NEW b \in Block, NEW s \in {PrePrepared, Prepared},
             onNewState(n, b, s)
      PROVE TypeOK'
  <2>1. sent' = sent \/ \E t \in MsgType : Broadcast(n, b, t)
    BY <1>5 DEF onNewState, MsgType
  <2>2. ASSUME NEW t \in MsgType, Broadcast(n, b, t) PROVE sent' \in [Block -> Log]
    BY <2>2, BroadcastType
  <2>3. sent' \in [Block -> Log]
    BY <2>1, <2>2 DEF TypeOK
  <2> QED BY <1>5, <2>3 DEF TypeOK, onNewState
<1>6. ASSUME NEW n \in Node, Prune(n) PROVE TypeOK'
  BY <1>6 DEF TypeOK, Prune, NoInfo, EmptyLog, Log, Unknown, Commited
<1>7. ASSUME NEW n \in Node, Restart(n) PROVE TypeOK'
  BY <1>7 DEF TypeOK, Restart, NoInfo, EmptyLog, Log, Unknown, Commited
<1>8. CASE UNCHANGED vars
  BY <1>8 DEF TypeOK, vars
<1> QED
  BY <1>1, <1>2, <1>3, <1>4, <1>5, <1>6, <1>7, <1>8 DEF Next

LEMMA InitTypeOK == Init => TypeOK
BY DEF Init, TypeOK, NoInfo, EmptyLog, Log, Unknown, Commited

(* The variables keep their types: in particular the state of an entry     *)
(* stays within the four of consensus_manager.go:20, and every event that  *)
(* is pending is one the subscriber acts on.                               *)
THEOREM TypeCorrect == Spec => []TypeOK
BY InitTypeOK, TypeStep, PTL DEF Spec

-----------------------------------------------------------------------------
(* Counting.                                                               *)

LEMMA CardinalityMonotone ==
    ASSUME NEW S \in SUBSET Node, NEW T \in SUBSET Node, S \subseteq T
    PROVE  /\ Cardinality(S) \in Nat /\ Cardinality(T) \in Nat
           /\ Cardinality(S) <= Cardinality(T)
<1>1. IsFiniteSet(T)
  BY FS_Subset
<1> QED
  BY <1>1, FS_Subset, FS_CardinalityType

(* An entry that is Prepared entitles its node to a COMMIT: what its log   *)
(* counts are PREPAREs that were sent by nodes other than itself and the   *)
(* proposer.                                                               *)
LEMMA EntryPrepares ==
    ASSUME NEW ci \in Info, NEW s \in Log, NEW g \in Log, NEW n \in Node, NEW q \in Node,
           \A t \in MsgType :
               /\ g[t] \subseteq s[t] \ {n}
               /\ ci.log[t] \subseteq g[t] \cup {n}
               /\ n \in ci.log[t] => t = "PREPREPARE" /\ n \in s[t],
           s["PREPREPARE"] \subseteq {q}, q \notin s["PREPARE"],
           ci.log["PREPREPARE"] # {},
           Cardinality(ci.log["PREPARE"]) >= minApprovals - 1
    PROVE  /\ s["PREPREPARE"] = {q}
           /\ Cardinality(s["PREPARE"] \ {n, q}) >= minApprovals - 1
<1>1. s["PREPREPARE"] = {q}
  BY DEF MsgType, Info, Log
<1>2. /\ ci.log["PREPARE"] \subseteq s["PREPARE"] \ {n, q}
      /\ ci.log["PREPARE"] \in SUBSET Node /\ s["PREPARE"] \ {n, q} \in SUBSET Node
  BY DEF MsgType, Info, Log
<1>3. /\ Cardinality(ci.log["PREPARE"]) \in Nat /\ Cardinality(s["PREPARE"] \ {n, q}) \in Nat
      /\ Cardinality(ci.log["PREPARE"]) <= Cardinality(s["PREPARE"] \ {n, q})
  BY <1>2, CardinalityMonotone
<1> QED BY <1>1, <1>3

-----------------------------------------------------------------------------
(* The steps of the inductive argument.                                    *)

(* Nothing that was broadcast is taken back.                               *)
LEMMA SentGrows ==
    ASSUME TypeOK, [Next]_vars
    PROVE  \A b \in Block, t \in MsgType : sent[b][t] \subseteq sent'[b][t]
<1>1. ASSUME NEW n \in Node, NEW c \in Block, NEW u \in MsgType, Broadcast(n, c, u)
      PROVE  \A b \in Block, t \in MsgType : sent[b][t] \subseteq sent'[b][t]
  BY <1>1 DEF Broadcast, TypeOK, Log
<1>2. \/ sent' = sent
      \/ \E n \in Node, c \in Block, u \in MsgType : Broadcast(n, c, u)
  BY ZenonT(60) DEF Next, vars, propose, handlePrePrepare, rejectPrePrepare, handleVote,
         onNewState, Prune, Restart, MsgType
<1> QED BY <1>1, <1>2

LEMMA RolesStep ==
    ASSUME TypeOK, RolesSound, [Next]_vars
    PROVE  RolesSound'
<1>1. \/ sent' = sent
      \/ \E n \in Node, c \in Block, u \in MsgType :
             /\ Broadcast(n, c, u)
             /\ u = "PREPREPARE" => n = Proposer[c]
             /\ u = "PREPARE" => n # Proposer[c]
  BY ZenonT(60) DEF Next, vars, propose, handlePrePrepare, rejectPrePrepare, handleVote,
         onNewState, Prune, Restart, MsgType
<1>2. ASSUME NEW n \in Node, NEW c \in Block, NEW u \in MsgType, Broadcast(n, c, u),
             u = "PREPREPARE" => n = Proposer[c], u = "PREPARE" => n # Proposer[c]
      PROVE  RolesSound'
  BY <1>2 DEF RolesSound, Broadcast, TypeOK, Log, MsgType
<1>3. ASSUME sent' = sent PROVE RolesSound'
  BY <1>3 DEF RolesSound
<1> QED BY <1>1, <1>2, <1>3

(* What Insert does to the entries and the events of the nodes.            *)
LEMMA InsertEffect ==
    ASSUME TypeOK, NEW n \in Node, NEW b \in Block, NEW t \in MsgType, NEW k \in Node,
           Insert(n, b, t, k)
    PROVE  /\ cinfo'[n][b] = InsertMessageIntoLog(cinfo[n][b], t, k)
           /\ \A m \in Node, c \in Block : m # n \/ c # b => cinfo'[m][c] = cinfo[m][c]
           /\ \A m \in Node, c \in Block :
                  <<c, Prepared>> \in pending'[m] =>
                      \/ <<c, Prepared>> \in pending[m]
                      \/ m = n /\ c = b /\ Prepared <= cinfo'[n][b].state
<1> DEFINE ci == InsertMessageIntoLog(cinfo[n][b], t, k)
<1>1. cinfo' = [cinfo EXCEPT ![n][b] = ci]
      /\ pending' = [pending EXCEPT ![n] = @ \cup Published(b, cinfo[n][b], ci)]
  BY DEF Insert
<1> HIDE DEF ci
<1>2. cinfo'[n][b] = ci
  BY <1>1 DEF TypeOK
<1>3. \A m \in Node, c \in Block : m # n \/ c # b => cinfo'[m][c] = cinfo[m][c]
  BY <1>1 DEF TypeOK
<1>4. \A c \in Block : <<c, Prepared>> \in Published(b, cinfo[n][b], ci) =>
          c = b /\ Prepared <= ci.state
  BY DEF Published
<1>5. \A m \in Node, c \in Block :
          <<c, Prepared>> \in pending'[m] =>
              \/ <<c, Prepared>> \in pending[m]
              \/ m = n /\ c = b /\ Prepared <= ci.state
  BY <1>1, <1>4 DEF TypeOK
<1> QED BY <1>2, <1>3, <1>5 DEF ci

(* One entry: inserting a message keeps the state witnessed by the log.    *)
LEMMA InsertWitness ==
    ASSUME NEW ci \in Info, NEW t \in MsgType, NEW k \in Node,
           ci.state # Unknown => ci.hasBlock,
           ci.hasBlock => ci.log["PREPREPARE"] # {},
           ci.state >= Prepared => Cardinality(ci.log["PREPARE"]) >= minApprovals - 1,
           ci.state = Commited => Cardinality(ci.log["COMMIT"]) >= minApprovals
    PROVE  LET r == InsertMessageIntoLog(ci, t, k) IN
           /\ r.state # Unknown => r.hasBlock
           /\ r.hasBlock => r.log["PREPREPARE"] # {}
           /\ r.state >= Prepared => Cardinality(r.log["PREPARE"]) >= minApprovals - 1
           /\ r.state = Commited => Cardinality(r.log["COMMIT"]) >= minApprovals
<1> DEFINE r == InsertMessageIntoLog(ci, t, k)
<1>1. /\ r \in Info
      /\ r.log = [ci.log EXCEPT ![t] = @ \cup {k}]
      /\ r.hasBlock => ci.hasBlock \/ t = "PREPREPARE"
      /\ r.state # Unknown => ci.state # Unknown \/ r.hasBlock
      /\ ci.hasBlock => r.hasBlock
  BY InsertFacts
<1>2. /\ r.state >= Prepared =>
             ci.state >= Prepared \/ Cardinality(r.log["PREPARE"]) >= minApprovals - 1
      /\ r.state = Commited =>
             ci.state = Commited \/ Cardinality(r.log["COMMIT"]) >= minApprovals
  BY ZenonT(60), InsertFacts
<1> HIDE DEF r
<1>3. ASSUME NEW u \in MsgType
      PROVE  /\ Cardinality(ci.log[u]) \in Nat /\ Cardinality(r.log[u]) \in Nat
             /\ Cardinality(ci.log[u]) <= Cardinality(r.log[u])
  <2>1. /\ ci.log[u] \in SUBSET Node /\ r.log[u] \in SUBSET Node
        /\ ci.log[u] \subseteq r.log[u]
    BY <1>1 DEF Info, Log
  <2> QED BY <2>1, CardinalityMonotone
<1>4. r.state # Unknown => r.hasBlock
  BY <1>1
<1>5. r.hasBlock => r.log["PREPREPARE"] # {}
  BY <1>1 DEF Info, Log
<1>6. r.state >= Prepared => Cardinality(r.log["PREPARE"]) >= minApprovals - 1
  BY <1>2, <1>3 DEF MsgType
<1>7. r.state = Commited => Cardinality(r.log["COMMIT"]) >= minApprovals
  BY <1>2, <1>3 DEF MsgType
<1> QED BY <1>4, <1>5, <1>6, <1>7 DEF r

LEMMA StateStep ==
    ASSUME TypeOK, StateSound, [Next]_vars
    PROVE  StateSound'
<1>1. ASSUME NEW n \in Node, NEW b \in Block, NEW t \in MsgType, NEW k \in Node,
             Insert(n, b, t, k)
      PROVE  StateSound'
  <2> SUFFICES ASSUME NEW m \in Node, NEW c \in Block
               PROVE  LET e == cinfo'[m][c] IN
                      /\ e.state # Unknown => e.hasBlock
                      /\ e.hasBlock => e.log["PREPREPARE"] # {}
                      /\ e.state >= Prepared =>
                             Cardinality(e.log["PREPARE"]) >= minApprovals - 1
                      /\ e.state = Commited =>
                             Cardinality(e.log["COMMIT"]) >= minApprovals
    BY ZenonT(60) DEF StateSound
  <2>1. CASE m = n /\ c = b
    <3>1. cinfo'[m][c] = InsertMessageIntoLog(cinfo[n][b], t, k)
      BY <1>1, <2>1, InsertEffect
    <3>2. cinfo[n][b] \in Info
      BY DEF TypeOK, Info
    <3> QED BY <3>1, <3>2, InsertWitness DEF StateSound
  <2>2. CASE m # n \/ c # b
    <3>1. cinfo'[m][c] = cinfo[m][c]
      BY <1>1, <2>2, InsertEffect
    <3> QED BY <3>1 DEF StateSound
  <2> QED BY <2>1, <2>2
<1>2. ASSUME cinfo' = cinfo PROVE StateSound'
  BY <1>2 DEF StateSound, Unknown, Prepared, Commited
<1>3. ASSUME NEW n \in Node, cinfo' = [cinfo EXCEPT ![n] = [b \in Block |-> NoInfo]]
      PROVE  StateSound'
  <2>1. \A m \in Node, c \in Block : cinfo'[m][c] = NoInfo \/ cinfo'[m][c] = cinfo[m][c]
    BY <1>3 DEF TypeOK
  <2>2. /\ NoInfo.state = Unknown /\ ~NoInfo.hasBlock
        /\ ~(Unknown >= Prepared) /\ Unknown # Commited
    BY DEF NoInfo, Unknown, Prepared, Commited
  <2> QED BY <2>1, <2>2 DEF StateSound
<1>4. \/ cinfo' = cinfo
      \/ \E n \in Node : cinfo' = [cinfo EXCEPT ![n] = [b \in Block |-> NoInfo]]
      \/ \E n \in Node, b \in Block, t \in MsgType, k \in Node : Insert(n, b, t, k)
  BY ZenonT(60) DEF Next, vars, propose, handlePrePrepare, rejectPrePrepare, handleVote,
         onNewState, Prune, Restart, MsgType
<1> QED BY <1>1, <1>2, <1>3, <1>4

LEMMA LogStep ==
    ASSUME TypeOK, LogSound, [Next]_vars
    PROVE  LogSound'
<1> DEFINE Sound(m, c, t, g, l, s) ==
               /\ g \subseteq s \ {m}
               /\ l \subseteq g \cup {m}
               /\ m \in l => t = "PREPREPARE" /\ m \in s
<1>1. SUFFICES ASSUME NEW m \in Node, NEW c \in Block, NEW u \in MsgType
      PROVE  Sound(m, c, u, got'[m][c][u], cinfo'[m][c].log[u], sent'[c][u])
  BY DEF LogSound
<1>2. /\ Sound(m, c, u, got[m][c][u], cinfo[m][c].log[u], sent[c][u])
      /\ sent[c][u] \subseteq sent'[c][u]
  BY SentGrows DEF LogSound
<1>3. ASSUME NEW n \in Node, NEW b \in Block, NEW t \in MsgType, NEW k \in Node,
             Insert(n, b, t, k)
      PROVE  cinfo'[m][c].log[u] \subseteq
                 cinfo[m][c].log[u] \cup (IF m = n /\ c = b /\ u = t THEN {k} ELSE {})
  <2>1. CASE m = n /\ c = b
    <3>1. cinfo[n][b] \in Info /\ cinfo'[m][c] = InsertMessageIntoLog(cinfo[n][b], t, k)
      BY <1>3, <2>1, InsertEffect DEF TypeOK, Info
    <3>2. cinfo'[m][c].log = [cinfo[n][b].log EXCEPT ![t] = @ \cup {k}]
      BY <3>1, InsertFacts
    <3> QED BY <2>1, <3>1, <3>2 DEF Info, Log
  <2>2. CASE m # n \/ c # b
    BY <1>3, <2>2, InsertEffect
  <2> QED BY <2>1, <2>2
<1>4. ASSUME NEW n \in Node, NEW b \in Block, NEW t \in MsgType, NEW k \in Node,
             Deliver(n, b, t, k)
      PROVE  /\ got[m][c][u] \subseteq got'[m][c][u]
             /\ got'[m][c][u] \subseteq sent[c][u] \ {m}
             /\ m = n /\ c = b /\ u = t => k \in got'[m][c][u]
             /\ k # n
  BY <1>2, <1>4 DEF Deliver, TypeOK, Log
<1>5. ASSUME NEW n \in Node, NEW b \in Block, propose(n, b)
      PROVE  Sound(m, c, u, got'[m][c][u], cinfo'[m][c].log[u], sent'[c][u])
  <2>1. n \in sent'[b]["PREPREPARE"] /\ got' = got /\ Insert(n, b, "PREPREPARE", n)
    BY <1>5 DEF propose, Broadcast, TypeOK, Log, MsgType
  <2>2. cinfo'[m][c].log[u] \subseteq
            cinfo[m][c].log[u] \cup (IF m = n /\ c = b /\ u = "PREPREPARE" THEN {n} ELSE {})
    BY <1>3, <2>1 DEF MsgType
  <2> QED BY <1>2, <2>1, <2>2
<1>6. ASSUME NEW n \in Node, NEW b \in Block, NEW t \in MsgType, NEW k \in Node,
             Deliver(n, b, t, k), Insert(n, b, t, k)
      PROVE  Sound(m, c, u, got'[m][c][u], cinfo'[m][c].log[u], sent'[c][u])
  <2>1. cinfo'[m][c].log[u] \subseteq
            cinfo[m][c].log[u] \cup (IF m = n /\ c = b /\ u = t THEN {k} ELSE {})
    BY <1>3, <1>6
  <2>2. /\ got[m][c][u] \subseteq got'[m][c][u]
        /\ got'[m][c][u] \subseteq sent[c][u] \ {m}
        /\ m = n /\ c = b /\ u = t => k \in got'[m][c][u]
        /\ k # n
    BY <1>4, <1>6
  <2> QED BY <1>2, <2>1, <2>2
<1>7. ASSUME NEW n \in Node, NEW b \in Block, NEW t \in MsgType, NEW k \in Node,
             Deliver(n, b, t, k), cinfo' = cinfo
      PROVE  Sound(m, c, u, got'[m][c][u], cinfo'[m][c].log[u], sent'[c][u])
  <2>1. got[m][c][u] \subseteq got'[m][c][u] /\ got'[m][c][u] \subseteq sent[c][u] \ {m}
    BY <1>4, <1>7
  <2> QED BY <1>2, <1>7, <2>1
<1>8. ASSUME NEW n \in Node, cinfo' = [cinfo EXCEPT ![n] = [b \in Block |-> NoInfo]],
             got' = got
      PROVE  Sound(m, c, u, got'[m][c][u], cinfo'[m][c].log[u], sent'[c][u])
  <2>1. cinfo'[m][c] = NoInfo \/ cinfo'[m][c] = cinfo[m][c]
    BY <1>8 DEF TypeOK
  <2>2. NoInfo.log[u] = {}
    BY DEF NoInfo, EmptyLog
  <2> QED BY <1>2, <1>8, <2>1, <2>2
<1>9. ASSUME cinfo' = cinfo, got' = got
      PROVE  Sound(m, c, u, got'[m][c][u], cinfo'[m][c].log[u], sent'[c][u])
  BY <1>2, <1>9
<1> HIDE DEF Sound
<1>10. \/ \E n \in Node, b \in Block : propose(n, b)
       \/ \E n \in Node, b \in Block, t \in MsgType, k \in Node :
              Deliver(n, b, t, k) /\ (Insert(n, b, t, k) \/ cinfo' = cinfo)
       \/ \E n \in Node :
              cinfo' = [cinfo EXCEPT ![n] = [b \in Block |-> NoInfo]] /\ got' = got
       \/ cinfo' = cinfo /\ got' = got
  BY ZenonT(60) DEF Next, vars, handlePrePrepare, rejectPrePrepare, handleVote,
         onNewState, Prune, Restart, MsgType
<1> QED BY <1>5, <1>6, <1>7, <1>8, <1>9, <1>10

(* More messages never take an entitlement away.                           *)
LEMMA PreparesStable ==
    ASSUME TypeOK, TypeOK', RolesSound', [Next]_vars,
           NEW b \in Block, NEW k \in Node, Prepares(b, k)
    PROVE  Prepares(b, k)'
<1> DEFINE S == sent[b]["PREPARE"] \ {k, Proposer[b]}
           T == sent'[b]["PREPARE"] \ {k, Proposer[b]}
<1>1. S \in SUBSET Node /\ T \in SUBSET Node /\ S \subseteq T
  BY SentGrows DEF TypeOK, Log, MsgType
<1>2. Cardinality(S) \in Nat /\ Cardinality(T) \in Nat /\ Cardinality(S) <= Cardinality(T)
  BY <1>1, CardinalityMonotone
<1>3. sent'[b]["PREPREPARE"] = {Proposer[b]}
  BY SentGrows DEF Prepares, RolesSound, MsgType
<1> QED BY <1>2, <1>3 DEF Prepares

LEMMA PendingStep ==
    ASSUME TypeOK, TypeOK', PendingSound, LogSound', RolesSound', StateSound', [Next]_vars
    PROVE  PendingSound'
<1> SUFFICES ASSUME NEW m \in Node, NEW c \in Block, <<c, Prepared>> \in pending'[m]
             PROVE  Prepares(c, m)'
  BY DEF PendingSound, Prepared
<1>1. \/ <<c, Prepared>> \in pending[m]
      \/ Prepared <= cinfo'[m][c].state
  <2>1. ASSUME NEW n \in Node, NEW b \in Block, NEW t \in MsgType, NEW k \in Node,
               Insert(n, b, t, k)
        PROVE  <<c, Prepared>> \in pending[m] \/ Prepared <= cinfo'[m][c].state
    BY <2>1, InsertEffect
  <2>2. ASSUME NEW n \in Node, NEW b \in Block, NEW s \in {PrePrepared, Prepared},
               onNewState(n, b, s)
        PROVE  <<c, Prepared>> \in pending[m]
    BY <2>2 DEF onNewState, TypeOK
  <2>3. ASSUME NEW n \in Node, Restart(n) PROVE <<c, Prepared>> \in pending[m]
    BY <2>3 DEF Restart, TypeOK
  <2>4. \/ pending' = pending
        \/ \E n \in Node, b \in Block, s \in {PrePrepared, Prepared} : onNewState(n, b, s)
        \/ \E n \in Node : Restart(n)
        \/ \E n \in Node, b \in Block, t \in MsgType, k \in Node : Insert(n, b, t, k)
    BY DEF Next, vars, propose, handlePrePrepare, rejectPrePrepare, handleVote,
           Prune, MsgType
  <2> QED BY <2>1, <2>2, <2>3, <2>4
<1>2. CASE <<c, Prepared>> \in pending[m]
  BY <1>2, PreparesStable DEF PendingSound
<1>3. CASE Prepared <= cinfo'[m][c].state
  <2> DEFINE ci == cinfo'[m][c]  s == sent'[c]  g == got'[m][c]  q == Proposer[c]
  <2>1. ci \in Info /\ s \in Log /\ g \in Log /\ q \in Node
    BY DEF TypeOK, Info, Unknown, Commited
  <2>2. \A t \in MsgType :
            /\ g[t] \subseteq s[t] \ {m}
            /\ ci.log[t] \subseteq g[t] \cup {m}
            /\ m \in ci.log[t] => t = "PREPREPARE" /\ m \in s[t]
    BY DEF LogSound
  <2>3. s["PREPREPARE"] \subseteq {q} /\ q \notin s["PREPARE"]
    BY DEF RolesSound
  <2>4. ci.state >= Prepared /\ ci.state # Unknown
    BY <1>3, <2>1 DEF Info, Prepared, Unknown, Commited
  <2>5. ci.log["PREPREPARE"] # {} /\ Cardinality(ci.log["PREPARE"]) >= minApprovals - 1
    BY <2>4 DEF StateSound, Prepared, Unknown, Commited
  <2> HIDE DEF ci, s, g, q
  <2>6. s["PREPREPARE"] = {q} /\ Cardinality(s["PREPARE"] \ {m, q}) >= minApprovals - 1
    BY ZenonT(60), <2>1, <2>2, <2>3, <2>5, EntryPrepares
  <2> QED BY <2>6 DEF Prepares, s, q
<1> QED BY <1>1, <1>2, <1>3

LEMMA PrepareCertificateStep ==
    ASSUME TypeOK, TypeOK', PendingSound, PrepareCertificate, RolesSound', [Next]_vars
    PROVE  PrepareCertificate'
<1> SUFFICES ASSUME NEW b \in Block, NEW k \in sent'[b]["COMMIT"]
             PROVE  Prepares(b, k)'
  BY DEF PrepareCertificate
<1>1. k \in Node
  BY DEF TypeOK, Log, MsgType
<1>2. k \in sent[b]["COMMIT"] \/ <<b, Prepared>> \in pending[k]
  <2>1. ASSUME NEW n \in Node, NEW c \in Block, NEW t \in MsgType, Broadcast(n, c, t),
               t = "COMMIT" => <<c, Prepared>> \in pending[n]
        PROVE  k \in sent[b]["COMMIT"] \/ <<b, Prepared>> \in pending[k]
    BY ZenonT(60), <2>1 DEF Broadcast, TypeOK, Log, MsgType
  <2>2. \/ sent' = sent
        \/ \E n \in Node, c \in Block, t \in MsgType :
               Broadcast(n, c, t) /\ (t = "COMMIT" => <<c, Prepared>> \in pending[n])
    <3>1. ASSUME NEW n \in Node, NEW c \in Block, NEW s \in {PrePrepared, Prepared},
                 onNewState(n, c, s)
          PROVE  \/ sent' = sent
                 \/ \E t \in MsgType :
                        Broadcast(n, c, t) /\ (t = "COMMIT" => <<c, Prepared>> \in pending[n])
      BY <3>1 DEF onNewState, MsgType
    <3>2. ASSUME NEW n \in Node, NEW c \in Block, propose(n, c)
          PROVE  Broadcast(n, c, "PREPREPARE")
      BY <3>2 DEF propose
    <3> QED
      BY <3>1, <3>2 DEF Next, vars, handlePrePrepare, rejectPrePrepare, handleVote,
                        Prune, Restart, MsgType
  <2> QED BY ZenonT(60), <2>1, <2>2
<1>3. Prepares(b, k)
  BY <1>1, <1>2 DEF PrepareCertificate, PendingSound
<1> QED BY <1>1, <1>3, PreparesStable

-----------------------------------------------------------------------------
LEMMA InitEvidence == Init => Evidence
<1> SUFFICES ASSUME Init PROVE Evidence
  OBVIOUS
<1>1. \A n \in Node, b \in Block, t \in MsgType :
          cinfo[n][b] = NoInfo /\ pending[n] = {} /\ sent[b][t] = {} /\ got[n][b][t] = {}
  BY DEF Init, EmptyLog
<1>2. /\ NoInfo.state = Unknown /\ ~NoInfo.hasBlock /\ \A t \in MsgType : NoInfo.log[t] = {}
      /\ ~(Unknown >= Prepared) /\ Unknown # Commited
  BY DEF NoInfo, EmptyLog, Unknown, Prepared, Commited
<1>3. LogSound
  BY <1>1, <1>2 DEF LogSound
<1>4. RolesSound /\ PrepareCertificate /\ PendingSound
  BY <1>1 DEF RolesSound, PrepareCertificate, PendingSound, MsgType
<1>5. StateSound
  <2>1. ASSUME NEW n \in Node, NEW b \in Block
        PROVE  /\ cinfo[n][b].state = Unknown /\ ~cinfo[n][b].hasBlock
               /\ ~(cinfo[n][b].state >= Prepared) /\ cinfo[n][b].state # Commited
    BY <1>1, <1>2, <2>1 DEF MsgType
  <2> QED BY <2>1 DEF StateSound
<1> QED BY <1>3, <1>4, <1>5 DEF Evidence

LEMMA EvidenceStep == TypeOK /\ TypeOK' /\ Evidence /\ [Next]_vars => Evidence'
<1> SUFFICES ASSUME TypeOK, TypeOK', Evidence, [Next]_vars PROVE Evidence'
  OBVIOUS
<1>1. LogSound /\ RolesSound /\ StateSound /\ PendingSound /\ PrepareCertificate
  BY DEF Evidence
<1>2. LogSound' /\ RolesSound' /\ StateSound'
  BY <1>1, LogStep, RolesStep, StateStep
<1>3. PendingSound' /\ PrepareCertificate'
  BY <1>1, <1>2, PendingStep, PrepareCertificateStep
<1> QED BY <1>2, <1>3 DEF Evidence

(* Every log, state, pending event and COMMIT is backed by messages that   *)
(* were really sent (consensus_manager.go:57, consensus_handler.go:89).    *)
THEOREM EvidenceHolds == Spec => []Evidence
BY InitEvidence, EvidenceStep, TypeCorrect, PTL DEF Spec

(* Every COMMIT in the network rests on a proposal and on enough PREPAREs  *)
(* of third nodes.                                                         *)
THEOREM PrepareCertified == Spec => []PrepareCertificate
<1>1. Evidence => PrepareCertificate
  BY DEF Evidence
<1> QED BY <1>1, EvidenceHolds, PTL

(* A node reaches Commited only on COMMITs of minApprovals other nodes.    *)
THEOREM CommitCertified == Spec => []CommitCertificate
<1>1. TypeOK /\ Evidence => CommitCertificate
  <2> SUFFICES ASSUME TypeOK, Evidence, NEW n \in Node, NEW b \in Block,
                      cinfo[n][b].state = Commited
               PROVE  Cardinality(sent[b]["COMMIT"] \ {n}) >= minApprovals
    BY DEF CommitCertificate
  <2> DEFINE L == cinfo[n][b].log["COMMIT"]  S == sent[b]["COMMIT"] \ {n}
  <2>1. Cardinality(L) >= minApprovals
    BY DEF Evidence, StateSound
  <2>2. L \in SUBSET Node /\ S \in SUBSET Node
    BY DEF TypeOK, Log, MsgType
  <2>3. L \subseteq S
    BY DEF Evidence, LogSound, MsgType
  <2>4. Cardinality(L) \in Nat /\ Cardinality(S) \in Nat /\ Cardinality(L) <= Cardinality(S)
    BY <2>2, <2>3, CardinalityMonotone
  <2> QED BY <2>1, <2>4
<1> QED BY <1>1, TypeCorrect, EvidenceHolds, PTL

(* commitAcceptedBlocks is never handed an entry without its block.        *)
THEOREM CommitedBlocksHeld == Spec => []CommitedHasBlock
<1>1. Evidence => CommitedHasBlock
  BY DEF Evidence, StateSound, CommitedHasBlock
<1> QED BY <1>1, EvidenceHolds, PTL

(* Votes carry no block, and a consumed proposal does not come again.      *)
LEMMA NoRevivalStep ==
    ASSUME TypeOK, Evidence, [Next]_vars, NEW m \in Node, NEW c \in Block, Consumed(m, c),
           ~cinfo[m][c].hasBlock
    PROVE  ~cinfo'[m][c].hasBlock
<1>1. ASSUME NEW n \in Node, NEW b \in Block, NEW t \in MsgType, NEW k \in Node,
             Insert(n, b, t, k), t = "PREPREPARE" => m # n \/ c # b
      PROVE  ~cinfo'[m][c].hasBlock
  <2>1. CASE m = n /\ c = b
    <3>1. cinfo[n][b] \in Info /\ cinfo'[m][c] = InsertMessageIntoLog(cinfo[n][b], t, k)
      BY <1>1, <2>1, InsertEffect DEF TypeOK, Info
    <3>2. InsertMessageIntoLog(cinfo[n][b], t, k).hasBlock =>
              cinfo[n][b].hasBlock \/ t = "PREPREPARE"
      BY ZenonT(60), <3>1, InsertFacts
    <3> QED BY ZenonT(60), <1>1, <2>1, <3>1, <3>2
  <2>2. CASE m # n \/ c # b
    <3>1. cinfo'[m][c] = cinfo[m][c]
      BY <1>1, <2>2, InsertEffect
    <3> QED BY <3>1
  <2> QED BY <2>1, <2>2
<1>2. ASSUME NEW b \in Block, propose(m, b) PROVE b # c
  BY <1>2 DEF propose, Consumed, Evidence, LogSound, MsgType
<1>3. ASSUME NEW b \in Block, NEW k \in Node, handlePrePrepare(m, b, k) PROVE b # c
  BY <1>3 DEF handlePrePrepare, Deliver, Consumed, Evidence, LogSound, RolesSound, MsgType
<1>4. ASSUME NEW n \in Node, cinfo' = [cinfo EXCEPT ![n] = [b \in Block |-> NoInfo]]
      PROVE  ~cinfo'[m][c].hasBlock
  <2>1. cinfo'[m][c] = NoInfo \/ cinfo'[m][c] = cinfo[m][c]
    BY <1>4 DEF TypeOK
  <2> QED BY <2>1 DEF NoInfo
<1>5. ASSUME cinfo' = cinfo PROVE ~cinfo'[m][c].hasBlock
  BY ZenonT(60), <1>5
<1>6. \/ cinfo' = cinfo
      \/ \E n \in Node : cinfo' = [cinfo EXCEPT ![n] = [b \in Block |-> NoInfo]]
      \/ \E n \in Node, b \in Block : propose(n, b) /\ Insert(n, b, "PREPREPARE", n)
      \/ \E n \in Node, b \in Block, k \in Node :
             handlePrePrepare(n, b, k) /\ Insert(n, b, "PREPREPARE", k)
      \/ \E n \in Node, b \in Block, t \in MsgType, k \in Node :
             t # "PREPREPARE" /\ Insert(n, b, t, k)
  <2>1. ASSUME NEW n \in Node, NEW b \in Block, NEW k \in Node, NEW t \in MsgType,
               handleVote(n, b, t, k)
        PROVE  t # "PREPREPARE" /\ Insert(n, b, t, k)
    BY <2>1 DEF handleVote
  <2>2. ASSUME NEW n \in Node, NEW b \in Block, NEW s \in {PrePrepared, Prepared},
               onNewState(n, b, s)
        PROVE  cinfo' = cinfo
    BY <2>2 DEF onNewState
  <2> QED
    BY <2>1, <2>2 DEF Next, vars, propose, handlePrePrepare, rejectPrePrepare,
                      Prune, Restart
<1> QED BY <1>1, <1>2, <1>3, <1>4, <1>5, <1>6 DEF MsgType

(* A proposal that a node consumed and no longer holds stays dead there.   *)
THEOREM ProposalsNotRevived == Spec => NoRevival
<1>1. TypeOK /\ Evidence /\ [Next]_vars =>
          [\A n \in Node, b \in Block :
              Consumed(n, b) /\ ~cinfo[n][b].hasBlock => ~cinfo'[n][b].hasBlock]_vars
  BY ZenonT(60), NoRevivalStep
<1> QED BY <1>1, TypeCorrect, EvidenceHolds, PTL DEF Spec, NoRevival

=============================================================================
