--------------------------- MODULE NodeStartProofs --------------------------
(***************************************************************************)
(* Proofs about a node's block store and about its start on that store,    *)
(* for every tree of blocks, any number of calls of StoreBlock at once,    *)
(* and every set of configurations and keys.                               *)
(***************************************************************************)
EXTENDS NodeStart, TLAPS

(* The backends a leaf is tried with, in this order, unless it names one.  *)
USE SMTT(60), Z3T(60), ZenonT(60)
USE BlockAssumption

LEMMA CallTypes ==
    /\ Idle \in Call /\ Idle.at = "idle"
    /\ \A b \in Block, step \in {"latest", "put", "index", "height"} :
           /\ At(step, b) \in Call
           /\ At(step, b).at = step /\ At(step, b).block = b
BY DEF Idle, At, Call

(* The steps of a call that has begun have a block to work on.             *)
Begun == \A w \in Writer : writer[w].at # "idle" => writer[w].block \in Block

LEMMA TypeStep == TypeOK /\ Begun /\ [Next]_vars => TypeOK' /\ Begun'
<1> SUFFICES ASSUME TypeOK, Begun, [Next]_vars PROVE TypeOK' /\ Begun'
  OBVIOUS
<1> USE DEF TypeOK, Begun
<1>1. ASSUME NEW w \in Writer, NEW c \in Call, c.at # "idle" => c.block \in Block,
             writer' = [writer EXCEPT ![w] = c]
      PROVE  writer' \in [Writer -> Call] /\ Begun'
  BY <1>1
<1>2. ASSUME NEW w \in Writer, NEW b \in Block, StoreBlock(w, b) PROVE TypeOK' /\ Begun'
  BY <1>1, <1>2, CallTypes DEF StoreBlock
<1>3. ASSUME NEW w \in Writer, GetLatestBlockHeight(w) PROVE TypeOK' /\ Begun'
  <2> DEFINE c == IF latest = -1 THEN Idle
                  ELSE [at |-> "parent", block |-> writer[w].block, height |-> latest]
  <2>1. c \in Call /\ (c.at # "idle" => c.block \in Block)
    BY <1>3, CallTypes DEF GetLatestBlockHeight, GetUint64, Call
  <2>2. writer' = [writer EXCEPT ![w] = c] /\ UNCHANGED <<stored, index, latest, up>>
    BY <1>3 DEF GetLatestBlockHeight, GetUint64
  <2> HIDE DEF c
  <2> QED BY <1>1, <2>1, <2>2
<1>4. ASSUME NEW w \in Writer, checkLastHash(w) PROVE TypeOK' /\ Begun'
  BY <1>1, <1>4, CallTypes DEF checkLastHash
<1>5. ASSUME NEW w \in Writer, rejectBlock(w) PROVE TypeOK' /\ Begun'
  BY <1>1, <1>5, CallTypes DEF rejectBlock
<1>6. ASSUME NEW w \in Writer, putBlock(w) PROVE TypeOK' /\ Begun'
  BY <1>1, <1>6, CallTypes DEF putBlock
<1>7. ASSUME NEW w \in Writer, putIndex(w) PROVE TypeOK' /\ Begun'
  BY <1>1, <1>7, CallTypes DEF putIndex, PutBytes, Heights
<1>8. ASSUME NEW w \in Writer, readHeight(w) PROVE TypeOK' /\ Begun'
  <2> DEFINE c == [at |-> "set", block |-> writer[w].block, height |-> latest]
  <2>1. c \in Call /\ c.block \in Block
    BY <1>8 DEF readHeight, GetUint64, Call
  <2>2. writer' = [writer EXCEPT ![w] = c] /\ UNCHANGED <<stored, index, latest, up>>
    BY <1>8 DEF readHeight, GetUint64
  <2> HIDE DEF c
  <2> QED BY <1>1, <2>1, <2>2
<1>9. ASSUME NEW w \in Writer, SetLatestBlockHeight(w) PROVE TypeOK' /\ Begun'
  <2>1. latest' \in Heights \cup {-1}
    BY <1>9 DEF SetLatestBlockHeight, PutUint64, Heights
  <2> QED BY <1>1, <1>9, <2>1, CallTypes DEF SetLatestBlockHeight, PutUint64
<1>10. ASSUME NEW w \in Writer, storeGenesis(w) PROVE TypeOK' /\ Begun'
  BY <1>1, <1>10, CallTypes DEF storeGenesis
<1>11. ASSUME start PROVE TypeOK' /\ Begun'
  <2>1. up' = TRUE /\ UNCHANGED <<stored, index, latest, writer>>
    BY <1>11 DEF start
  <2> QED BY <2>1
<1>12. ASSUME crash PROVE TypeOK' /\ Begun'
  BY ZenonT(60), <1>12, CallTypes DEF crash
<1>13. CASE UNCHANGED vars
  BY <1>13 DEF vars
<1> QED
  BY <1>2, <1>3, <1>4, <1>5, <1>6, <1>7, <1>8, <1>9, <1>10, <1>11, <1>12, <1>13 DEF Next

(* The database and the calls keep their types.                            *)
THEOREM TypeCorrect == Spec => []TypeOK
<1>1. Init => TypeOK /\ Begun
  <2> SUFFICES ASSUME Init PROVE TypeOK /\ Begun
    OBVIOUS
  <2>1. up \in BOOLEAN
    BY ZenonT(60) DEF Init
  <2>2. /\ stored \subseteq Block /\ index \in [Heights -> Block \cup {None}]
        /\ latest \in Heights \cup {-1} /\ writer \in [Writer -> Call]
    BY CallTypes DEF Init
  <2>3. Begun
    BY CallTypes DEF Init, Begun
  <2> QED BY <2>1, <2>2, <2>3 DEF TypeOK
<1> QED BY <1>1, TypeStep, PTL DEF Spec

(* A header that is found at a height is the one that the index names.     *)
LEMMA HeaderAtHeight ==
    ASSUME NEW h, FetchBlockHeaderByHeight(h) # None
    PROVE  index[h] = FetchBlockHeaderByHeight(h)
BY DEF FetchBlockHeaderByHeight, FetchBlockHeader, GetBytes

-----------------------------------------------------------------------------
(* The concurrent store.                                                   *)

(* A call stays sound while others add blocks and index entries.           *)
LEMMA CallStable ==
    ASSUME TypeOK, NEW v \in Writer, writer'[v] = writer[v], CallSound(writer[v]),
           stored \subseteq stored',
           \A h \in Heights : index[h] # None => index'[h] # None
    PROVE  CallSound(writer[v])'
BY DEF CallSound, Indexed, TypeOK, Heights

LEMMA IdleSound ==
    ASSUME NEW v \in Writer, writer'[v] = Idle
    PROVE  CallSound(writer[v])'
BY CallTypes DEF CallSound

(* A step that replaces one call and only adds to the database keeps the   *)
(* calls sound if the new call is.                                         *)
LEMMA OneCallMoves ==
    ASSUME TypeOK, NEW w \in Writer, NEW c, writer' = [writer EXCEPT ![w] = c],
           \A v \in Writer : CallSound(writer[v]),
           stored \subseteq stored',
           \A h \in Heights : index[h] # None => index'[h] # None,
           CallSound(writer[w])'
    PROVE  \A v \in Writer : CallSound(writer[v])'
<1> SUFFICES ASSUME NEW v \in Writer PROVE CallSound(writer[v])'
  OBVIOUS
<1>1. CASE v = w
  BY <1>1
<1>2. CASE v # w
  <2>1. writer'[v] = writer[v]
    BY <1>2 DEF TypeOK
  <2> QED BY <2>1, CallStable
<1> QED BY <1>1, <1>2

LEMMA StoreStep == TypeOK /\ StoreSound /\ [Next]_vars => StoreSound'
<1> SUFFICES ASSUME TypeOK, StoreSound, [Next]_vars PROVE StoreSound'
  OBVIOUS
<1>1. /\ IndexSound /\ NoGaps /\ AncestorsStored
      /\ \A v \in Writer : CallSound(writer[v])
  BY DEF StoreSound
<1>2. ASSUME stored' = stored, index' = index, latest' = latest
      PROVE  IndexSound' /\ NoGaps' /\ AncestorsStored'
  BY <1>1, <1>2 DEF IndexSound, NoGaps, AncestorsStored, Indexed
<1>3. ASSUME NEW w \in Writer, NEW b \in Block, StoreBlock(w, b) PROVE StoreSound'
  <2>1. writer' = [writer EXCEPT ![w] = At("latest", b)] /\ b # Genesis
        /\ stored' = stored /\ index' = index /\ latest' = latest
    BY <1>3 DEF StoreBlock
  <2>2. writer'[w] = At("latest", b)
    BY <2>1 DEF TypeOK
  <2>3. CallSound(writer[w])'
    BY <2>1, <2>2, CallTypes DEF CallSound
  <2> QED BY ZenonT(60), <1>1, <1>2, <2>1, <2>3, OneCallMoves DEF StoreSound
<1>4. ASSUME NEW w \in Writer, GetLatestBlockHeight(w) PROVE StoreSound'
  <2>1. stored' = stored /\ index' = index /\ latest' = latest /\ writer[w].at = "latest"
    BY <1>4 DEF GetLatestBlockHeight, GetUint64
  <2>2. writer[w].block \in Block /\ writer[w].block # Genesis
    BY <1>1, <2>1 DEF CallSound
  <2>3. CallSound(writer[w])'
    <3>1. CASE latest = -1
      <4>1. writer'[w] = Idle
        BY <1>4, <3>1 DEF GetLatestBlockHeight, GetUint64, TypeOK
      <4> QED BY <4>1, IdleSound
    <3>2. CASE latest # -1
      <4>1. writer'[w] = [at |-> "parent", block |-> writer[w].block, height |-> latest]
        BY <1>4, <3>2 DEF GetLatestBlockHeight, GetUint64, TypeOK
      <4>2. latest \in Heights /\ Indexed(latest)
        BY <1>1, <3>2 DEF TypeOK, NoGaps
      <4> QED BY <2>1, <2>2, <4>1, <4>2 DEF CallSound, Indexed
    <3> QED BY <3>1, <3>2
  <2>4. \E c : writer' = [writer EXCEPT ![w] = c]
    BY ZenonT(60), <1>4 DEF GetLatestBlockHeight, GetUint64
  <2> QED BY ZenonT(60), <1>1, <1>2, <2>1, <2>3, <2>4, OneCallMoves DEF StoreSound
<1>5. ASSUME NEW w \in Writer, checkLastHash(w) PROVE StoreSound'
  <2>1. /\ writer' = [writer EXCEPT ![w] = At("put", writer[w].block)]
        /\ stored' = stored /\ index' = index /\ latest' = latest
        /\ writer[w].at = "parent"
        /\ FetchBlockHeaderByHeight(writer[w].height) = Parent[writer[w].block]
    BY <1>5 DEF checkLastHash
  <2> DEFINE b == writer[w].block  h == writer[w].height
  <2>2. b \in Block /\ b # Genesis /\ h \in Heights /\ Indexed(h) /\ index[h] = Parent[b]
    BY <1>1, <2>1, HeaderAtHeight DEF CallSound
  <2>3. Parent[b] \in stored /\ Height[Parent[b]] = h /\ Height[b] = h + 1 /\ h \in Nat
    BY <1>1, <2>1, <2>2 DEF IndexSound, Heights
  <2>4. writer'[w] = At("put", b)
    BY <2>1 DEF TypeOK
  <2>5. writer'[w].at = "put" /\ writer'[w].block = b
    BY <2>2, <2>4, CallTypes
  <2>6. Indexed(Height[b] - 1)
    BY <2>2, <2>3
  <2>7. CallSound(writer[w])'
    BY <2>1, <2>2, <2>3, <2>5, <2>6 DEF CallSound, Indexed
  <2> QED BY ZenonT(60), <1>1, <1>2, <2>1, <2>7, OneCallMoves DEF StoreSound
<1>6. ASSUME NEW w \in Writer, rejectBlock(w) PROVE StoreSound'
  <2>1. writer' = [writer EXCEPT ![w] = Idle] /\ writer'[w] = Idle
        /\ stored' = stored /\ index' = index /\ latest' = latest
    BY <1>6 DEF rejectBlock, TypeOK
  <2> QED BY ZenonT(60), <1>1, <1>2, <2>1, IdleSound, OneCallMoves DEF StoreSound
<1>7. ASSUME NEW w \in Writer, putBlock(w) PROVE StoreSound'
  <2> DEFINE b == writer[w].block
  <2>1. /\ writer' = [writer EXCEPT ![w] = At("index", b)] /\ writer[w].at = "put"
        /\ stored' = stored \cup {b} /\ index' = index /\ latest' = latest
    BY <1>7 DEF putBlock
  <2>2. b \in Block /\ (b # Genesis => Parent[b] \in stored) /\ Indexed(Height[b] - 1)
    BY <1>1, <2>1 DEF CallSound
  <2>3. writer'[w].at = "index" /\ writer'[w].block = b
    BY <2>1, <2>2, CallTypes DEF TypeOK
  <2>4. CallSound(writer[w])'
    BY <2>1, <2>2, <2>3 DEF CallSound, Indexed
  <2>5. IndexSound' /\ NoGaps' /\ AncestorsStored'
    BY <1>1, <2>1, <2>2 DEF IndexSound, NoGaps, AncestorsStored, Indexed
  <2> QED BY ZenonT(60), <1>1, <2>1, <2>4, <2>5, OneCallMoves DEF StoreSound
<1>8. ASSUME NEW w \in Writer, putIndex(w) PROVE StoreSound'
  <2> DEFINE b == writer[w].block
  <2>1. /\ writer' = [writer EXCEPT ![w] = At("height", b)] /\ writer[w].at = "index"
        /\ stored' = stored /\ index' = [index EXCEPT ![Height[b]] = b] /\ latest' = latest
    BY <1>8 DEF putIndex, PutBytes
  <2>2. /\ b \in Block /\ (b # Genesis => Parent[b] \in stored) /\ Indexed(Height[b] - 1)
        /\ b \in stored /\ Height[b] \in Heights
    BY <1>1, <2>1 DEF CallSound, Heights
  <2>3. writer'[w].at = "height" /\ writer'[w].block = b
    BY <2>1, <2>2, CallTypes DEF TypeOK
  <2>4. \A h \in Heights : index'[h] = IF h = Height[b] THEN b ELSE index[h]
    BY <2>1, <2>2 DEF TypeOK
  <2>5. \A h \in Heights : index[h] # None => index'[h] # None
    BY <2>2, <2>4
  <2>6. Indexed(Height[b] - 1)'
    BY <2>2, <2>3, <2>5 DEF Indexed
  <2>7. CallSound(writer[w])'
    BY <2>1, <2>2, <2>3, <2>4, <2>6 DEF CallSound, Indexed
  <2>8. IndexSound' /\ NoGaps' /\ AncestorsStored'
    BY <1>1, <2>1, <2>2, <2>4, <2>5 DEF IndexSound, NoGaps, AncestorsStored, Indexed
  <2> QED BY ZenonT(60), <1>1, <2>1, <2>5, <2>7, <2>8, OneCallMoves DEF StoreSound
<1>9. ASSUME NEW w \in Writer, readHeight(w) PROVE StoreSound'
  <2> DEFINE b == writer[w].block
             c == [at |-> "set", block |-> b, height |-> latest]
  <2>1. /\ writer' = [writer EXCEPT ![w] = c] /\ writer[w].at = "height"
        /\ stored' = stored /\ index' = index /\ latest' = latest
    BY <1>9 DEF readHeight, GetUint64
  <2>2. writer'[w].at = "set" /\ writer'[w].block = b
    BY <2>1 DEF TypeOK
  <2>3. CallSound(writer[w])'
    BY <1>1, <2>1, <2>2 DEF CallSound, Indexed
  <2> QED BY ZenonT(60), <1>1, <1>2, <2>1, <2>3, OneCallMoves DEF StoreSound
<1>10. ASSUME NEW w \in Writer, SetLatestBlockHeight(w) PROVE StoreSound'
  <2> DEFINE b == writer[w].block
  <2>1. /\ writer' = [writer EXCEPT ![w] = Idle] /\ writer'[w] = Idle /\ writer[w].at = "set"
        /\ stored' = stored /\ index' = index /\ latest' \in {latest, Height[b]}
    BY <1>10 DEF SetLatestBlockHeight, PutUint64, TypeOK
  <2>2. b \in Block /\ Indexed(Height[b] - 1) /\ index[Height[b]] # None
    BY <1>1, <2>1 DEF CallSound
  <2>3. Height[b] \in Heights /\ Height[b] \in Nat
    BY <2>2 DEF Heights
  <2>4. Indexed(Height[b])
    BY <2>2, <2>3 DEF Indexed
  <2>5. IndexSound' /\ NoGaps' /\ AncestorsStored'
    BY <1>1, <2>1, <2>4 DEF IndexSound, NoGaps, AncestorsStored, Indexed
  <2> QED BY ZenonT(60), <1>1, <2>1, <2>5, IdleSound, OneCallMoves DEF StoreSound
<1>11. ASSUME NEW w \in Writer, storeGenesis(w) PROVE StoreSound'
  <2>1. /\ writer' = [writer EXCEPT ![w] = At("put", Genesis)]
        /\ stored' = stored /\ index' = index /\ latest' = latest
    BY <1>11 DEF storeGenesis
  <2>2. writer'[w].at = "put" /\ writer'[w].block = Genesis
    BY <2>1, CallTypes DEF TypeOK
  <2>3. CallSound(writer[w])'
    BY <2>1, <2>2 DEF CallSound, Indexed
  <2> QED BY ZenonT(60), <1>1, <1>2, <2>1, <2>3, OneCallMoves DEF StoreSound
<1>12. ASSUME start PROVE StoreSound'
  <2>1. UNCHANGED <<stored, index, latest, writer>>
    BY <1>12 DEF start
  <2>2. ASSUME NEW v \in Writer PROVE CallSound(writer[v])'
    BY <1>1, <2>1, CallStable
  <2> QED BY <1>2, <2>1, <2>2 DEF StoreSound
<1>13. ASSUME crash PROVE StoreSound'
  <2>1. stored' = stored /\ index' = index /\ latest' = latest
        /\ \A v \in Writer : writer'[v] = Idle
    BY <1>13 DEF crash
  <2> QED BY <1>2, <2>1, IdleSound DEF StoreSound
<1>14. CASE UNCHANGED vars
  <2>1. UNCHANGED <<stored, index, latest, writer>>
    BY <1>14 DEF vars
  <2>2. ASSUME NEW v \in Writer PROVE CallSound(writer[v])'
    BY <1>1, <2>1, CallStable
  <2> QED BY <1>2, <2>1, <2>2 DEF StoreSound
<1> QED
  BY <1>3, <1>4, <1>5, <1>6, <1>7, <1>8, <1>9, <1>10, <1>11, <1>12, <1>13, <1>14 DEF Next

LEMMA InitStoreSound == Init => StoreSound
<1> SUFFICES ASSUME Init PROVE StoreSound
  OBVIOUS
<1>1. stored = {} /\ latest = -1 /\ \A h \in Heights : index[h] = None
  BY DEF Init
<1>2. ASSUME NEW w \in Writer PROVE CallSound(writer[w])
  BY CallTypes DEF Init, CallSound
<1> QED BY <1>1, <1>2 DEF StoreSound, IndexSound, NoGaps, AncestorsStored, Indexed

(* Whatever the calls and crashes, the index and the calls are sound.      *)
THEOREM StoreIsSound == Spec => []StoreSound
BY TypeCorrect, InitStoreSound, StoreStep, PTL DEF Spec

(* Every height up to the latest has a block, at any number of writers.    *)
THEOREM NoGapsEver == Spec => []NoGaps
<1>1. StoreSound => NoGaps
  BY DEF StoreSound
<1> QED BY <1>1, StoreIsSound, PTL

(* No block is stored without its ancestors, at any number of writers.     *)
THEOREM AncestorsKept == Spec => []AncestorsStored
<1>1. StoreSound => AncestorsStored
  BY DEF StoreSound
<1> QED BY <1>1, StoreIsSound, PTL

-----------------------------------------------------------------------------
(* The store with one call at a time.                                      *)

SoleWriter == \A v, w \in Writer : v = w

LEMMA SoleWriterStep ==
    ASSUME SoleWriter
    PROVE  TypeOK /\ StoreSound /\ SoleWriterSound /\ [Next]_vars => SoleWriterSound'
<1> SUFFICES ASSUME TypeOK, StoreSound, SoleWriterSound, [Next]_vars
             PROVE  SoleWriterSound'
  OBVIOUS
<1>1. /\ Linked /\ IndexSound /\ NoGaps
      /\ \A v \in Writer : CallSound(writer[v]) /\ SoleCallSound(writer[v])
  BY DEF StoreSound, SoleWriterSound
<1>2. \A h \in 0..latest : h \in Heights
  BY <1>1 DEF NoGaps, Indexed
<1> latest \in Int /\ latest >= -1
  BY DEF TypeOK, Heights
<1>3. ASSUME index' = index, latest' = latest PROVE Linked'
  BY <1>1, <1>3 DEF Linked
<1>4. ASSUME Linked', NEW w \in Writer, SoleCallSound(writer[w])' PROVE SoleWriterSound'
  BY <1>4 DEF SoleWriter, SoleWriterSound
<1>5. ASSUME NEW w \in Writer, writer'[w].at \in {"idle", "latest"} PROVE SoleCallSound(writer[w])'
  BY <1>5 DEF SoleCallSound
<1>6. ASSUME NEW w \in Writer, NEW b \in Block, StoreBlock(w, b) PROVE SoleWriterSound'
  <2>1. writer'[w].at = "latest" /\ index' = index /\ latest' = latest
    BY <1>6, CallTypes DEF StoreBlock, TypeOK
  <2> QED BY <1>3, <1>4, <1>5, <2>1
<1>7. ASSUME NEW w \in Writer, GetLatestBlockHeight(w) PROVE SoleWriterSound'
  <2>1. index' = index /\ latest' = latest
    BY <1>7 DEF GetLatestBlockHeight, GetUint64
  <2>2. writer'[w].at = "idle" \/ (writer'[w].at = "parent" /\ writer'[w].height = latest)
    BY <1>7, CallTypes DEF GetLatestBlockHeight, GetUint64, TypeOK
  <2>3. SoleCallSound(writer[w])'
    BY <2>1, <2>2 DEF SoleCallSound
  <2> QED BY <1>3, <1>4, <2>1, <2>3
<1>8. ASSUME NEW w \in Writer, checkLastHash(w) PROVE SoleWriterSound'
  <2> DEFINE b == writer[w].block
  <2>1. /\ writer' = [writer EXCEPT ![w] = At("put", b)] /\ writer[w].at = "parent"
        /\ index' = index /\ latest' = latest
        /\ FetchBlockHeaderByHeight(writer[w].height) = Parent[b]
    BY <1>8 DEF checkLastHash
  <2>2. b \in Block /\ b # Genesis /\ latest \in Heights /\ index[latest] = Parent[b]
    BY <1>1, <2>1, HeaderAtHeight DEF CallSound, SoleCallSound
  <2>3. Height[Parent[b]] = latest /\ Height[b] = latest + 1 /\ latest # -1
    BY <1>1, <2>2 DEF IndexSound, Heights
  <2>4. writer'[w].at = "put" /\ writer'[w].block = b
    BY <2>1, <2>2, CallTypes DEF TypeOK
  <2>5. SoleCallSound(writer[w])'
    BY <2>1, <2>2, <2>3, <2>4 DEF SoleCallSound
  <2> QED BY <1>3, <1>4, <2>1, <2>5
<1>9. ASSUME NEW w \in Writer, rejectBlock(w) PROVE SoleWriterSound'
  <2>1. writer'[w].at = "idle" /\ index' = index /\ latest' = latest
    BY <1>9, CallTypes DEF rejectBlock, TypeOK
  <2> QED BY <1>3, <1>4, <1>5, <2>1
<1>10. ASSUME NEW w \in Writer, putBlock(w) PROVE SoleWriterSound'
  <2> DEFINE b == writer[w].block
  <2>1. /\ writer' = [writer EXCEPT ![w] = At("index", b)] /\ writer[w].at = "put"
        /\ index' = index /\ latest' = latest
    BY <1>10 DEF putBlock
  <2>2. b \in Block
    BY <1>1, <2>1 DEF CallSound
  <2>3. writer'[w].at = "index" /\ writer'[w].block = b
    BY <2>1, <2>2, CallTypes DEF TypeOK
  <2>4. SoleCallSound(writer[w])'
    BY <1>1, <2>1, <2>3 DEF SoleCallSound
  <2> QED BY <1>3, <1>4, <2>1, <2>4
<1>11. ASSUME NEW w \in Writer, putIndex(w) PROVE SoleWriterSound'
  <2> DEFINE b == writer[w].block
  <2>1. /\ writer' = [writer EXCEPT ![w] = At("height", b)] /\ writer[w].at = "index"
        /\ index' = [index EXCEPT ![Height[b]] = b] /\ latest' = latest
    BY <1>11 DEF putIndex, PutBytes
  <2>2. b \in Block /\ Height[b] = latest + 1 /\ Height[b] \in Heights
        /\ (b # Genesis => latest # -1 /\ Parent[b] = index[latest])
    BY <1>1, <2>1 DEF CallSound, SoleCallSound, Heights
  <2>3. writer'[w].at = "height" /\ writer'[w].block = b
    BY <2>1, <2>2, CallTypes DEF TypeOK
  <2>4. /\ index'[Height[b]] = b
        /\ \A h \in 0..latest : index'[h] = index[h]
    BY <1>2, <2>1, <2>2 DEF TypeOK
  <2>5. latest # -1 => latest \in 0..latest
    BY <2>2
  <2>6. SoleCallSound(writer[w])'
    BY <2>1, <2>2, <2>3, <2>4, <2>5 DEF SoleCallSound
  <2>7. Linked'
    BY <1>1, <2>1, <2>4 DEF Linked
  <2> QED BY <1>4, <2>6, <2>7
<1>12. ASSUME NEW w \in Writer, readHeight(w) PROVE SoleWriterSound'
  <2> DEFINE c == [at |-> "set", block |-> writer[w].block, height |-> latest]
  <2>1. /\ writer'[w] = c /\ writer[w].at = "height" /\ index' = index /\ latest' = latest
    BY <1>12 DEF readHeight, GetUint64, TypeOK
  <2>2. SoleCallSound(writer[w])'
    BY <1>1, <2>1 DEF SoleCallSound
  <2> QED BY <1>3, <1>4, <2>1, <2>2
<1>13. ASSUME NEW w \in Writer, SetLatestBlockHeight(w) PROVE SoleWriterSound'
  <2> DEFINE b == writer[w].block
  <2>1. /\ writer'[w].at = "idle" /\ writer[w].at = "set" /\ index' = index
        /\ latest' = IF Height[b] > writer[w].height THEN Height[b] ELSE latest
    BY <1>13, CallTypes DEF SetLatestBlockHeight, PutUint64, TypeOK
  <2>2. /\ b \in Block /\ Height[b] = latest + 1 /\ writer[w].height = latest
        /\ index[Height[b]] = b /\ (b # Genesis => Parent[b] = index[latest])
    BY <1>1, <2>1 DEF CallSound, SoleCallSound
  <2>3. latest' = latest + 1 /\ latest \in Int
    BY <2>1, <2>2 DEF TypeOK, Heights
  <2>4. b = Genesis => latest + 1 = 0
    BY <2>2
  <2>5. Linked'
    BY <1>1, <2>1, <2>2, <2>3, <2>4 DEF Linked
  <2> QED BY <1>4, <1>5, <2>1, <2>5
<1>14. ASSUME NEW w \in Writer, storeGenesis(w) PROVE SoleWriterSound'
  <2>1. /\ writer'[w].at = "put" /\ writer'[w].block = Genesis
        /\ index' = index /\ latest' = latest /\ latest = -1
    BY <1>14, CallTypes DEF storeGenesis, TypeOK, GetUint64
  <2>2. SoleCallSound(writer[w])'
    BY <2>1 DEF SoleCallSound
  <2> QED BY <1>3, <1>4, <2>1, <2>2
<1>15. CASE start \/ UNCHANGED vars
  <2>1. UNCHANGED <<index, latest, writer>>
    BY <1>15 DEF start, vars
  <2> QED BY <1>1, <2>1 DEF SoleWriterSound, Linked, SoleCallSound
<1>16. CASE crash
  <2>1. index' = index /\ latest' = latest /\ \A v \in Writer : writer'[v].at = "idle"
    BY <1>16, CallTypes DEF crash
  <2> QED BY <1>3, <1>5, <2>1 DEF SoleWriterSound
<1> QED
  BY <1>6, <1>7, <1>8, <1>9, <1>10, <1>11, <1>12, <1>13, <1>14, <1>15, <1>16 DEF Next

LEMMA InitSoleWriter == Init => SoleWriterSound
<1> SUFFICES ASSUME Init PROVE SoleWriterSound
  OBVIOUS
<1>1. latest = -1 /\ \A w \in Writer : writer[w].at = "idle"
  BY CallTypes DEF Init
<1> QED BY <1>1 DEF SoleWriterSound, Linked, SoleCallSound

(* With one call at a time, the height that a call compares with is never  *)
(* stale and the chain is linked, crashes between transactions included.   *)
THEOREM SoleWriterIsSound ==
    ASSUME SoleWriter
    PROVE  Spec => []SoleWriterSound
<1> QED BY InitSoleWriter, TypeCorrect, StoreIsSound, SoleWriterStep, PTL DEF Spec

(* With one call at a time, each block extends the block below it.         *)
THEOREM ChainLinked ==
    ASSUME SoleWriter
    PROVE  Spec => []Linked
<1>1. SoleWriterSound => Linked
  BY DEF SoleWriterSound
<1> QED BY <1>1, SoleWriterIsSound, PTL

LEMMA LedgerStep ==
    ASSUME SoleWriter
    PROVE  TypeOK /\ StoreSound /\ SoleWriterSound /\ [Next]_vars
               => [L!Next]_<<latest, [h \in 0..latest |-> index[h]]>>
<1> SUFFICES ASSUME TypeOK, StoreSound, SoleWriterSound, [Next]_vars
             PROVE  [L!Next]_<<latest, [h \in 0..latest |-> index[h]]>>
  OBVIOUS
<1>1. /\ NoGaps
      /\ \A v \in Writer : CallSound(writer[v]) /\ SoleCallSound(writer[v])
  BY DEF StoreSound, SoleWriterSound
<1>2. \A h \in 0..latest : h \in Heights
  BY <1>1 DEF NoGaps, Indexed
<1>3. ASSUME latest' = latest, \A h \in 0..latest : index'[h] = index[h]
      PROVE  UNCHANGED <<latest, [h \in 0..latest |-> index[h]]>>
  BY <1>3
<1>4. ASSUME NEW w \in Writer, putIndex(w)
      PROVE  UNCHANGED <<latest, [h \in 0..latest |-> index[h]]>>
  <2> DEFINE b == writer[w].block
  <2>1. /\ writer[w].at = "index" /\ latest' = latest
        /\ index' = [index EXCEPT ![Height[b]] = b]
    BY <1>4 DEF putIndex, PutBytes
  <2>2. Height[b] = latest + 1 /\ latest \in Int
    BY <1>1, <2>1 DEF SoleCallSound, TypeOK, Heights
  <2>3. \A h \in 0..latest : index'[h] = index[h]
    BY <1>2, <2>1, <2>2 DEF TypeOK
  <2> QED BY <1>3, <2>1, <2>3
<1>5. ASSUME NEW w \in Writer, SetLatestBlockHeight(w) PROVE L!Next
  <2> DEFINE b == writer[w].block
             ledger == [h \in 0..latest |-> index[h]]
  <2>1. /\ writer[w].at = "set" /\ index' = index
        /\ latest' = IF Height[b] > writer[w].height THEN Height[b] ELSE latest
    BY <1>5 DEF SetLatestBlockHeight, PutUint64
  <2>2. /\ b \in Block /\ Height[b] = latest + 1 /\ writer[w].height = latest
        /\ index[Height[b]] = b
        /\ b # Genesis => latest # -1 /\ Parent[b] = index[latest]
    BY <1>1, <2>1 DEF CallSound, SoleCallSound
  <2>3. latest' = latest + 1 /\ latest \in Int /\ Height[b] \in Nat
    BY <2>1, <2>2 DEF TypeOK, Heights
  <2>4. b = Genesis => latest = -1
    BY <2>2, <2>3
  <2>5. IF latest = -1 THEN b = Genesis ELSE b # Genesis /\ Parent[b] = ledger[latest]
    BY <2>2, <2>3, <2>4
  <2>6. [h \in 0..latest' |-> index'[h]]
          = [h \in 0..(latest + 1) |-> IF h = latest + 1 THEN b ELSE ledger[h]]
    BY <2>1, <2>2, <2>3
  <2>7. PICK c \in Block : c = b
    BY <2>2
  <2>8. L!Extend(c)
    BY ZenonT(60), <2>3, <2>5, <2>6, <2>7 DEF L!Extend
  <2> QED BY <2>8 DEF L!Next
<1>6. CASE UNCHANGED <<index, latest>>
  BY <1>3, <1>6
<1>7. \/ UNCHANGED <<index, latest>>
      \/ \E w \in Writer : putIndex(w) \/ SetLatestBlockHeight(w)
  BY DEF Next, vars, StoreBlock, GetLatestBlockHeight, checkLastHash, rejectBlock, putBlock,
         readHeight, storeGenesis, start, crash
<1> QED BY <1>4, <1>5, <1>6, <1>7

(* With one call at a time, the store implements the ledger.               *)
THEOREM StoreImplementsLedger ==
    ASSUME SoleWriter
    PROVE  Spec => ImplementsLedger
<1>1. Init => L!Init
  BY DEF Init, L!Init
<1> QED
  BY <1>1, TypeCorrect, StoreIsSound, SoleWriterIsSound, LedgerStep, PTL
  DEF Spec, ImplementsLedger, L!Spec

-----------------------------------------------------------------------------
(* The start of the node.                                                  *)

USE ConfigAssumption

-----------------------------------------------------------------------------
(* The steps, sorted by what they touch.                                   *)

(* What a process can fail on that lies in its configuration or on disk.   *)
Faulty ==
    \/ pc = "config" /\ ~cfg.readable
    \/ pc = "key" /\ keyFile \in {None, "empty"}
    \/ pc = "database" /\ Durable /\ ~cfg.DatabasePath
    \/ pc = "eth" /\ ~hasEthKey
    \/ pc = "mempool" /\ ~hasCaches
    \/ pc = "miner" /\ FetchBlockHeaderByHeight(StartHeight) = None
    \/ pc = "discovery" /\ ~provideBootstrapAddrs
    \/ pc = "sync" /\ cfg.bootstrap = "noPeerID"

Ends == \E why \in Inside \cup Outside \cup {"none"} : end(why) /\ (why \in Inside => Faulty)

(* A step that touches nothing but pc, with what it has made sure of.      *)
Advances ==
    /\ UNCHANGED <<vars, cfg, keyFile, key, exit, known, pubsubVars>>
    /\ \/ pc = "config" /\ pc' = "key" /\ cfg.readable
       \/ pc = "host" /\ pc' = "database"
       \/ pc = "database" /\ pc' = "eth" /\ (Durable => cfg.DatabasePath)
       \/ pc = "eth" /\ pc' = "mempool" /\ hasEthKey
       \/ pc = "mempool" /\ pc' = "beacon" /\ hasCaches
       \/ pc = "beacon" /\ pc' = "genesis"
       \/ /\ pc = "genesis" /\ pc' = "miner"
          /\ ~storingGenesis /\ (latest # -1 \/ Genesis \in stored)
       \/ pc = "discovery" /\ pc' = "sync" /\ provideBootstrapAddrs
       \/ pc = "sync" /\ pc' = "consensus" /\ cfg.bootstrap # "noPeerID"
       \/ pc = "disputes" /\ pc' = "advertise"
       \/ pc = "advertise" /\ pc' = "watch"
       \/ pc = "watch" /\ pc' = "router"
       \/ pc = "router" /\ pc' = "subscribe"
       \/ pc = "subscribe" /\ pc' = "hook"

Generates ==
    /\ pc = "key" /\ keyFile = None /\ pc' = "write" /\ key' \in Key /\ keyFile' = "empty"
    /\ UNCHANGED <<vars, cfg, exit, known, pubsubVars>>

Reads ==
    /\ pc = "key" /\ keyFile \notin {None, "empty"} /\ pc' = "host" /\ key' = keyFile
    /\ UNCHANGED <<vars, cfg, keyFile, exit, known, pubsubVars>>

Starts ==
    /\ pc = "miner" /\ pc' = "discovery" /\ start
    /\ UNCHANGED <<cfg, keyFile, key, exit, known, pubsubVars>>

Runs ==
    /\ pc = "hook" /\ pc' = "running" /\ Hook({"NewTx", "NewBlock"}) /\ known' = key
    /\ UNCHANGED <<vars, cfg, keyFile, key, exit, lost>>

(* The database moves, and nothing else; no crash is among these steps.    *)
Stores ==
    /\ pc \notin {"off", "miner"}
    /\ \E w \in Writer :
        \/ \E b \in Block : StoreBlock(w, b)
        \/ GetLatestBlockHeight(w) \/ checkLastHash(w) \/ rejectBlock(w)
        \/ putBlock(w) \/ putIndex(w) \/ readHeight(w) \/ SetLatestBlockHeight(w)
        \/ storeGenesis(w)
    /\ UNCHANGED nodeVars

LEMMA NodeSteps ==
    ASSUME [NodeNext]_allVars
    PROVE  \/ Ends \/ launch \/ Advances \/ Generates \/ writePrivateKey \/ Reads
           \/ Starts \/ NewConsensusHandler \/ Runs \/ Stores
           \/ \E type \in MessageType : handleMessage(type)
           \/ UNCHANGED allVars
<1>0. ASSUME NEW at, NEW why \in Inside \cup Outside \cup {"none"}, fatal(at, why),
             why \in Inside => Faulty
      PROVE  Ends
  BY <1>0 DEF fatal, Ends
<1> USE DEF Inside, Outside
<1>1. CASE provideConfig \/ provideLibp2pHost
  BY <1>0, <1>1 DEF provideConfig, provideLibp2pHost, proceed, Advances, Faulty, fatal
<1>2. CASE generatePrivateKey \/ readPrivateKey
  BY <1>2 DEF generatePrivateKey, readPrivateKey, Generates, Reads, Faulty, Ends
<1>3. CASE provideBlockchainDatabase
  BY <1>0, <1>3 DEF provideBlockchainDatabase, NewDatabase, proceed, Advances, Faulty, fatal
<1>4. CASE NewEthereumClient
  BY <1>0, <1>4 DEF NewEthereumClient, proceed, Advances, Faulty, fatal
<1>5. CASE NewMempool \/ NewDrandBeacon
  BY <1>0, <1>5 DEF NewMempool, NewDrandBeacon, proceed, Advances, Faulty, fatal
<1>6. CASE initializeBlockchain
  BY <1>6 DEF initializeBlockchain, proceed, Advances, Stores, GetUint64, HasBlock
<1>7. CASE configureMiner
  BY <1>0, <1>7 DEF configureMiner, Starts, Faulty, fatal
<1>8. CASE providePeerDiscovery \/ NewSyncManager
  BY <1>0, <1>8 DEF providePeerDiscovery, NewSyncManager, proceed, Advances, Faulty, fatal
<1>9. CASE NewDisputeManager \/ runLibp2pAsync \/ runBeacon
  BY <1>0, <1>9 DEF NewDisputeManager, runLibp2pAsync, runBeacon, proceed, Advances
<1>10. CASE runRouter \/ subscribeOnEthContractsAsync
  BY <1>0, <1>10 DEF runRouter, subscribeOnEthContractsAsync, proceed, Advances
<1>11. CASE runManagers
  BY <1>0, <1>11 DEF runManagers, Runs
<1>12. CASE subscriptionErr \/ kill
  BY <1>12 DEF subscriptionErr, kill, Ends
<1>13. CASE storeBlocks
  BY <1>13 DEF storeBlocks, Stores
<1> QED
  BY <1>1, <1>2, <1>3, <1>4, <1>5, <1>6, <1>7, <1>8, <1>9, <1>10, <1>11, <1>12, <1>13
  DEF NodeNext

-----------------------------------------------------------------------------
(* The store, under the starts and the ends of its process.                *)

(* Every step is one of the store's, or leaves an empty database behind.   *)
LEMMA StoreMoves ==
    ASSUME [NodeNext]_allVars
    PROVE  [Next]_vars \/ Init'
<1>1. CASE Ends
  <2>1. CASE Durable
    BY <1>1, <2>1 DEF Ends, end, Next, crash
  <2>2. CASE ~Durable
    BY <1>1, <2>2 DEF Ends, end, Init
  <2> QED BY <2>1, <2>2
<1>2. CASE Stores
  BY <1>2 DEF Stores, Next
<1>3. CASE Starts
  BY <1>3 DEF Starts, Next
<1>4. CASE launch \/ Advances \/ Generates \/ writePrivateKey \/ Reads \/ NewConsensusHandler \/ Runs
  BY <1>4 DEF launch, Advances, Generates, writePrivateKey, Reads, NewConsensusHandler, Runs
<1>5. ASSUME NEW type, handleMessage(type) PROVE [Next]_vars
  BY <1>5 DEF handleMessage
<1>6. CASE UNCHANGED allVars
  BY <1>6 DEF allVars
<1> QED BY NodeSteps, <1>1, <1>2, <1>3, <1>4, <1>5, <1>6

LEMMA InitTypes == Init => TypeOK /\ Begun
<1> SUFFICES ASSUME Init PROVE TypeOK /\ Begun
  OBVIOUS
<1>1. up \in BOOLEAN
  BY ZenonT(60) DEF Init
<1>2. /\ stored \subseteq Block /\ index \in [Heights -> Block \cup {None}]
      /\ latest \in Heights \cup {-1} /\ writer \in [Writer -> Call]
  BY CallTypes DEF Init
<1>3. Begun
  BY CallTypes DEF Init, Begun
<1> QED BY <1>1, <1>2, <1>3 DEF TypeOK

StoreInv == TypeOK /\ Begun /\ StoreSound

LEMMA StoreInvStep == StoreInv /\ [NodeNext]_allVars => StoreInv'
<1> SUFFICES ASSUME StoreInv, [NodeNext]_allVars PROVE StoreInv'
  OBVIOUS
<1>1. CASE [Next]_vars
  BY <1>1, TypeStep, StoreStep DEF StoreInv
<1>2. CASE Init'
  <2>1. TypeOK' /\ Begun'
    BY <1>2, InitTypes, PTL
  <2>2. StoreSound'
    BY <1>2, InitStoreSound, PTL
  <2> QED BY <2>1, <2>2 DEF StoreInv
<1> QED BY <1>1, <1>2, StoreMoves

LEMMA NodeStoreInv == NodeSpec => []StoreInv
<1>1. NodeInit => StoreInv
  BY InitTypes, InitStoreSound DEF NodeInit, StoreInv
<1> QED BY <1>1, StoreInvStep, PTL DEF NodeSpec

(* The store stays sound when its process is ended at any step of a start  *)
(* or of a call, and started again over what is left.                      *)
THEOREM NodeStoreIsSound == NodeSpec => []StoreSound
<1>1. StoreInv => StoreSound
  BY DEF StoreInv
<1> QED BY <1>1, NodeStoreInv, PTL

(* So every height up to the latest has a block ...                        *)
THEOREM NodeHasNoGaps == NodeSpec => []NoGaps
<1>1. StoreInv => NoGaps
  BY DEF StoreInv, StoreSound
<1> QED BY <1>1, NodeStoreInv, PTL

(* ... and every block that is stored has its ancestors.                   *)
THEOREM NodeKeepsAncestors == NodeSpec => []AncestorsStored
<1>1. StoreInv => AncestorsStored
  BY ZenonT(60) DEF StoreInv, StoreSound
<1> QED BY <1>1, NodeStoreInv, PTL

(* With one call at a time, what a call has read is not stale when it      *)
(* writes, and each block extends the one below, whatever step of a start  *)
(* or of a call the process is ended at (StoreBlock, blockchain.go).       *)
THEOREM NodeSoleWriterIsSound ==
    ASSUME SoleWriter
    PROVE  NodeSpec => []SoleWriterSound
<1>1. StoreInv /\ SoleWriterSound /\ [NodeNext]_allVars => SoleWriterSound'
  <2> SUFFICES ASSUME StoreInv, SoleWriterSound, [NodeNext]_allVars PROVE SoleWriterSound'
    OBVIOUS
  <2>1. CASE [Next]_vars
    BY <2>1, SoleWriterStep DEF StoreInv
  <2>2. CASE Init'
    BY <2>2, InitSoleWriter, PTL
  <2> QED BY <2>1, <2>2, StoreMoves
<1>2. NodeInit => SoleWriterSound
  BY InitSoleWriter DEF NodeInit
<1> QED BY <1>1, <1>2, NodeStoreInv, PTL DEF NodeSpec

(* Under configurations with the database on disk, every process of a node *)
(* finds the ledger that the last one left: with one call at a time, the   *)
(* first start, the later ones and all that ends a process between them    *)
(* implement the ledger (initializeBlockchain, StoreBlock, blockchain.go). *)
THEOREM NodeImplementsLedger ==
    ASSUME SoleWriter, \A c \in Config : c.DatabaseType = "lmdb"
    PROVE  NodeSpec => ImplementsLedger
<1>1. cfg \in Config /\ [NodeNext]_allVars => (cfg \in Config)' /\ [Next]_vars
  <2> SUFFICES ASSUME cfg \in Config, [NodeNext]_allVars PROVE cfg' \in Config /\ [Next]_vars
    OBVIOUS
  <2>1. CASE Ends
    BY <2>1 DEF Ends, end, Durable, Next, crash
  <2>2. CASE Stores
    BY <2>2 DEF Stores, Next, nodeVars
  <2>3. CASE Starts
    BY <2>3 DEF Starts, Next
  <2>4. CASE launch \/ Advances \/ Generates \/ writePrivateKey \/ Reads \/ NewConsensusHandler \/ Runs
    BY <2>4 DEF launch, Advances, Generates, writePrivateKey, Reads, NewConsensusHandler, Runs
  <2>5. ASSUME NEW type, handleMessage(type) PROVE cfg' \in Config /\ [Next]_vars
    BY <2>5 DEF handleMessage
  <2>6. CASE UNCHANGED allVars
    BY <2>6 DEF allVars, nodeVars
  <2> QED BY NodeSteps, <2>1, <2>2, <2>3, <2>4, <2>5, <2>6
<1>2. StoreInv /\ SoleWriterSound /\ [Next]_vars
        => [L!Next]_<<latest, [h \in 0..latest |-> index[h]]>>
  BY LedgerStep DEF StoreInv
<1>3. NodeInit => cfg \in Config /\ L!Init
  BY DEF NodeInit, Init, L!Init
<1> QED
  BY <1>1, <1>2, <1>3, NodeStoreInv, NodeSoleWriterIsSound, PTL
  DEF NodeSpec, ImplementsLedger, L!Spec

-----------------------------------------------------------------------------
(* The identity of the node.                                               *)

NodeTypes ==
    /\ cfg \in Config
    /\ keyFile \in Key \cup {None, "empty"} /\ key \in Key \cup {None} /\ known \in Key \cup {None}
    /\ pc \in Step
    /\ exit \in Inside \cup Outside \cup {"none"}
    /\ handlers \subseteq MessageType /\ lost \subseteq MessageType

(* The key file is the node's key, but for the moment between its creation *)
(* and its first write, and no node has run before that.                   *)
KeySound ==
    /\ pc \in {"off", "config", "key"} => key = None
    /\ pc = "write" => key \in Key /\ keyFile = "empty" /\ known = None
    /\ pc \notin {"off", "config", "key", "write"} => key \in Key /\ keyFile = key
    /\ known # None => keyFile = known
    /\ pc # "off" => exit = "none"

LEMMA KeyStep == NodeTypes /\ KeySound /\ [NodeNext]_allVars => NodeTypes' /\ KeySound'
<1> SUFFICES ASSUME NodeTypes, KeySound, [NodeNext]_allVars PROVE NodeTypes' /\ KeySound'
  OBVIOUS
<1> USE DEF NodeTypes, KeySound, pubsubVars, Step
<1>1. CASE Ends
  <2>1. /\ pc' = "off" /\ key' = None /\ exit' \in Inside \cup Outside \cup {"none"}
        /\ handlers' = {} /\ lost' = {} /\ UNCHANGED <<cfg, keyFile, known>>
    BY <1>1 DEF Ends, end
  <2> QED BY <2>1
<1>2. CASE launch
  BY <1>2 DEF launch
<1>3. CASE Advances
  BY <1>3 DEF Advances
<1>4. CASE Generates
  BY <1>4 DEF Generates
<1>5. CASE writePrivateKey
  BY <1>5 DEF writePrivateKey
<1>6. CASE Reads
  BY <1>6 DEF Reads
<1>7. CASE Starts
  BY <1>7 DEF Starts
<1>8. CASE NewConsensusHandler
  BY <1>8 DEF NewConsensusHandler, Hook, MessageType
<1>9. CASE Runs
  BY <1>9 DEF Runs, Hook, MessageType
<1>10. CASE Stores \/ UNCHANGED allVars
  BY <1>10 DEF Stores, nodeVars, allVars
<1>11. ASSUME NEW type \in MessageType, handleMessage(type) PROVE NodeTypes' /\ KeySound'
  BY <1>11 DEF handleMessage
<1> QED
  BY ZenonT(60), NodeSteps, <1>1, <1>2, <1>3, <1>4, <1>5, <1>6, <1>7, <1>8, <1>9, <1>10, <1>11

LEMMA NodeKeyInv == NodeSpec => [](NodeTypes /\ KeySound)
<1>1. NodeInit => NodeTypes /\ KeySound
  BY DEF NodeInit, NodeTypes, KeySound, Step
<1> QED BY <1>1, KeyStep, PTL DEF NodeSpec

(* The node's files and its start keep their types.                        *)
THEOREM NodeTypeCorrect == NodeSpec => []NodeTypeOK
<1>1. StoreInv /\ NodeTypes => NodeTypeOK
  BY DEF StoreInv, NodeTypes, NodeTypeOK
<1> QED BY <1>1, NodeStoreInv, NodeKeyInv, PTL

-----------------------------------------------------------------------------
(* What a node has passed once it passes again.                            *)

(* The steps up to the one that looks at each part of the configuration.   *)
UpToConfig == {"off", "config"}
UpToDatabase == UpToConfig \cup {"key", "write", "host", "database"}
UpToEth == UpToDatabase \cup {"eth"}
UpToMempool == UpToEth \cup {"mempool"}
UpToMiner == UpToMempool \cup {"beacon", "genesis", "miner"}
UpToDiscovery == UpToMiner \cup {"discovery"}
UpToSync == UpToDiscovery \cup {"sync"}

ConfigPassed ==
    /\ known # None \/ pc \notin UpToConfig => cfg.readable
    /\ known # None \/ pc \notin UpToDatabase => (Durable => cfg.DatabasePath)
    /\ known # None \/ pc \notin UpToEth => hasEthKey
    /\ known # None \/ pc \notin UpToMempool => hasCaches
    /\ known # None \/ pc \notin UpToDiscovery => provideBootstrapAddrs
    /\ known # None \/ pc \notin UpToSync => cfg.bootstrap # "noPeerID"

(* Genesis is in the height index of a node that has started, and stays    *)
(* there on disk.  In memory it gets there before the start goes on: with  *)
(* the block stored and no call about to index it, it is indexed.          *)
Indexing == \E w \in Writer : writer[w].at = "index" /\ writer[w].block = Genesis

GenesisPassed ==
    /\ pc \notin UpToMiner => index[0] # None
    /\ known # None /\ Durable => index[0] # None
    /\ ~Durable /\ Genesis \in stored => index[0] # None \/ Indexing
    /\ ~Durable /\ pc = "miner" => index[0] # None

LEMMA IndexKept ==
    ASSUME StoreInv, [Next]_vars, NEW h \in Heights, index[h] # None
    PROVE  index'[h] # None
<1>1. ASSUME NEW w \in Writer, putIndex(w) PROVE index'[h] # None
  BY <1>1 DEF putIndex, PutBytes, StoreInv, TypeOK, Begun
<1> QED
  BY <1>1
  DEF Next, vars, StoreBlock, GetLatestBlockHeight, checkLastHash, rejectBlock, putBlock,
      readHeight, SetLatestBlockHeight, storeGenesis, start, crash

LEMMA ConfigStep == ConfigPassed /\ [NodeNext]_allVars => ConfigPassed'
<1> SUFFICES ASSUME ConfigPassed, [NodeNext]_allVars PROVE ConfigPassed'
  OBVIOUS
<1> USE DEF ConfigPassed, Durable, hasEthKey, hasCaches, provideCacheManager,
            provideBootstrapAddrs, UpToConfig, UpToDatabase, UpToEth, UpToMempool, UpToMiner,
            UpToDiscovery, UpToSync
<1>1. CASE Ends \/ launch
  BY ZenonT(60), <1>1 DEF Ends, end, launch
<1>2. CASE Advances
  BY ZenonT(60), <1>2 DEF Advances
<1>3. CASE Generates \/ writePrivateKey \/ Reads
  BY ZenonT(60), <1>3 DEF Generates, writePrivateKey, Reads
<1>4. CASE Starts \/ NewConsensusHandler
  BY ZenonT(60), <1>4 DEF Starts, NewConsensusHandler
<1>5. CASE Runs
  BY ZenonT(60), <1>5 DEF Runs
<1>6. CASE Stores \/ UNCHANGED allVars
  BY ZenonT(60), <1>6 DEF Stores, nodeVars, allVars
<1>7. ASSUME NEW type, handleMessage(type) PROVE ConfigPassed'
  BY ZenonT(60), <1>7 DEF handleMessage
<1> QED BY ZenonT(60), NodeSteps, <1>1, <1>2, <1>3, <1>4, <1>5, <1>6, <1>7

(* The genesis block that is stored in memory gets its index entry.        *)
LEMMA GenesisIndexed ==
    ASSUME StoreInv, Stores, Genesis \in stored => index[0] # None \/ Indexing,
           Genesis \in stored'
    PROVE  index'[0] # None \/ Indexing'
<1>0. 0 \in Heights
  BY DEF Heights
<1>1. [Next]_vars
  BY DEF Stores, Next
<1>2. CASE index[0] # None
  BY ZenonT(60), <1>0, <1>1, <1>2, IndexKept
<1>3. ASSUME NEW w \in Writer, putBlock(w), Genesis \notin stored PROVE Indexing'
  <2>1. writer[w].block = Genesis
    BY <1>3 DEF putBlock
  <2>2. writer'[w].at = "index" /\ writer'[w].block = Genesis
    BY <1>3, <2>1, CallTypes DEF putBlock, StoreInv, TypeOK
  <2> QED BY ZenonT(60), <2>2 DEF Indexing
<1>4. CASE Genesis \notin stored
  BY <1>3, <1>4
  DEF Stores, StoreBlock, GetLatestBlockHeight, checkLastHash, rejectBlock, putIndex,
      readHeight, SetLatestBlockHeight, storeGenesis
<1>5. CASE Indexing
  <2>1. PICK w \in Writer : writer[w].at = "index" /\ writer[w].block = Genesis
    BY <1>5 DEF Indexing
  <2>2. CASE putIndex(w)
    BY <1>0, <2>1, <2>2 DEF putIndex, PutBytes, StoreInv, TypeOK
  <2>3. CASE writer'[w] = writer[w]
    BY <2>1, <2>3 DEF Indexing
  <2>4. writer[w] # Idle
    BY <2>1, CallTypes
  <2>5. putIndex(w) \/ writer'[w] = writer[w]
    BY <2>1, <2>4
    DEF Stores, StoreBlock, GetLatestBlockHeight, checkLastHash, rejectBlock, putBlock, putIndex,
        readHeight, SetLatestBlockHeight, storeGenesis, StoreInv, TypeOK
  <2> QED BY <2>2, <2>3, <2>5
<1> QED BY <1>2, <1>4, <1>5

(* A latest height is only there with genesis in the index.                *)
LEMMA LatestNeedsGenesis ==
    ASSUME StoreInv, latest # -1
    PROVE  index[0] # None
BY DEF StoreInv, StoreSound, NoGaps, Indexed, TypeOK, Heights

LEMMA GenesisStep == StoreInv /\ GenesisPassed /\ [NodeNext]_allVars => GenesisPassed'
<1> SUFFICES ASSUME StoreInv, GenesisPassed, [NodeNext]_allVars PROVE GenesisPassed'
  OBVIOUS
<1>0. 0 \in Heights
  BY DEF Heights
<1> USE DEF UpToConfig, UpToDatabase, UpToEth, UpToMempool, UpToMiner
<1>1. ASSUME UNCHANGED <<index, stored, writer, cfg, known>>,
             pc' = pc \/ (pc' \in UpToMiner \ {"miner"}) \/ (pc \notin UpToMiner /\ pc' \notin UpToMiner)
      PROVE  GenesisPassed'
  BY <1>1 DEF GenesisPassed, Durable, Indexing
<1>2. CASE Ends
  <2>1. pc' = "off" /\ UNCHANGED <<cfg, known>>
    BY <1>2 DEF Ends, end
  <2>2. CASE Durable
    <3>1. UNCHANGED index
      BY <1>2, <2>2 DEF Ends, end
    <3> QED BY <2>1, <2>2, <3>1 DEF GenesisPassed, Durable
  <2>3. CASE ~Durable
    <3>1. stored' = {}
      BY <1>2, <2>3 DEF Ends, end
    <3> QED BY <2>1, <2>3, <3>1 DEF GenesisPassed, Durable
  <2> QED BY <2>2, <2>3
<1>3. CASE pc = "genesis" /\ pc' = "miner" /\ Advances
  <2>1. /\ UNCHANGED <<index, stored, writer, cfg, known>>
        /\ ~storingGenesis /\ (latest # -1 \/ Genesis \in stored)
    BY <1>3 DEF Advances, vars
  <2>2. ~Indexing
    BY <2>1, CallTypes DEF storingGenesis, Indexing
  <2>3. ~Durable => index[0] # None
    BY <2>1, <2>2, LatestNeedsGenesis DEF GenesisPassed
  <2> QED BY <1>3, <2>1, <2>3 DEF GenesisPassed, Durable, Indexing
<1>4. CASE Advances /\ ~(pc = "genesis" /\ pc' = "miner")
  BY <1>1, <1>4 DEF Advances, vars
<1>5. CASE launch \/ Generates \/ writePrivateKey \/ Reads
  BY <1>1, <1>5 DEF launch, Generates, writePrivateKey, Reads, vars
<1>6. CASE Starts
  <2>1. /\ UNCHANGED <<index, stored, writer, cfg, known>> /\ pc' = "discovery"
        /\ FetchBlockHeaderByHeight(StartHeight) # None
    BY <1>6 DEF Starts, start
  <2>2. index[StartHeight] # None
    BY <2>1, HeaderAtHeight
  <2>3. index[0] # None
    BY <2>2, LatestNeedsGenesis DEF StartHeight, GetUint64
  <2> QED BY <2>1, <2>3 DEF GenesisPassed
<1>7. CASE NewConsensusHandler
  BY <1>1, <1>7 DEF NewConsensusHandler, vars
<1>8. CASE Runs
  BY <1>8 DEF Runs, vars, GenesisPassed
<1>9. CASE Stores
  <2>1. UNCHANGED <<cfg, pc, known>> /\ pc # "miner"
    BY <1>9 DEF Stores, nodeVars
  <2>2. [Next]_vars
    BY <1>9 DEF Stores, Next
  <2>3. index[0] # None => index'[0] # None
    BY <1>0, <2>2, IndexKept
  <2>4. ~Durable /\ Genesis \in stored' => index'[0] # None \/ Indexing'
    BY <1>9, GenesisIndexed DEF GenesisPassed
  <2> QED BY <2>1, <2>3, <2>4 DEF GenesisPassed, Durable
<1>10. ASSUME NEW type, handleMessage(type) PROVE GenesisPassed'
  BY <1>1, <1>10 DEF handleMessage, vars
<1>11. CASE UNCHANGED allVars
  BY <1>1, <1>11 DEF allVars, vars, nodeVars
<1> QED
  BY NodeSteps, <1>2, <1>3, <1>4, <1>5, <1>6, <1>7, <1>8, <1>9, <1>10, <1>11

(* A node that has run finds nothing on its disk to fail on.               *)
LEMMA NothingFaulty ==
    ASSUME StoreInv, NodeTypes, KeySound, ConfigPassed, GenesisPassed, known # None
    PROVE  ~Faulty
<1>1. cfg.readable /\ (Durable => cfg.DatabasePath) /\ hasEthKey /\ hasCaches
      /\ provideBootstrapAddrs /\ cfg.bootstrap # "noPeerID"
  BY DEF ConfigPassed
<1>2. keyFile \notin {None, "empty"}
  BY DEF NodeTypes, KeySound
<1>3. ASSUME pc = "miner" PROVE FetchBlockHeaderByHeight(StartHeight) # None
  <2>1. index[0] # None
    BY <1>3 DEF GenesisPassed
  <2>2. StartHeight \in Heights /\ index[StartHeight] # None
    BY <2>1 DEF StartHeight, GetUint64, StoreInv, StoreSound, NoGaps, Indexed, TypeOK, Heights
  <2>3. index[StartHeight] \in stored
    BY <2>2 DEF StoreInv, StoreSound, IndexSound
  <2> QED BY <2>2, <2>3 DEF FetchBlockHeaderByHeight, FetchBlockHeader, GetBytes
<1> QED BY <1>1, <1>2, <1>3 DEF Faulty

Clean == known # None => exit \notin Inside

LEMMA CleanStep ==
    /\ StoreInv /\ NodeTypes /\ KeySound /\ ConfigPassed /\ GenesisPassed /\ Clean
    /\ [NodeNext]_allVars
    => Clean'
<1> SUFFICES ASSUME StoreInv, NodeTypes, KeySound, ConfigPassed, GenesisPassed, Clean,
                    [NodeNext]_allVars
             PROVE  Clean'
  OBVIOUS
<1> USE DEF Clean
<1>1. CASE Ends
  <2>1. UNCHANGED known /\ (exit' \in Inside => Faulty)
    BY <1>1 DEF Ends, end
  <2> QED BY <2>1, NothingFaulty
<1>2. CASE launch
  BY <1>2 DEF launch, Inside
<1>3. CASE Runs
  BY <1>3 DEF Runs, KeySound, Inside
<1>4. CASE Advances \/ Generates \/ writePrivateKey \/ Reads \/ Starts \/ NewConsensusHandler
  BY ZenonT(60), <1>4 DEF Advances, Generates, writePrivateKey, Reads, Starts, NewConsensusHandler
<1>5. CASE Stores \/ UNCHANGED allVars
  BY ZenonT(60), <1>5 DEF Stores, nodeVars, allVars
<1>6. ASSUME NEW type, handleMessage(type) PROVE Clean'
  BY <1>6 DEF handleMessage
<1> QED BY NodeSteps, <1>1, <1>2, <1>3, <1>4, <1>5, <1>6

(* A node that has run once starts again as the same peer, whatever step   *)
(* its processes were ended at, unless something outside it fails.         *)
THEOREM NodeStartsAgain == NodeSpec => []StartsAgain
<1>1. NodeInit => ConfigPassed /\ GenesisPassed /\ Clean
  BY DEF NodeInit, Init, ConfigPassed, GenesisPassed, Clean, UpToConfig, UpToDatabase, UpToEth,
         UpToMempool, UpToMiner, UpToDiscovery, UpToSync
<1>2. NodeTypes /\ KeySound /\ Clean => StartsAgain
  BY DEF NodeTypes, KeySound, Clean, StartsAgain
<1> QED
  BY <1>1, <1>2, NodeStoreInv, NodeKeyInv, ConfigStep, GenesisStep, CleanStep, PTL DEF NodeSpec

-----------------------------------------------------------------------------
(* The consensus handlers are hooked before any message is read.           *)
Heard ==
    /\ lost \cap ConsensusMessage = {}
    /\ pc \notin UpToSync \cup {"consensus"} => ConsensusMessage \subseteq handlers

LEMMA HeardStep == Heard /\ [NodeNext]_allVars => Heard'
<1> SUFFICES ASSUME Heard, [NodeNext]_allVars PROVE Heard'
  OBVIOUS
<1> USE DEF Heard, pubsubVars, UpToConfig, UpToDatabase, UpToEth, UpToMempool, UpToMiner,
            UpToDiscovery, UpToSync
<1>1. CASE Ends \/ launch
  BY <1>1 DEF Ends, end, launch
<1>2. CASE Advances
  BY <1>2 DEF Advances
<1>3. CASE Generates \/ writePrivateKey \/ Reads \/ Starts
  BY <1>3 DEF Generates, writePrivateKey, Reads, Starts
<1>4. CASE NewConsensusHandler \/ Runs
  BY <1>4 DEF NewConsensusHandler, Runs, Hook
<1>5. CASE Stores \/ UNCHANGED allVars
  BY <1>5 DEF Stores, nodeVars, allVars
<1>6. ASSUME NEW type, handleMessage(type) PROVE Heard'
  BY <1>6 DEF handleMessage
<1> QED BY NodeSteps, <1>1, <1>2, <1>3, <1>4, <1>5, <1>6

(* The router drops no vote for want of a handler, at any start.           *)
THEOREM VotesAreNotDropped == NodeSpec => []VotesAreHeard
<1>1. NodeInit => Heard
  BY DEF NodeInit, Heard, UpToConfig, UpToDatabase, UpToEth, UpToMempool, UpToMiner,
         UpToDiscovery, UpToSync
<1>2. Heard => VotesAreHeard
  BY DEF Heard, VotesAreHeard
<1> QED BY <1>1, <1>2, HeardStep, PTL DEF NodeSpec
=============================================================================
