----------------------------- MODULE NodeStart ------------------------------
(***************************************************************************)
(* The start of a node (node/node.go, node/node_dep_providers.go): the     *)
(* constructors in the order in which fx calls them for its Invoke list,   *)
(* then the OnStart hook, over the files that an earlier process may have  *)
(* left behind.  The process may end between any two steps, by a crash or  *)
(* by a fatal error, and be launched again.                                *)
(*                                                                         *)
(* The block store is that of module ChainStore.                           *)
(***************************************************************************)
EXTENDS ChainStore

CONSTANTS
    Config,   \* the configurations that are looked at
    Key       \* the identities that may be generated

(* What the constructors look at in a configuration: whether the file can  *)
(* be read, whether it has a private_key_path and a database_path, and its *)
(* choices.  A bootstrap address may be malformed, and without a peer ID,  *)
(* as the default is, it is of no use to the sync manager.                 *)
ConfigType ==
    [readable : BOOLEAN, PrivateKeyPath : BOOLEAN, DatabasePath : BOOLEAN,
     DatabaseType : {"memory", "lmdb", ""}, CacheType : {"memory", "redis", ""},
     ethKey : {"PrivateKey", "MnemonicPhrase", ""},
     bootstrap : {"is_bootstrap", "address", "noPeerID", "malformed"}]

ASSUME ConfigAssumption == Config \subseteq ConfigType /\ None \notin Key /\ "empty" \notin Key

VARIABLES
    cfg,       \* the configuration
    keyFile,   \* the file under PrivateKeyPath
    pc,        \* the next step of the start
    key,       \* the identity of the process
    exit,      \* why the last process ended
    known,     \* the identity with which the node has run, if it has
    handlers,  \* the types of messages that the router has a handler for
    lost       \* the types of messages that it has dropped for want of one

pubsubVars == <<handlers, lost>>
nodeVars == <<cfg, keyFile, pc, key, exit, known, pubsubVars>>
allVars == <<vars, nodeVars>>

Step ==
    {"off", "config", "key", "write", "host", "database", "eth", "mempool", "beacon", "genesis",
     "miner", "discovery", "sync", "consensus", "disputes", "advertise", "watch", "router",
     "subscribe", "hook", "running"}

ConsensusMessage == {"PrePrepare", "Prepare", "Commit"}
MessageType == ConsensusMessage \cup {"NewTx", "NewBlock"}

(* The reasons that lie in the configuration or on the node's disk, and    *)
(* the ones that lie outside: ports, the disk itself, other services and   *)
(* the Go runtime, which may end a process with a data race.               *)
Inside == {"config", "key", "cache", "header"}
Outside == {"host", "disk", "eth", "beacon", "discovery", "race"}

NodeTypeOK ==
    /\ TypeOK
    /\ cfg \in Config
    /\ keyFile \in Key \cup {None, "empty"} /\ key \in Key \cup {None} /\ known \in Key \cup {None}
    /\ pc \in Step
    /\ exit \in Inside \cup Outside \cup {"none"}
    /\ handlers \subseteq MessageType /\ lost \subseteq MessageType

NodeInit ==
    /\ Init
    /\ cfg \in Config
    /\ keyFile = None /\ pc = "off" /\ key = None /\ exit = "none" /\ known = None
    /\ handlers = {} /\ lost = {}

-----------------------------------------------------------------------------
(* The in-memory database goes with its process.                           *)
Durable == cfg.DatabaseType = "lmdb"

end(why) ==
    /\ pc # "off"
    /\ pc' = "off" /\ key' = None /\ exit' = why
    /\ up' = FALSE
    /\ writer' = [w \in Writer |-> Idle]
    /\ IF Durable THEN UNCHANGED <<stored, index, latest>>
       ELSE stored' = {} /\ index' = [h \in Heights |-> None] /\ latest' = -1
    /\ handlers' = {} /\ lost' = {}
    /\ UNCHANGED <<cfg, keyFile, known>>

fatal(at, why) == pc = at /\ end(why)

(* A step that touches nothing but the process.                            *)
proceed(at, to) ==
    /\ pc = at /\ pc' = to
    /\ UNCHANGED <<vars, cfg, keyFile, key, exit, known, pubsubVars>>

launch ==
    /\ pc = "off"
    /\ pc' = "config" /\ exit' = "none"
    /\ UNCHANGED <<vars, cfg, keyFile, key, known, pubsubVars>>

provideConfig ==
    \/ ~cfg.readable /\ fatal("config", "config")
    \/ cfg.readable /\ proceed("config", "key")

(* A new key is generated if there is no file.  The file is created first, *)
(* and written next.                                                       *)
generatePrivateKey ==
    /\ pc = "key" /\ keyFile = None
    /\ \/ ~cfg.PrivateKeyPath /\ end("key")
       \/ /\ cfg.PrivateKeyPath
          /\ key' \in Key
          /\ keyFile' = "empty"
          /\ pc' = "write"
          /\ UNCHANGED <<vars, cfg, exit, known, pubsubVars>>

MutWriteNothing ==
    /\ pc = "write" /\ pc' = "host"
    /\ UNCHANGED <<vars, cfg, keyFile, key, exit, known, pubsubVars>>

writePrivateKey ==
    /\ pc = "write" /\ pc' = "host"
    /\ keyFile' = key
    /\ UNCHANGED <<vars, cfg, key, exit, known, pubsubVars>>

readPrivateKey ==
    /\ pc = "key" /\ keyFile # None
    /\ \/ keyFile = "empty" /\ end("key")
       \/ /\ keyFile # "empty"
          /\ key' = keyFile
          /\ pc' = "host"
          /\ UNCHANGED <<vars, cfg, keyFile, exit, known, pubsubVars>>

provideLibp2pHost == fatal("host", "host") \/ proceed("host", "database")

(* lmdb.NewDatabase creates the directory and the table, or finds them.    *)
NewDatabase == fatal("database", "disk") \/ proceed("database", "eth")

provideBlockchainDatabase ==
    \/ Durable /\ ~cfg.DatabasePath /\ fatal("database", "config")
    \/ Durable /\ cfg.DatabasePath /\ NewDatabase
    \/ ~Durable /\ proceed("database", "eth")

(* getPrivateKey wants a key or a phrase.                                  *)
hasEthKey == cfg.ethKey # ""

NewEthereumClient ==
    \/ fatal("eth", "eth")
    \/ ~hasEthKey /\ fatal("eth", "config")
    \/ hasEthKey /\ proceed("eth", "mempool")

provideCacheManager == IF cfg.CacheType = "redis" THEN "redis" ELSE "memory"

(* The Redis cache manager never makes its map of caches, so that the      *)
(* first cache that is asked for ends the process.                         *)
hasCaches == provideCacheManager # "redis"

NewMempool ==
    \/ ~hasCaches /\ fatal("mempool", "cache")
    \/ hasCaches /\ proceed("mempool", "beacon")

NewDrandBeacon == fatal("beacon", "beacon") \/ proceed("beacon", "genesis")

(* Genesis is stored by StoreBlock if there is no latest height, and by a  *)
(* process that got so far before, not at all.                             *)
storingGenesis == \E w \in Writer : writer[w] # Idle

initializeBlockchain ==
    /\ pc = "genesis"
    /\ \/ /\ \E w \in Writer :
              storeGenesis(w) \/ putBlock(w) \/ putIndex(w) \/ readHeight(w) \/ SetLatestBlockHeight(w)
          /\ UNCHANGED nodeVars
       \/ /\ ~storingGenesis /\ (GetUint64 # -1 \/ HasBlock(Genesis))
          /\ proceed("genesis", "miner")

configureMiner ==
    \/ FetchBlockHeaderByHeight(StartHeight) = None /\ fatal("miner", "header")
    \/ /\ pc = "miner" /\ pc' = "discovery"
       /\ start
       /\ UNCHANGED <<cfg, keyFile, key, exit, known, pubsubVars>>

(* The addresses are parsed, unless the node is a bootstrap node itself.   *)
provideBootstrapAddrs == cfg.bootstrap # "malformed"

providePeerDiscovery ==
    \/ ~provideBootstrapAddrs /\ fatal("discovery", "config")
    \/ provideBootstrapAddrs /\ (fatal("discovery", "discovery") \/ proceed("discovery", "sync"))

(* The first bootstrap address must have a peer ID.                        *)
NewSyncManager ==
    \/ cfg.bootstrap = "noPeerID" /\ fatal("sync", "config")
    \/ cfg.bootstrap # "noPeerID" /\ proceed("sync", "consensus")

Hook(types) == handlers' = handlers \cup types

MutHookNothing == proceed("consensus", "disputes")

(* Its handlers are there before the router runs.                          *)
NewConsensusHandler ==
    /\ pc = "consensus" /\ pc' = "disputes"
    /\ Hook(ConsensusMessage)
    /\ UNCHANGED <<vars, cfg, keyFile, key, exit, known, lost>>

(* The subscriptions of the dispute manager.                               *)
NewDisputeManager == fatal("disputes", "eth") \/ proceed("disputes", "advertise")

-----------------------------------------------------------------------------
(* OnStart.                                                                *)

runLibp2pAsync == fatal("advertise", "discovery") \/ proceed("advertise", "watch")

(* DrandBeacon.Run asks for the latest round; rounds may begin after it.   *)
runBeacon == fatal("watch", "beacon") \/ proceed("watch", "router")

runRouter == proceed("router", "subscribe")

subscribeOnEthContractsAsync == fatal("subscribe", "eth") \/ proceed("subscribe", "hook")

(* The sync manager adds to the map of handlers while the router reads it, *)
(* which the Go runtime may notice.                                        *)
runManagers ==
    \/ fatal("hook", "race")
    \/ /\ pc = "hook" /\ pc' = "running"
       /\ Hook({"NewTx", "NewBlock"})
       /\ known' = key
       /\ UNCHANGED <<vars, cfg, keyFile, key, exit, lost>>

(* What a handler does is the matter of the other modules.                 *)
handleMessage(type) ==
    /\ pc \in {"subscribe", "hook", "running"}
    /\ type \notin handlers
    /\ lost' = lost \cup {type}
    /\ UNCHANGED <<vars, cfg, keyFile, pc, key, exit, known, handlers>>

(* A lost subscription ends the process.                                   *)
subscriptionErr == pc \in {"hook", "running"} /\ end("eth")

(* Once the beacon runs, rounds store blocks.                              *)
storeBlocks ==
    /\ pc \in {"router", "subscribe", "hook", "running"}
    /\ \E w \in Writer :
        \/ \E b \in Block : StoreBlock(w, b)
        \/ GetLatestBlockHeight(w) \/ checkLastHash(w) \/ rejectBlock(w)
        \/ putBlock(w) \/ putIndex(w) \/ readHeight(w) \/ SetLatestBlockHeight(w)
    /\ UNCHANGED nodeVars

kill == end("none")

NodeNext ==
    \/ launch \/ provideConfig
    \/ generatePrivateKey \/ writePrivateKey \/ readPrivateKey
    \/ provideLibp2pHost \/ provideBlockchainDatabase \/ NewEthereumClient \/ NewMempool
    \/ NewDrandBeacon \/ initializeBlockchain \/ configureMiner
    \/ providePeerDiscovery \/ NewSyncManager \/ NewConsensusHandler \/ NewDisputeManager
    \/ runLibp2pAsync \/ runBeacon \/ runRouter \/ subscribeOnEthContractsAsync \/ runManagers
    \/ \E type \in MessageType : handleMessage(type)
    \/ subscriptionErr \/ storeBlocks \/ kill

NodeSpec == NodeInit /\ [][NodeNext]_allVars

-----------------------------------------------------------------------------
(* A node that has run once can run again under its configuration, and as  *)
(* the same peer: whatever moment its process was ended at, a later start  *)
(* never fails on what is on its disk (node_dep_providers.go:206,          *)
(* miner.go:70), and the key it then has is the one it had.                *)
StartsAgain ==
    known # None =>
        /\ exit \notin Inside
        /\ key \in {known, None}

(* No vote is dropped for want of a handler: from the first message that   *)
(* the router reads (pubsub_router.go:67) the consensus has its handlers,  *)
(* although the order is nowhere but in runNode's list of parameters; what *)
(* arrives before OnStart ends and is lost is gossip of blocks and         *)
(* transactions.                                                           *)
VotesAreHeard == lost \cap ConsensusMessage = {}
=============================================================================
