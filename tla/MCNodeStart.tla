----------------------------- MODULE MCNodeStart ----------------------------
(* Four blocks above genesis, two of which compete; two configurations     *)
(* that can run, one for each database, and one for each mistake.          *)
EXTENDS NodeStart, TLC

CONSTANTS g, a1, a2, b1, b2, w1, w2, k1, k2

MCParent == a1 :> g @@ a2 :> a1 @@ b1 :> g @@ b2 :> b1
MCHeight == g :> 0 @@ a1 :> 1 @@ a2 :> 2 @@ b1 :> 1 @@ b2 :> 2

Sound == [readable |-> TRUE, PrivateKeyPath |-> TRUE, DatabasePath |-> TRUE,
          DatabaseType |-> "lmdb", CacheType |-> "memory", ethKey |-> "MnemonicPhrase",
          bootstrap |-> "address"]
MCConfig ==
    {Sound, [Sound EXCEPT !.DatabaseType = "", !.bootstrap = "is_bootstrap", !.ethKey = "PrivateKey",
                   !.CacheType = ""]}
    \cup {[Sound EXCEPT !.readable = FALSE], [Sound EXCEPT !.PrivateKeyPath = FALSE],
          [Sound EXCEPT !.DatabasePath = FALSE], [Sound EXCEPT !.CacheType = "redis"],
          [Sound EXCEPT !.ethKey = ""], [Sound EXCEPT !.bootstrap = "noPeerID"],
          [Sound EXCEPT !.bootstrap = "malformed"]}
=============================================================================
