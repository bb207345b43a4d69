----------------------------- MODULE MC_LogQuery -----------------------------
(***************************************************************************)
(* LogQuery over MCChain, with every criteria the JSON-RPC layer accepts  *)
(* over its values: any address set, up to two topic positions, a block  *)
(* hash, or a from/to range (numbers or the "latest" tag).  A block hash  *)
(* together with a range is rejected before it reaches the code.          *)
(***************************************************************************)
EXTENDS LogQuery, MCChain

CONSTANTS NoValue

MCNone == NoValue

MCCriteria ==
    { c \in [addresses : SUBSET MCAddresses, topics : MCTopicLists,
             blockHash : {NoValue, 2},
             fromBlock : {NoValue, 2, LatestTag},
             toBlock   : {NoValue, 1, 3, LatestTag}] :
        c.blockHash # NoValue => c.fromBlock = NoValue /\ c.toBlock = NoValue }

=============================================================================
