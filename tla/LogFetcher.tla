----------------------------- MODULE LogFetcher -----------------------------
(***************************************************************************)
(* The log-resolution algorithm of LogFetcher (src/evmrpc/filter.go).     *)
(*                                                                         *)
(* A query is resolved in two phases: a bloom phase that prunes heights   *)
(* and receipts whose bloom cannot contain the criteria, and an exact     *)
(* phase (IsLogExactMatch) that removes bloom false positives.  This      *)
(* module holds the pure operators only; the modules that have state      *)
(* (LogQuery, FilterAPI) pass the chain head `latest` in.                 *)
(*                                                                         *)
(* Data abstraction: an address or topic is a model value; its bloom      *)
(* "bit positions" are a small set given by BloomBits, chosen in the MC   *)
(* modules so that different values collide (bloom false positives).     *)
(* A log is identified by its position <<height, tx, index in receipt>>;  *)
(* the renumbering of Log.Index and the BlockHash stamp in               *)
(* GetLogsForBlock are layout and are left out.                           *)
(***************************************************************************)
EXTENDS Integers, Sequences, FiniteSets

CONSTANTS
    Addresses,   \* contract addresses that emit logs
    Topics,      \* topic hashes
    Bits,        \* bloom bit positions
    BloomBits,   \* [Addresses \cup Topics -> SUBSET Bits]: bits set by one value
    MaxHeight,   \* the highest block height the chain reaches
    Blocks,      \* [0..MaxHeight -> Seq(Receipt)]: the receipts of each block, in tx order
    MissingReceipts, \* <<height, tx>> of receipts keeper.GetReceipt cannot find
    None         \* an absent optional criterion (nil pointer)

Heights == 0..MaxHeight

\* rpc.LatestBlockNumber: the "latest" tag, a negative block number in go-ethereum.
LatestTag == -2

Log == [address : Addresses, topics : Seq(Topics)]

ASSUME BloomBits \in [Addresses \cup Topics -> SUBSET Bits]
ASSUME Blocks \in [Heights -> Seq(Seq(Log))]
ASSUME Blocks[0] = <<>>

\* Every log of the chain, by position.
LogRefs == UNION { UNION { { <<h, t, i>> : i \in DOMAIN Blocks[h][t] } : t \in DOMAIN Blocks[h] }
                  : h \in Heights }

LogAt(r) == Blocks[r[1]][r[2]][r[3]]

(***************************************************************************)
(* Blooms.  The receipt bloom (receipt.LogsBloom) and the per-height bloom *)
(* (keeper.GetBlockBloom) are written by the keeper when the block is     *)
(* executed; both are the union of the bits of every address and topic.   *)
(* A height that is not committed yet has the zero bloom.                 *)
(***************************************************************************)
LogBloom(l) == BloomBits[l.address] \cup UNION { BloomBits[l.topics[i]] : i \in DOMAIN l.topics }

ReceiptBloom(rcpt) == UNION { LogBloom(rcpt[i]) : i \in DOMAIN rcpt }

GetBlockBloom(h, latest) ==
    IF h > latest THEN {} ELSE UNION { ReceiptBloom(Blocks[h][t]) : t \in DOMAIN Blocks[h] }

\* EncodeFilters: position 1 holds the addresses, position i+1 topic slot i;
\* each position is the set of alternatives, each alternative a set of bits.
EncodeFilters(addresses, topics) ==
    << { BloomBits[a] : a \in addresses } >>
        \o [ i \in DOMAIN topics |-> { BloomBits[t] : t \in topics[i] } ]

\* MatchFilters: AND across positions, OR across the alternatives of a
\* position, an empty position matches any bloom.
MatchFilters(bloom, filters) ==
    \A p \in DOMAIN filters :
        filters[p] = {} \/ \E alt \in filters[p] : alt \subseteq bloom

(***************************************************************************)
(* The exact phase.                                                        *)
(***************************************************************************)
matchTopics(topics, eventTopics) ==
    \A i \in DOMAIN topics :
        \/ topics[i] = {}
        \/ i <= Len(eventTopics) /\ eventTopics[i] \in topics[i]

\* Faulty variant of IsLogExactMatch: the address criterion is not checked.
IsLogExactMatchNoAddress(l, crit) == matchTopics(crit.topics, l.topics)

IsLogExactMatch(l, crit) ==
    /\ crit.addresses = {} \/ l.address \in crit.addresses
    /\ matchTopics(crit.topics, l.topics)

(***************************************************************************)
(* The scan.                                                               *)
(***************************************************************************)
\* getHeightFromBigIntBlockNumber: a tag resolves to the head.
getHeightFromBigIntBlockNumber(latest, n) == IF n = LatestTag THEN latest ELSE n

\* Receipts of height h whose bloom matches; a receipt contributes all its logs.
\* A receipt GetReceipt cannot find is skipped: the error is only logged.
FindLogsByBloom(h, filters) ==
    UNION { { <<h, t, i>> : i \in DOMAIN Blocks[h][t] }
            : t \in { t \in DOMAIN Blocks[h] :
                        /\ <<h, t>> \notin MissingReceipts
                        /\ MatchFilters(ReceiptBloom(Blocks[h][t]), filters) } }

GetLogsForBlock(h, crit, filters) ==
    { r \in FindLogsByBloom(h, filters) : IsLogExactMatch(LogAt(r), crit) }

FindBlockesByBloom(begin, end, filters, latest) ==
    { h \in begin..end : MatchFilters(GetBlockBloom(h, latest), filters) }

(***************************************************************************)
(* GetLogsByFilters(crit, lastToHeight): the heights whose block it        *)
(* fetches (blockWithRetry / blockByHashWithRetry), the logs it returns    *)
(* when every fetch succeeds, and the height it returns as lastToHeight.   *)
(* Whether a fetch fails is decided by the caller (FetchMayFail /          *)
(* FetchMustFail below), since it is an answer of the consensus client.    *)
(***************************************************************************)
GetLogsByFilters(crit, lastToHeight, latest) ==
    LET filters == EncodeFilters(crit.addresses, crit.topics)
        begin0  == IF crit.fromBlock = None THEN 0
                   ELSE getHeightFromBigIntBlockNumber(latest, crit.fromBlock)
        end     == IF crit.toBlock = None THEN latest
                   ELSE getHeightFromBigIntBlockNumber(latest, crit.toBlock)
        begin   == IF lastToHeight > begin0 THEN lastToHeight ELSE begin0
        heights == IF crit.blockHash # None THEN {crit.blockHash}
                   ELSE FindBlockesByBloom(begin, end, filters, latest)
    IN [ fetched |-> heights,
         logs    |-> UNION { GetLogsForBlock(h, crit, filters) : h \in heights \cap Heights },
         to      |-> IF crit.blockHash # None THEN crit.blockHash ELSE end ]

\* The consensus client has no block at height 0 and none above the head:
\* fetching one of those fails whatever the retries.
FetchMustFail(res, latest) == \E h \in res.fetched : h = 0 \/ h > latest

\* Any fetch may fail after its retries are exhausted.
FetchMayFail(res) == res.fetched # {}

(***************************************************************************)
(* Reference: the logs a query promises, read straight off the chain:     *)
(* every committed log in the resolved range that matches exactly.        *)
(***************************************************************************)
MatchingLogs(crit, lo, hi) ==
    { r \in LogRefs : r[1] \in lo..hi /\ IsLogExactMatch(LogAt(r), crit) }

=============================================================================
