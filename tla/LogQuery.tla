------------------------------ MODULE LogQuery ------------------------------
(***************************************************************************)
(* The stateless eth_getLogs handler, FilterAPI.GetLogs, over a growing   *)
(* chain (src/evmrpc/filter.go).  It checks the two-phase search of       *)
(* LogFetcher against the reference MatchingLogs: the bloom phase must    *)
(* never drop a matching log and the exact phase must drop every bloom    *)
(* false positive.                                                        *)
(***************************************************************************)
EXTENDS LogFetcher

CONSTANTS
    InitHeight,  \* the chain head when the node starts serving RPC
    Criteria,    \* the filter criteria clients send
    FetchError   \* the answer of a query whose block fetch failed

ASSUME InitHeight \in 1..MaxHeight

VARIABLES
    latest,   \* the committed chain head (ctxProvider(LatestCtxHeight).BlockHeight())
    query,    \* the last GetLogs call: its criteria and the head it ran at, or None
    answer    \* its result: a set of log positions, or FetchError

vars == <<latest, query, answer>>

TypeOK ==
    /\ latest \in 1..MaxHeight
    /\ query \in [crit : Criteria, head : 1..MaxHeight] \cup {None}
    /\ answer \in SUBSET LogRefs \cup {FetchError}

Init ==
    /\ latest = InitHeight
    /\ query = None
    /\ answer = {}

\* The chain commits the next block (outside this repository).
Commit ==
    /\ latest < MaxHeight
    /\ latest' = latest + 1
    /\ UNCHANGED <<query, answer>>

\* GetLogs(crit): GetLogsByFilters(crit, 0); a failed block fetch aborts the
\* whole call and no partial result is returned.
GetLogs(crit) ==
    LET res == GetLogsByFilters(crit, 0, latest) IN
    /\ query' = [crit |-> crit, head |-> latest]
    /\ \/ /\ ~FetchMustFail(res, latest)
          /\ answer' = res.logs
       \/ /\ FetchMayFail(res)
          /\ answer' = FetchError
    /\ UNCHANGED latest

Next ==
    \/ Commit
    \/ \E crit \in Criteria : GetLogs(crit)

Spec == Init /\ [][Next]_vars

-----------------------------------------------------------------------------
(***************************************************************************)
(* The heights a scan from cursor c promises to cover: the block of a     *)
(* blockHash query, otherwise [max(fromBlock, c), toBlock] cut at the     *)
(* head, since a height above the head has no logs yet.                   *)
(***************************************************************************)
PromisedHeights(crit, c, head) ==
    IF crit.blockHash # None THEN {crit.blockHash}
    ELSE LET from == IF crit.fromBlock = None THEN 0
                     ELSE getHeightFromBigIntBlockNumber(head, crit.fromBlock)
             to   == IF crit.toBlock = None THEN head
                     ELSE getHeightFromBigIntBlockNumber(head, crit.toBlock)
             lo   == IF c > from THEN c ELSE from
         IN { h \in lo..to : h <= head }

Promised(crit, c, head) ==
    { r \in MatchingLogs(crit, 0, head) : r[1] \in PromisedHeights(crit, c, head) }

(***************************************************************************)
(* GetLogs returns exactly the committed logs that match the criteria in  *)
(* the requested range: the bloom pruning in FindBlockesByBloom and       *)
(* FindLogsByBloom loses no matching log (blooms have no false           *)
(* negatives) and IsLogExactMatch removes every log whose bloom matched   *)
(* only by a bit collision.  The same holds of a scan resumed from any    *)
(* cursor, as GetFilterChanges does it.                                   *)
(***************************************************************************)
GetLogsIsExact ==
    query # None =>
      /\ answer # FetchError => answer = Promised(query.crit, 0, query.head)
      /\ \A c \in 0..MaxHeight + 1 :
           LET res == GetLogsByFilters(query.crit, c, latest) IN
           ~FetchMustFail(res, latest) => res.logs = Promised(query.crit, c, latest)


(***************************************************************************)
(* The spec's default range starts at genesis, and its FetchError is a    *)
(* collaborator failure that a retry can get past.  A query whose range   *)
(* lies within the committed chain (toBlock and blockHash not above the   *)
(* head) is therefore never bound to fail: no block the scan of           *)
(* GetLogsByFilters must fetch is one the consensus client cannot have.   *)
(***************************************************************************)
InCommittedRange(crit) ==
    /\ crit.blockHash # None => crit.blockHash <= latest
    /\ crit.toBlock # None => getHeightFromBigIntBlockNumber(latest, crit.toBlock) <= latest

CommittedQueryAnswerable ==
    \A crit \in Criteria :
        InCommittedRange(crit) => ~FetchMustFail(GetLogsByFilters(crit, 0, latest), latest)

=============================================================================
