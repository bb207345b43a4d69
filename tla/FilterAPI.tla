------------------------------ MODULE FilterAPI ------------------------------
(***************************************************************************)
(* The filter registry of src/evmrpc/filter.go: FilterAPI with its map of *)
(* filters guarded by filtersMu, the per-filter deadline *time.Timer, the *)
(* sweep goroutine timeoutLoop driven by a time.Ticker, and the polling   *)
(* cursors lastToHeight (logs filters) and blockCursor (block filters).   *)
(* It composes LogFetcher (GetLogsByFilters) and the block-event stream   *)
(* of the consensus client (getBlockHeadersAfter).                        *)
(*                                                                         *)
(* Every handler holds filtersMu from its first to its last statement,    *)
(* so each is one atomic action.  A handler blocks on the consensus       *)
(* client while it holds the lock; time passing during that call is      *)
(* equivalent to time passing right after the handler, because nothing  *)
(* the handler does after the deadline reset depends on time.            *)
(*                                                                         *)
(* Time is discrete.  A timer counts down the ticks left to its deadline *)
(* and, when it reaches 0, the runtime fires it: the one-slot channel    *)
(* deadline.C receives a value (`fired`).  Timers fire before the clock   *)
(* ticks again.  The ticker of timeoutLoop has period Timeout and a       *)
(* one-slot channel, so ticks are dropped while one is pending.           *)
(***************************************************************************)
EXTENDS LogFetcher, TLC

CONSTANTS
    MaxFilters,   \* bound on NewFilter/NewBlockFilter calls (nextFilterID)
    Timeout,      \* FilterConfig.timeout, in clock ticks
    PageSize,     \* items per page of the consensus client's Events call
    InitHeight,   \* the chain head when the API starts
    CritChoices,  \* criteria clients pass to NewFilter
    NoCursor      \* blockCursor "": no cursor yet

ASSUME MaxFilters \in Nat \ {0}
ASSUME Timeout \in Nat \ {0}
ASSUME PageSize \in Nat \ {0}
ASSUME InitHeight \in 1..MaxHeight

LogsSubscription == "LogsSubscription"
BlocksSubscription == "BlocksSubscription"

FilterIDs == 1..MaxFilters

VARIABLES
    latest,        \* committed chain head
    nextFilterID,  \* FilterAPI.nextFilterID
    filters,       \* FilterAPI.filters: id -> filter
    ticker,        \* the ticker of timeoutLoop: ticks left, and a pending tick in ticker.C
    \* history variables, kept only to state properties:
    sinceAccess,   \* ticks since the filter's deadline was last (re)armed by a call
    delivered,     \* logs handed to the client of each logs filter
    blocksSeen,    \* block hashes (heights) handed to the client of each block filter
    op             \* the last step: its name, the filter id it served, and its success

vars == <<latest, nextFilterID, filters, ticker, sinceAccess, delivered, blocksSeen, op>>

Timer == [active : BOOLEAN, left : 0..Timeout, fired : BOOLEAN]

Filter == [typ : {LogsSubscription, BlocksSubscription},
           fc : CritChoices \cup {None},
           deadline : Timer,
           blockCursor : {NoCursor} \cup Heights,
           lastToHeight : 0..MaxHeight + 1]

OpNames == {"Init", "Tick", "TimerFire", "Sweep", "Commit", "NewFilter", "NewBlockFilter",
            "GetFilterChanges", "GetFilterLogs", "UninstallFilter"}

TypeOK ==
    /\ latest \in InitHeight..MaxHeight
    /\ nextFilterID \in 1..MaxFilters + 1
    /\ DOMAIN filters \subseteq 1..nextFilterID - 1
    /\ \A id \in DOMAIN filters : filters[id] \in Filter
    /\ ticker \in [left : 1..Timeout, pending : BOOLEAN]
    /\ sinceAccess \in [FilterIDs -> 0..Timeout]
    /\ delivered \in [FilterIDs -> SUBSET LogRefs]
    /\ blocksSeen \in [FilterIDs -> Seq(1..MaxHeight)]
    /\ op \in [name : OpNames, id : FilterIDs \cup {None}, ok : BOOLEAN]

-----------------------------------------------------------------------------
(***************************************************************************)
(* Timers.                                                                 *)
(***************************************************************************)
\* time.NewTimer(a.filterConfig.timeout)
NewTimer == [active |-> TRUE, left |-> Timeout, fired |-> FALSE]

\* Faulty variants of ResetDeadline: Stop without the Reset that re-arms,
\* and Reset without draining the fire left by an expired timer.
ResetDeadlineNoRearm(t) == [t EXCEPT !.active = FALSE, !.left = 0]

ResetDeadlineNoDrain(t) == [active |-> TRUE, left |-> Timeout, fired |-> t.fired]

\* if !filter.deadline.Stop() { <-filter.deadline.C }; filter.deadline.Reset(timeout)
\* Stop reports whether it stopped an armed timer; when it did not, the
\* receive takes the pending fire out of the channel.
ResetDeadline(t) ==
    LET stopped == t.active
        fired   == IF stopped THEN t.fired ELSE FALSE
    IN [active |-> TRUE, left |-> Timeout, fired |-> fired]

Access(id, name, ok) ==
    /\ sinceAccess' = [sinceAccess EXCEPT ![id] = 0]
    /\ op' = [name |-> name, id |-> id, ok |-> ok]

-----------------------------------------------------------------------------
(***************************************************************************)
(* The block-event stream of the consensus client (tmClient.Events),      *)
(* outside this repository: one NewBlock event per committed height, the  *)
(* height being the item's cursor.  With no cursor it returns the newest  *)
(* page; after a cursor, the next page of at most PageSize items, `more`  *)
(* telling whether newer items remain, `newest` the cursor to go on from. *)
(***************************************************************************)
Events(after) ==
    IF after = NoCursor
    THEN LET lo == IF latest - PageSize + 1 > 1 THEN latest - PageSize + 1 ELSE 1
         IN [items |-> [i \in 1..latest - lo + 1 |-> lo + i - 1], more |-> FALSE, newest |-> latest]
    ELSE LET hi == IF after + PageSize < latest THEN after + PageSize ELSE latest
         IN [items |-> [i \in 1..hi - after |-> after + i], more |-> hi < latest, newest |-> hi]

\* Faulty variant of PageHeaders: each page overwrites the headers gathered.
RECURSIVE PageHeadersLastOnly(_, _)
PageHeadersLastOnly(cursor, headers) ==
    LET res == Events(cursor) IN
    IF res.more THEN PageHeadersLastOnly(res.newest, res.items)
    ELSE [hashes |-> res.items, cursor |-> res.newest]

\* getBlockHeadersAfter: page through Events until `more` is false.
RECURSIVE PageHeaders(_, _)
PageHeaders(cursor, headers) ==
    LET res == Events(cursor) IN
    IF res.more THEN PageHeaders(res.newest, headers \o res.items)
    ELSE [hashes |-> headers \o res.items, cursor |-> res.newest]

getBlockHeadersAfter(cursor) == PageHeaders(cursor, <<>>)

-----------------------------------------------------------------------------
(***************************************************************************)
(* Environment: the clock, the Go runtime and the chain.                  *)
(***************************************************************************)
\* One clock tick.  Timers due now must have fired first.
Tick ==
    /\ \A id \in DOMAIN filters : ~(filters[id].deadline.active /\ filters[id].deadline.left = 0)
    /\ filters' = [id \in DOMAIN filters |->
                     IF filters[id].deadline.active
                     THEN [filters[id] EXCEPT !.deadline.left = @ - 1]
                     ELSE filters[id]]
    /\ ticker' = IF ticker.left = 1 THEN [left |-> Timeout, pending |-> TRUE]
                 ELSE [ticker EXCEPT !.left = @ - 1]
    /\ sinceAccess' = [id \in FilterIDs |->
                         IF id \in DOMAIN filters /\ sinceAccess[id] < Timeout
                         THEN sinceAccess[id] + 1 ELSE sinceAccess[id]]
    /\ op' = [name |-> "Tick", id |-> None, ok |-> TRUE]
    /\ UNCHANGED <<latest, nextFilterID, delivered, blocksSeen>>

\* The runtime fires a due timer: deadline.C receives the time.
TimerFire(id) ==
    /\ id \in DOMAIN filters
    /\ filters[id].deadline.active
    /\ filters[id].deadline.left = 0
    /\ filters' = [filters EXCEPT ![id].deadline = [active |-> FALSE, left |-> 0, fired |-> TRUE]]
    /\ op' = [name |-> "TimerFire", id |-> None, ok |-> TRUE]
    /\ UNCHANGED <<latest, nextFilterID, ticker, sinceAccess, delivered, blocksSeen>>

\* The chain commits the next block.
Commit ==
    /\ latest < MaxHeight
    /\ latest' = latest + 1
    /\ op' = [name |-> "Commit", id |-> None, ok |-> TRUE]
    /\ UNCHANGED <<nextFilterID, filters, ticker, sinceAccess, delivered, blocksSeen>>

-----------------------------------------------------------------------------
(***************************************************************************)
(* timeoutLoop: on each tick, under filtersMu, delete every filter whose  *)
(* deadline channel holds a fire (select with default).                   *)
(***************************************************************************)
\* Faulty variant of timeoutLoop: takes the fire but keeps the filter.
timeoutLoopNoDelete ==
    /\ ticker.pending
    /\ ticker' = [ticker EXCEPT !.pending = FALSE]
    /\ filters' = [id \in DOMAIN filters |-> [filters[id] EXCEPT !.deadline.fired = FALSE]]
    /\ op' = [name |-> "Sweep", id |-> None, ok |-> TRUE]
    /\ UNCHANGED <<latest, nextFilterID, sinceAccess, delivered, blocksSeen>>

timeoutLoop ==
    /\ ticker.pending
    /\ ticker' = [ticker EXCEPT !.pending = FALSE]
    /\ filters' = [id \in { i \in DOMAIN filters : ~filters[i].deadline.fired } |-> filters[id]]
    /\ op' = [name |-> "Sweep", id |-> None, ok |-> TRUE]
    /\ UNCHANGED <<latest, nextFilterID, sinceAccess, delivered, blocksSeen>>

-----------------------------------------------------------------------------
(***************************************************************************)
(* Handlers.                                                               *)
(***************************************************************************)
\* Faulty variant of NewFilter: nextFilterID is not incremented.
NewFilterNoIncrement(crit) ==
    /\ nextFilterID <= MaxFilters
    /\ filters' = filters @@ (nextFilterID :> [typ |-> LogsSubscription, fc |-> crit,
                                                 deadline |-> NewTimer, blockCursor |-> NoCursor,
                                                 lastToHeight |-> 0])
    /\ Access(nextFilterID, "NewFilter", TRUE)
    /\ UNCHANGED <<latest, nextFilterID, ticker, delivered, blocksSeen>>

NewFilter(crit) ==
    LET curFilterID == nextFilterID IN
    /\ nextFilterID <= MaxFilters
    /\ nextFilterID' = nextFilterID + 1
    /\ filters' = filters @@ (curFilterID :> [typ |-> LogsSubscription, fc |-> crit,
                                                deadline |-> NewTimer, blockCursor |-> NoCursor,
                                                lastToHeight |-> 0])
    /\ Access(curFilterID, "NewFilter", TRUE)
    /\ UNCHANGED <<latest, ticker, delivered, blocksSeen>>

NewBlockFilter ==
    LET curFilterID == nextFilterID IN
    /\ nextFilterID <= MaxFilters
    /\ nextFilterID' = nextFilterID + 1
    /\ filters' = filters @@ (curFilterID :> [typ |-> BlocksSubscription, fc |-> None,
                                                deadline |-> NewTimer, blockCursor |-> NoCursor,
                                                lastToHeight |-> 0])
    /\ Access(curFilterID, "NewBlockFilter", TRUE)
    /\ UNCHANGED <<latest, ticker, delivered, blocksSeen>>

\* The two early returns of the logs branch (and a faulty variant that
\* stops one height early): a blockHash filter already
\* answered, a toBlock already reached (compared with the raw number).
NoNewLogsOffByOne(f) ==
    \/ f.fc.blockHash # None /\ f.lastToHeight > 0
    \/ f.fc.toBlock # None /\ f.lastToHeight >= f.fc.toBlock - 1

NoNewLogs(f) ==
    \/ f.fc.blockHash # None /\ f.lastToHeight > 0
    \/ f.fc.toBlock # None /\ f.lastToHeight >= f.fc.toBlock

\* GetFilterChanges(id).  An unknown id returns an error and changes nothing.
\* The deadline is reset before the type switch, so also on a failed fetch.
GetFilterChanges(id) ==
    /\ id \in DOMAIN filters
    /\ LET f == [filters[id] EXCEPT !.deadline = ResetDeadline(@)] IN
       \/ /\ f.typ = BlocksSubscription
          /\ LET r == getBlockHeadersAfter(f.blockCursor) IN
             \/ /\ filters' = [filters EXCEPT ![id] = [f EXCEPT !.blockCursor = r.cursor]]
                /\ blocksSeen' = [blocksSeen EXCEPT ![id] = @ \o r.hashes]
                /\ Access(id, "GetFilterChanges", TRUE)
             \/ /\ filters' = [filters EXCEPT ![id] = f]   \* tmClient.Events failed
                /\ UNCHANGED blocksSeen
                /\ Access(id, "GetFilterChanges", FALSE)
          /\ UNCHANGED delivered
       \/ /\ f.typ = LogsSubscription
          /\ NoNewLogs(f)
          /\ filters' = [filters EXCEPT ![id] = f]
          /\ Access(id, "GetFilterChanges", TRUE)
          /\ UNCHANGED <<delivered, blocksSeen>>
       \/ /\ f.typ = LogsSubscription
          /\ ~NoNewLogs(f)
          /\ LET r == GetLogsByFilters(f.fc, f.lastToHeight, latest) IN
             \/ /\ ~FetchMustFail(r, latest)
                /\ filters' = [filters EXCEPT ![id] = [f EXCEPT !.lastToHeight = r.to + 1]]
                /\ delivered' = [delivered EXCEPT ![id] = @ \cup r.logs]
                /\ Access(id, "GetFilterChanges", TRUE)
             \/ /\ FetchMayFail(r)
                /\ filters' = [filters EXCEPT ![id] = f]
                /\ UNCHANGED delivered
                /\ Access(id, "GetFilterChanges", FALSE)
          /\ UNCHANGED blocksSeen
    /\ UNCHANGED <<latest, nextFilterID, ticker>>

\* GetFilterLogs(id): a full rescan from height 0; the cursor is set to the
\* returned height itself.  The logs branch of the code does not look at the
\* filter type, so a block filter (no criteria) is not offered here.
GetFilterLogs(id) ==
    /\ id \in DOMAIN filters
    /\ filters[id].typ = LogsSubscription
    /\ LET f == [filters[id] EXCEPT !.deadline = ResetDeadline(@)]
           r == GetLogsByFilters(f.fc, 0, latest)
       IN \/ /\ ~FetchMustFail(r, latest)
             /\ filters' = [filters EXCEPT ![id] = [f EXCEPT !.lastToHeight = r.to]]
             /\ delivered' = [delivered EXCEPT ![id] = @ \cup r.logs]
             /\ Access(id, "GetFilterLogs", TRUE)
          \/ /\ FetchMayFail(r)
             /\ filters' = [filters EXCEPT ![id] = f]
             /\ UNCHANGED delivered
             /\ Access(id, "GetFilterLogs", FALSE)
    /\ UNCHANGED <<latest, nextFilterID, ticker, blocksSeen>>

UninstallFilter(id) ==
    /\ id \in DOMAIN filters
    /\ filters' = [i \in DOMAIN filters \ {id} |-> filters[i]]
    /\ Access(id, "UninstallFilter", TRUE)
    /\ UNCHANGED <<latest, nextFilterID, ticker, delivered, blocksSeen>>

-----------------------------------------------------------------------------
Init ==
    /\ latest = InitHeight
    /\ nextFilterID = 1
    /\ filters = <<>>
    /\ ticker = [left |-> Timeout, pending |-> FALSE]
    /\ sinceAccess = [id \in FilterIDs |-> 0]
    /\ delivered = [id \in FilterIDs |-> {}]
    /\ blocksSeen = [id \in FilterIDs |-> <<>>]
    /\ op = [name |-> "Init", id |-> None, ok |-> TRUE]

Next ==
    \/ Tick
    \/ \E id \in FilterIDs : TimerFire(id)
    \/ Commit
    \/ timeoutLoop
    \/ \E crit \in CritChoices : NewFilter(crit)
    \/ NewBlockFilter
    \/ \E id \in FilterIDs : GetFilterChanges(id)
    \/ \E id \in FilterIDs : GetFilterLogs(id)
    \/ \E id \in FilterIDs : UninstallFilter(id)

\* The clock advances, the runtime fires due timers, and the sweep goroutine
\* runs when its ticker has ticked; clients and the chain may stop at any time.
Fairness ==
    /\ WF_vars(Tick)
    /\ \A id \in FilterIDs : WF_vars(TimerFire(id))
    /\ WF_vars(timeoutLoop)

Spec == Init /\ [][Next]_vars /\ Fairness

-----------------------------------------------------------------------------
(***************************************************************************)
(* Properties.                                                             *)
(***************************************************************************)

(* The deadline drain in GetFilterChanges and GetFilterLogs never blocks: *)
(* whenever a filter is in the map, its timer is armed (Stop succeeds) or *)
(* its channel holds the fire that `<-filter.deadline.C` takes.  A drain  *)
(* that blocked would block forever while holding filtersMu, hanging     *)
(* every filter RPC and the sweep.                                        *)
DrainNeverBlocks ==
    \A id \in DOMAIN filters :
        filters[id].deadline.active \/ filters[id].deadline.fired

(* timeoutLoop never deletes a filter whose deadline was (re)armed by a   *)
(* call less than Timeout ticks ago: a fire left in the channel by an     *)
(* earlier expiry must not survive the reset in GetFilterChanges or       *)
(* GetFilterLogs.                                                          *)
NoEarlyExpiry ==
    [][ op'.name = "Sweep" =>
          \A id \in DOMAIN filters \ DOMAIN filters' : sinceAccess[id] >= Timeout ]_vars

(* The logs a logs filter promises at head `head`: those of its block     *)
(* hash, or those in [fromBlock, toBlock] cut at the head.                *)
FilterPromise(crit, head) ==
    IF crit.blockHash # None
    THEN IF crit.blockHash <= head THEN MatchingLogs(crit, crit.blockHash, crit.blockHash) ELSE {}
    ELSE LET from == IF crit.fromBlock = None THEN 0
                     ELSE getHeightFromBigIntBlockNumber(head, crit.fromBlock)
             to   == IF crit.toBlock = None THEN head
                     ELSE getHeightFromBigIntBlockNumber(head, crit.toBlock)
         IN MatchingLogs(crit, from, IF to < head THEN to ELSE head)

(* After every successful GetFilterChanges on a logs filter, its client   *)
(* holds every committed log the filter matches: the cursor lastToHeight  *)
(* never skips a height, whether the polls interleave with new blocks,   *)
(* GetFilterLogs calls, failed fetches or early returns.                  *)
ChangesCatchUp ==
    [][ LET id == op'.id IN
        ( /\ op'.name = "GetFilterChanges" /\ op'.ok
          /\ id \in DOMAIN filters
          /\ filters[id].typ = LogsSubscription )
        => FilterPromise(filters[id].fc, latest) \subseteq delivered'[id] ]_vars

(* A block filter hands out block hashes without a gap or a repeat: after *)
(* its first successful poll, the hashes delivered are consecutive        *)
(* heights ending at its cursor, however many pages each poll needed.    *)
BlockFeedContiguous ==
    \A id \in DOMAIN filters :
        filters[id].typ = BlocksSubscription /\ filters[id].blockCursor # NoCursor =>
            LET s == blocksSeen[id] IN
            /\ Len(s) > 0
            /\ s[Len(s)] = filters[id].blockCursor
            /\ \A i \in 1..Len(s) - 1 : s[i + 1] = s[i] + 1

(* A filter its client stops calling is eventually removed by the sweep.  *)
AbandonedFilterIsRemoved ==
    \A id \in FilterIDs :
        <>[](op.id # id) => <>[](id \notin DOMAIN filters)

(* The spec's rule that GetFilterChanges and GetFilterLogs reset the     *)
(* deadline only on success: a filter whose calls all fail from some      *)
(* point on (its client keeps getting errors) eventually expires and is   *)
(* removed by the sweep, as one its client stopped calling is.            *)
FailingFilterExpires ==
    \A id \in FilterIDs :
        <>[](op.id = id => ~op.ok) => <>[](id \notin DOMAIN filters)

(* The spec's invariant "a filter's cursor only moves forward": no call   *)
(* moves a logs filter's lastToHeight back, so no poll revisits heights   *)
(* already delivered.                                                      *)
CursorOnlyMovesForward ==
    [][ \A id \in DOMAIN filters \cap DOMAIN filters' :
          filters'[id].lastToHeight >= filters[id].lastToHeight ]_vars

=============================================================================
