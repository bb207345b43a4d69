# TLA+ models of the sei-chain EVM filter engine, pending-nonce index, receipt codec, state database, loadtest client and ETH replay

These modules model the parts of `src/` that hold concurrent or ordered state, or that parse untrusted bytes:
- the Ethereum JSON-RPC filter engine of `src/evmrpc/filter.go`: the filter registry, its expiry sweep and the log fetcher;
- the pending-nonce index of the EVM keeper in `src/x/evm/keeper/keeper.go`, with an abstract specification it refines;
- the generated protobuf codec of `Receipt` and `Log` in `src/x/evm/types/receipt.pb.go`;
- the nonce handling of the loadtest EVM client in `src/loadtest/evm.go`, composed with the keeper's index;
- the snapshotted cache contexts of the EVM state database in `src/x/evm/state/statedb.go` (`Copy`, `Finalize`);
- the ETH replay loop of `src/app/eth_replay.go`, with the keeper's `PrepareReplayedAddr`, across crashes and restarts.

Each model is checked with TLC. `PROJECT.json` lists the runs, the mutants that show each property can fail, the map from every definition to the source lines it models, the findings, and the hazards.

## The system

| Part | Source | State | Operations |
|---|---|---|---|
| FilterRegistry | `filter.go` `FilterAPI` | `nextFilterID`; `filters` (id → type, criteria, deadline timer, `blockCursor`, `lastToHeight`); `filtersMu` | `NewFilter`, `NewBlockFilter`, `GetFilterChanges`, `GetFilterLogs`, `UninstallFilter`, the `timeoutLoop` goroutine |
| Deadline timers | Go `time.Timer` / `time.Ticker` | per-filter timer with a 1-slot channel `deadline.C`; the sweep's ticker, whose 1-slot channel drops ticks | `Stop` / drain / `Reset` in each handler; timer fire; ticker tick |
| LogFetcher | `filter.go` `LogFetcher` | none; reads the chain head and the blooms | `GetLogsByFilters` → `FindBlockesByBloom` → `GetLogsForBlock` → `FindLogsByBloom` → `IsLogExactMatch` / `matchTopics` |
| BlockCursorFetcher | `filter.go` `getBlockHeadersAfter` | the cursor string | pages `tmClient.Events` until `More` is false |
| Bloom encode/match | not under `src/` | – | `EncodeFilters`, `MatchFilters`, block and receipt blooms (modelled from the spec) |
| Pending nonces | `keeper.go` | `pendingTxs` (addr → slice of PendingTx sorted by nonce); `keyToNonce` (tx key → addr, nonce); `nonceMx` | `AddPendingNonce`, `RemovePendingNonce`, `CalculateNextNonce` |
| Receipt codec | `receipt.pb.go` | none; bytes in, message out | `Size`, `Marshal` / `MarshalToSizedBuffer`, `encodeVarintReceipt`, `sovReceipt`, `Unmarshal` of `Receipt` and `Log`, `skipReceipt` |
| State database | `statedb.go` `DBImpl` | `ctx` (a cache multistore); `snapshottedCtxs` (a Go slice of the contexts below it); `err` | `NewDBImpl`, `SetEVM`, `Copy`, `Finalize` / `flushCtx`, `WithErr` |
| Loadtest client | `loadtest/evm.go` `EvmTxClient` | atomic `nonce`; `mtx` (RWMutex) | `NewEvmTxClient` (starting nonce), `nextNonce`, `SendEvmTx`, `ResetNonce` |
| ETH replay | `app/eth_replay.go` `Replay`; `keeper.go` `PrepareReplayedAddr` | locals `h`, `initHeight`; the committed replayed height, replay initial height and `ReplaySeenAddr` store; the keeper's Ethereum database | `Replay` (start, InitChain or OpenEthDatabase), the loop (sleep, FinalizeBlock, verify, Commit), `PrepareReplayedAddr` |

How the parts interact:
- Every registry handler holds `filtersMu` for its whole body, including the block fetches it makes through the LogFetcher and the consensus client. `timeoutLoop` takes the same lock on every tick.
- Each handler is therefore one atomic step, and the concurrency is the interleaving of handler calls with the Go runtime (timers firing, the ticker ticking) and with the chain committing blocks.
- The keeper methods likewise each hold `nonceMx`.
- The mempool calls `AddPendingNonce` and `RemovePendingNonce` in any order. RPC calls `CalculateNextNonce` (eth_getTransactionCount "pending").
- The loadtest client talks to a node over RPC. Its `ResetNonce` asks for `PendingNonceAt`, which the node answers with `CalculateNextNonce(addr, true)`. Its `SendEvmTx` reaches the mempool, which calls `AddPendingNonce`.
- runTx gives each transaction a cache context and a `DBImpl` over it. The EVM writes through the DB into cache layers above that context, and `Finalize` writes them down to it. runTx then writes the base.
- In replay mode the node drives itself: `Replay` asks an Ethereum node for block `h + initHeight`, executes it with `FinalizeBlock` at height `h` (its transactions seed the accounts they touch from the Ethereum trie through `PrepareReplayedAddr`), verifies balances and receipts, and commits. A panic anywhere ends the process; a restart calls `Replay` again.
- The receipt codec is called by the keeper when it stores and loads receipts. `Unmarshal` must refuse malformed bytes; `Marshal` must produce what `Unmarshal` reads back.

## Modules

- **`LogFetcher`** holds the pure operators of the log search. Data is abstracted as follows:
  - An address or topic is a model value. Its bloom bits are a small set, chosen so that values collide (bloom false positives).
  - A log is identified by its position `<<height, tx, index>>`.
  - `GetLogsByFilters(crit, lastToHeight, latest)` returns the heights it fetches, the logs it returns, and the height it reports.
  - Whether a block fetch fails is an answer of the consensus client:
    - `FetchMustFail`: height 0, or above the head.
    - `FetchMayFail`: retries exhausted.
  - `MissingReceipts` are receipts `GetReceipt` cannot find. `FindLogsByBloom` skips them as the code does. It is empty in every configuration except the one for finding 6, where the first receipt of block 2 is missing.
- **`LogQuery`** models the stateless `GetLogs` handler over a growing chain (`Commit`). It checks the two-phase search against the reference `MatchingLogs`.
- **`FilterAPI`** models the registry and composes `LogFetcher`.
  - Variables:
    - `latest`, `nextFilterID` and `filters`;
    - `ticker` (ticks left, and a pending tick);
    - history variables used only by properties: `sinceAccess`, `delivered`, `blocksSeen` and `op` (the last step).
  - Actions:
    - one per handler;
    - `timeoutLoop`;
    - `Tick`: the clock advances, timers and the ticker count down, and the ticker's channel fills;
    - `TimerFire(id)`: a due timer fires into `deadline.C`;
    - `Commit`.
  - Time is discrete and counted relative to now, so the state space is finite without a clock bound.
  - `ResetDeadline` is the code's `if !Stop() { <-C }; Reset(timeout)`. Under the buffered timer channel of the Go releases this code targets, `Stop` returns false exactly when the timer has fired, and the drain then takes the fire out of the channel.
  - `getBlockHeadersAfter` is the RECURSIVE `PageHeaders` over `Events`. `Events` is the consensus client's paged stream, modelled from the spec:
    - ascending pages of `PageSize`;
    - `more` and `newest`;
    - an empty cursor returns the newest page.
- **`PendingNonces`** models the keeper's two maps.
  - `sort.Find` is modelled as the binary search it is (`FindLoop`, 0-based as in Go), so a slice that is not sorted gives the answer the code would give.
  - A tx key is a hash, so it fixes the address, nonce and priority: the constant `Tx`.
  - `IncrementNonce` is the chain executing the next transaction of an address.
  - `PendingNonces` refines **`AbstractPending`**: per address, each nonce is a slot held by at most one key. The refinement mapping `PendingSlots` reads the slot of nonce n off the sorted slice.
  - The history variable `lastOp` (the call a step answers) is in both specifications, so a step is compared with the call it serves. Without it, a removal of the wrong key would look like a legal `Drop` of another key.
- **`ReceiptCodec`** holds the codec as operators. It translates the generated code branch by branch:
  - the varint loop with its shift bound, checked before the end-of-input check;
  - `int32(wire >> 3)` and the field-number and wire-type checks;
  - the length checks (`postIndex < 0`, `postIndex > l`);
  - `skipReceipt` with group depth;
  - the backward fill of `MarshalToSizedBuffer`: fields last to first, repeated elements last to first, a nested Log before its length.
  - The loops (`WriteDown` over the written fields and repeated elements, `PutVarint`, `UnmarshalFrom`) bind the writer or decoder state to a value at each iteration. The result is the same, but TLC evaluates every iteration once instead of re-evaluating the ones before it, which keeps the evaluation shallow. The masks `&0x7f`, `|0x80` and `|1` are written as the arithmetic they perform on non-negative values (`Low7`, `OrOne`).
  - Integers keep their width scaled down: `WordBits` stands for 64 and `Int32Bits` for 32. Overflow, the sign of `int(length)` and the `int32` conversion all happen at the small width as they do at the real one.
- **`StateDB`** models `DBImpl` over cache layers.
  - A layer is a number with a `parent` link, and `cache[l]` holds the writes layer `l` has not written down. Layer 1 is the store under the base, and layer 2 is the base.
  - `CacheMultiStore.Write` (`Write1`) moves a layer's writes into its parent and empties it.
  - `snapshottedCtxs` keeps Go's slice semantics:
    - a slice is `[arr, len]` over `arrays`, and each backing array has a capacity;
    - `append` (`AppendOne`) writes in place while the array has room, and otherwise copies into a new array of doubled capacity (`GrowCap`, what `growslice` does below 256 elements);
    - `SetEVM` rebuilds the slice through `utils.Map`, which is not in the repository, so its capacity is either the length or the next power of two.
  - `Copy` puts a new layer over `ctx` and appends `ctx` to the slice. It copies `err` and the EVM.
  - `Finalize` either returns `err` and writes nothing, or writes `ctx` and then the slice elements from the last down to the second (`FinalizeOrder`). It leaves the base for runTx.
  - Assumptions about code that is not in the repository:
    - `NewDBImpl`'s call to `Snapshot` does to `ctx` what `Copy` does, so the base is the first snapshot;
    - the EVM's state writes are the action `Write`, into the DB's `ctx`;
    - runTx finalizes one DB and the transaction then ends (`TxOpen`).
  - `MaxWrites`, `MaxErrDBs` and `MaxEVMDBs` bound how many writes there are, how many DBs get `WithErr`, and how many get `SetEVM`. `SetEVM` is enabled only while fewer than `MaxEVMDBs` DBs have an EVM.
- `TypeOK` states only the shape of the state. No run checks it: a slice's length staying within its array's capacity is what Go's `append` guarantees, and no bug in `statedb.go` could break it.
- **`ReceiptDecode`** feeds `Receipt.Unmarshal` every byte string over a small alphabet, one byte at a time. It compares the result with a reference protobuf grammar written as splits of the input, and re-marshals what was decoded. `decoded` and `reencoded` are kept as variables so that each is computed once per state.
- **`ReceiptRoundTrip`** builds receipts field by field and checks that `Marshal` followed by `Unmarshal` gives the receipt back.
- **`LoadtestClient`** models `EvmTxClient` shared by several goroutines, composed with the node's keeper through `INSTANCE PendingNonces`.
  - `nextNonce` is one step: the read lock only excludes `ResetNonce`, and the add is atomic.
  - `ResetNonce` is two steps, `ResetNonceRead` (Lock, `PendingNonceAt`) and `ResetNonceStore` (Store, Unlock), because the RPC runs under the lock while other goroutines keep sending.
  - `SendEvmTx` may lose the request, or the node may take the transaction and the answer be lost. Otherwise the node accepts exactly when the keeper takes the key; a tie at one gas price is left for the mempool to reject.
  - `Execute` and `Evict` are the chain executing the next pending transaction and the mempool dropping it.
  - The goroutines that call the client are not in the repository, so any idle goroutine may call any method at any time.
- **`EthReplay`** models `Replay` with crashes.
  - Variables: `store` is the committed application state (replayed height, replay initial height, the executed (Sei height, Ethereum block) pairs, the `ReplaySeenAddr` marks and the seeding count per account); `work` is the state `FinalizeBlock` builds; `phase`, `h`, `initHeight` and `dbOpen` are the process's; `ethHead` is the Ethereum node's latest block.
  - Actions: `Replay` (lines 23-42), `ReplayTurn` (the loop head: sleep, or fetch and `FinalizeBlock`), `CommitBlock` (verification, `Commit`, `h++`), `Crash` (a panic or a kill: only `store` survives), `EthGrows`.
  - `PrepareReplayedAddr` is an operator on the application state; `FinalizeBlock` folds it over the accounts the block touches (`FoldSet`), then records the replayed height.
  - The App methods are not in the repository. The model assumes what the EVM module does in them: InitChain stores the replay initial height and opens the Ethereum database, and FinalizeBlock at height `h` records `h` as the replayed height. A verification mismatch panics and is a `Crash`; the model does not decide when one happens.
- **`MCChain`** is a 3-block chain with deliberately colliding blooms. Its logs exercise address-only, topic-position and wildcard matches.
- **`MC_LogQuery`** and **`MC_FilterAPI`** instantiate the modules for TLC.
- **`MC_ReceiptCodec`** and **`MC_Keeper`** join harnesses as a disjoint sum: a behaviour's first step picks one, and the others stay at their initial state. `MC_ReceiptCodec` joins `ReceiptDecode` and `ReceiptRoundTrip`. `MC_Keeper` joins the keeper index driven by the mempool (`PendingNonces`), the loadtest client with its own node (`LoadtestClient`) and the ETH replay (`EthReplay`). In `MC_Keeper` the variable `harness` records the choice, and the client's node has its own copy of the keeper's variables (`cPendingTxs`, ...). The state count is the sum of the harnesses' counts.

## Runs

| Run | Checks | Shows |
|---|---|---|
| `getlogs_exact` (pass) | `GetLogsIsExact` | GetLogs, and a scan resumed from any cursor, returns exactly the committed matching logs of the range. The bloom phase loses nothing and the exact phase removes every collision. |
| `filter_safety` (pass) | `TypeOK`, `DrainNeverBlocks`, `BlockFeedContiguous`, `NoEarlyExpiry`, `ChangesCatchUp`, `AbandonedFilterIsRemoved` | The drain under `filtersMu` never blocks. The sweep never deletes a filter used within `Timeout` ticks. A block filter delivers consecutive heights. After every successful poll a logs filter's client holds every committed matching log, through failed fetches, early returns, `GetFilterLogs` calls and new blocks. A filter that is no longer called is eventually deleted. |
| `toblock_latest` (violation) | `ChangesCatchUp` | With `toBlock: "latest"`, GetFilterChanges never returns a log (finding 1). |
| `toblock_future` (violation) | `ChangesCatchUp` | With `toBlock` above the head, logs committed later at heights up to `toBlock` are skipped (finding 2). |
| `cursor_rewind` (violation) | `CursorOnlyMovesForward` | `GetFilterLogs` moves the cursor back by one, so the next poll redelivers a height (finding 3). |
| `keeper` (pass) | `PendingIndexConsistent`, `NextNonceIsFirstGap`, `ImplementsAbstractPending`, `AckedTxsKept`, `NoReissueBetweenReads`, `ReplayFollowsEth`, `SeededOnce`, `ReplayCatchesUp` | Keeper harness: in any order of admissions, replacements, duplicates and removals, the two maps agree and stay sorted. `CalculateNextNonce` returns the first free nonce. Every step is a step of the abstract slot table: a tie never replaces, a replaced key's removal frees nothing, and a removed slot's nonce is free again. Client harness: between two `PendingNonceAt` reads no nonce is handed out twice. A transaction acknowledged as sent stays pending until it is executed, even when a reset hands its nonce out again to another goroutine. Replay harness: through up to two crashes at any point, committed Sei height `i` holds Ethereum block `ReplayInitialHeight + i`, no block is skipped or executed twice, every trie account is seeded once, and a process that stays up replays every block the Ethereum node has. |
| `receipt_codec` (pass) | `DecodeMatchesWireGrammar`, `DecodedReencodes`, `MarshalRoundTrip` | On every input of up to 4 bytes over the alphabet, `Unmarshal` accepts exactly the well-formed ones, and whatever it decodes marshals without a panic back into bytes that decode to the same receipt. `Marshal` writes exactly `Size` bytes without indexing outside its buffer, and `Unmarshal` gives every built receipt back, including empty Logs, two-byte lengths and three-byte varints. |
| `statedb_finalize` (pass) | `SnapshotsFollowParents`, `FinalizeCommitsItsView` | Over every copy tree of up to four DBs, with writes, an error and `SetEVM` at any point, every DB's snapshot slice lists the contexts below its `ctx`, from the base up: below nine DBs, `Copy`'s append and `SetEVM`'s rebuild keep it. A successful `Finalize` moves exactly what the DB sees into the base. It empties every cache between the DB's `ctx` and the base, following the stores' parent links, and changes no other store. A DB with `err` set writes nothing. |
| `statedb_copy_alias` (violation) | `SnapshotsFollowParents` | After eight `Copy` calls, a DB's snapshot slice names the cache of its parent's sibling instead of its parent's (finding 7). |
| `failed_poll_keepalive` (violation) | `FailingFilterExpires` | A filter whose every call fails is never swept, because the deadline is re-armed before the fetch (finding 4). |
| `getlogs_genesis` (violation) | `CommittedQueryAnswerable` | A query with no address, no topic and no `fromBlock` fails on every call (finding 5). |
| `getlogs_missing_receipt` (violation) | `GetLogsIsExact` | With one receipt missing from the store, a scan succeeds but leaves out that receipt's logs (finding 6). |

## Findings

1. **`filter.go:162`.** `toBlock` is compared raw with the cursor. The tag `"latest"` is -2 (`rpc.LatestBlockNumber`), so the early return fires on every poll.
2. **`filter.go:170`.** The cursor is set to the resolved `toBlock + 1` even when `toBlock` is not yet committed. Later polls take the early return, and logs of the heights committed afterwards are never reported.
3. **`filter.go:201`.** `GetFilterLogs` stores `end`, where `GetFilterChanges` stores `end + 1`. The spec's invariant that the cursor only moves forward does not hold.
4. **`filter.go:144`.** The deadline is stopped, drained and reset before the fetch. A call that then fails has still re-armed the deadline, while the spec says the deadline is reset only on success. A client that only gets errors keeps its filter forever. With the reset moved after the fetch, `FailingFilterExpires` holds on the same configuration.
5. **`filter.go:282`.** Without `fromBlock` the scan starts at height 0. A criterion with no address and no topic matches the empty bloom there, so `blockWithRetry(0)` is called, and it always fails: the consensus client has no block 0. The query errors on every call. With the default start at height 1, `CommittedQueryAnswerable` holds.
6. **`filter.go:333`.** `FindLogsByBloom` logs a receipt that `GetReceipt` cannot find and skips it. The scan succeeds with part of the block's logs, and `GetFilterChanges` advances the cursor past the height. The spec counts a receipt that cannot be retrieved as a FetchError: no partial logs and no cursor advance.

7. **`statedb.go:101`.** `Copy` builds the copy's `snapshottedCtxs` with `append(s.snapshottedCtxs, s.ctx)`, which writes in place when the backing array has room.
   - How the slot gets overwritten:
     1. The first five DBs (`NewDBImpl` and four copies down a chain) reach a slice of length 5 in an array of capacity 8.
     2. Two copies of that fifth DB then share one array, with length 6.
     3. A copy of each of the two writes slot 7 of that shared array, so the second copy overwrites what the first wrote.
   - The first of these copies then lists, where its parent's cache should be, the cache of its parent's sibling.
   - Effect on `Finalize`: the comment says it writes "all snapshotted caches" down to the base. On that DB it writes the uncommitted cache of the other copy and leaves its own parent's writes behind.
   - No caller in this repository calls `Copy`, so the reachable sequence depends on the EVM's use of `StateDB.Copy`.

## Bounds

MC_FilterAPI:
- Why the bounds are enough:
  - 2 filters are enough for one filter to be swept while the other is polled.
  - `Timeout = 2` separates "fired" from "about to fire".
  - `PageSize = 1` makes every catch-up of more than one block take several pages.
  - A head growing 1 → 3 gives polls before and after new blocks.
- Criteria:
  - an address filter without a range;
  - a blockHash filter on the uncommitted block 2, so its fetch fails until the block is committed;
  - an address+topic filter with `toBlock` 1.

MC_LogQuery enumerates, on a head growing 1 → 3:
- every address set;
- six topic lists: wildcard, single, alternatives, and positional in both orders;
- blockHash, from and to, each with absent, numeric and `latest` values.

MC_Keeper, keeper harness:
- Sender A has three transactions for nonce 0: `k1` at priority 1, and `k2` and `k6` at priority 2 (a tie), plus one each for nonces 1 and 2. Sender B has one.
- Committed nonces go up to 2.
- This is enough for a replacement, a tie, removal of a replaced key, admission out of nonce order, and holes.

MC_ReceiptCodec, decode harness:
- `WordBits = 15` and `Int32Bits = 8` stand for 64 and 32. A varint is then at most 3 bytes, and its last byte keeps one bit, as the tenth byte does at 64 bits.
- Inputs are every string of up to 4 bytes over 14 byte values. These were chosen as the tags of each wire type of declared and unknown fields, a zero field number, an end-group tag, continuation bytes and 255. Every error path of `Unmarshal` and `skipReceipt` is reached, and so are negative lengths after the `int` conversion.

MC_ReceiptCodec, round-trip harness:
- Varints of one, two and three bytes (5, 200, 32767), and strings of one and two bytes plus one of 130 bytes, whose length takes two bytes.
- Up to two non-zero fields per receipt, with Logs holding an empty Log and a full one.

MC_StateDB:
- Four DBs, two writes, one `WithErr` and one `SetEVM`, at any point of any copy tree.
- This gives `Finalize` slices of up to four contexts, so it writes three caches below `ctx` and the order matters.
- It also covers a failed `Finalize`, and `SetEVM` with both capacities.
- With four DBs every backing array that two copies share is full. The alias run shows the first size where one is not.

MC_StateDB_alias:
- Nine DBs, the fewest for the aliasing: doubling gives capacity 8 at the fifth DB.
- No writes, no errors and no `SetEVM` (`MaxEVMDBs = 0` disables it). `SetEVM` only gives a DB a fresh array, so it can only remove sharing.
- The invariant fails at depth 9 (eight `Copy` steps).

MC_Keeper, client harness:
- Two goroutines, nonces 0..2, and two reservations per nonce.
- This is enough for a goroutine to hold a reservation across another's reset, for that nonce to be handed out again and sent, and for both copies to reach the node in either order.

MC_Keeper, replay harness:
- `ReplayInitialHeight = 2`, and the Ethereum node grows from block 2 to 5, so three blocks are replayed and the loop sleeps between them.
- Two crashes, at any point: before InitChain is committed (height 1 again), between `FinalizeBlock` and `Commit` (the block executed twice, once lost), and after a commit (the restart path through `OpenEthDatabase`).
- The trie holds `r1`, not `r2`, and blocks 3 and 4 touch both, so an account is met again by a second block and by a re-executed one.

## Fairness

Fairness is weak, and only on what the runtime guarantees:
- the clock (`Tick`);
- a due timer firing (`TimerFire`);
- the sweep goroutine receiving its tick (`timeoutLoop`), which runs in an endless loop.

Clients and the chain get no fairness, because they may stop at any time. The codec, keeper, state-database and loadtest harnesses check safety only.

The replay harness has weak fairness on the steps of the replay loop (`ReplayTurn`, `CommitBlock`): `Replay` runs them in one goroutine that never returns while the process is up. Restarts and the Ethereum node get none, so `ReplayCatchesUp` is stated for behaviours in which the process eventually stays up, and only for blocks the node has.

## Not modelled

- In `statedb.go`:
  - `WithCtx` is a test-only setter of an arbitrary context.
  - `logs` and `snapshottedLogs` are built by the same `append` as the contexts, but only methods outside the repository read them.
  - The transient maps are shared by `Copy`, and only methods outside the repository use them.
  - `simulation` DBs panic in `Finalize` and are never finalized.

- `utils.go`: `hydrateTransaction` is field copying and `getBlockNumber` resolves tags through RPC calls. Neither has state, and neither is on the filter path.
- The oracle precompile (`oracle.go`) is read-only ABI packing of keeper queries. Its double call of `getExchangeRates` in `Run` only costs gas, which no model tracks.
- From `eth_replay.go`: `BlockTest`, a one-shot driver over a fixed list of blocks with no restart (it computes `h` from the replayed height and then ignores it), and `encodeTx`, a conversion of a transaction to bytes. The verification helpers it calls (`VerifyBalance`, `VerifyTxResult`, in `src/unnamed/part_001`) compare with the Ethereum node; a mismatch is a panic, which the model's `Crash` covers.
- `getReplayBlockCtx` fetches the block context from Ethereum block `ctx.BlockHeight() + EthDataEarliestBlock`, while `Replay` takes the transactions of block `h + initHeight`. They agree only if InitChain stores `EthDataEarliestBlock` as the initial height; that code is not in the repository.
- `query.pb.go` holds message declarations and getters only. The receipt codec's getters and descriptor registration are not modelled.
- `Snapshot` and `RevertToSnapshot` of the StateDB are not in `src/` and not described by the spec. Only the initial `Snapshot` of `NewDBImpl` is modelled, as an assumption (see `StateDB`). With them the slice would alias after far fewer calls, since `RevertToSnapshot` shortens a slice but keeps its backing array.
- The keeper's deferred-info map (`AppendToEvmTxDeferredInfo`, `GetEVMTxDeferredInfo`, `ClearEVMTxDeferredInfo`), `GetVMBlockContext` and `GetHashFn`. Their callers (the block's tx execution and EndBlock) are not in the repository, and the spec does not describe them, so a model could only restate the code.
- From the loadtest client: the contract-binding bodies of the `Generate*Tx` methods beyond their nonce, and the receipt helpers. The client talks to several nodes (`GetNextEthClient` picks one at random); the model has one.
- Scripts, the hardhat config, CLI fragments and the Uniswap library. That library is pure arithmetic and hashing, and the factory whose `CREATE2` address `pairFor` must match is not in the repository.
- A block filter's first poll returns only the newest page (`filter.go:225`). Neither the code nor the spec says which blocks it should report, so no property judges it.

## Plan for later sittings

1. An abstract "filter delivery" specification with `FilterAPI` shown to refine it for the criteria on which the code is correct.
2. A model of `snapshottedLogs`, if the log methods that read it come into the repository.
3. A node model with several RPC endpoints for the loadtest client, if their mempool behaviour can be grounded in the repository.
