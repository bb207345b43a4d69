------------------------------- MODULE EthReplay -------------------------------
(***************************************************************************)
(* ETH replay (src/app/eth_replay.go, Replay): the node re-executes the   *)
(* blocks of an Ethereum chain, Sei height h holding Ethereum block       *)
(* h + initHeight, with the EVM keeper's replay helpers                   *)
(* (src/x/evm/keeper/keeper.go, PrepareReplayedAddr).                     *)
(*                                                                         *)
(* The process can crash at any point: every RPC error and every failed  *)
(* verification panics, and the process may be killed.  What survives is *)
(* the committed application state (store); FinalizeBlock builds the     *)
(* next state (work), and only Commit makes it durable.  A restart calls *)
(* Replay again, which resumes from the committed replayed height.        *)
(*                                                                         *)
(* The App methods are not in this repository; the model takes from the  *)
(* EVM module what Replay relies on: InitChain stores the replay initial  *)
(* height and opens the Ethereum database, FinalizeBlock at height h      *)
(* records h as the replayed height, and the replayed transactions call   *)
(* PrepareReplayedAddr on the accounts they touch.                        *)
(***************************************************************************)
EXTENDS Integers, Sequences, FiniteSetsExt

CONSTANTS
    Addrs,                \* the accounts of the Ethereum chain
    InTrie,               \* the accounts the opened Ethereum state trie holds
    Touches,              \* Touches[n]: the accounts the txs of Ethereum block n touch
    ReplayInitialHeight,  \* the Ethereum height InitChain stores
    MaxEthHeight,         \* bound on the Ethereum node's latest block
    MaxCrashes            \* bound on the crashes of the replaying process

VARIABLES
    ethHead,      \* EthClient.BlockNumber(): the Ethereum node's latest block
    store,        \* the committed application state: what a crash leaves
    work,         \* the application state FinalizeBlock builds and Commit persists
    phase,        \* "down", "loop" (top of the for loop), "finalized"
    h,            \* Replay's h: the Sei height to replay next
    initHeight,   \* Replay's initHeight
    dbOpen,       \* the keeper's Ethereum database (k.Trie, k.DB) is open
    crashes

vars == <<ethHead, store, work, phase, h, initHeight, dbOpen, crashes>>

\* The application state Replay reads and writes: the replayed height and
\* replay initial height of the EVM module, the (Sei height, Ethereum
\* block) pairs FinalizeBlock executed, the ReplaySeenAddr store and how
\* often each account was seeded from the trie.
AppState == [replayed : Nat, initHeight : Nat, applied : Seq(Nat \X Nat),
             seen : SUBSET Addrs, credits : [Addrs -> Nat]]

\* A fresh home: nothing committed, GetReplayInitialHeight returns 0.
Empty == [replayed |-> 0, initHeight |-> 0, applied |-> <<>>, seen |-> {},
          credits |-> [a \in Addrs |-> 0]]

TypeOK ==
    /\ ethHead \in 0..MaxEthHeight
    /\ store \in AppState /\ work \in AppState
    /\ phase \in {"down", "loop", "finalized"}
    /\ h \in Nat /\ initHeight \in Nat /\ dbOpen \in BOOLEAN
    /\ crashes \in 0..MaxCrashes

Init ==
    /\ ethHead = ReplayInitialHeight
    /\ store = Empty /\ work = Empty
    /\ phase = "down" /\ h = 0 /\ initHeight = 0
    /\ dbOpen = FALSE /\ crashes = 0

-----------------------------------------------------------------------------
\* PrepareReplayedAddr with the seen check dropped.
PrepareReplayedAddrNoSeen(s, a) ==
    IF a \notin InTrie THEN s
    ELSE [s EXCEPT !.seen = @ \cup {a}, !.credits[a] = @ + 1]

\* PrepareReplayedAddr: an account already in ReplaySeenAddr, or not in
\* the trie, is left alone; else it is marked seen and its balance, nonce
\* and code are copied from the trie (a.Balance != big.NewInt(0) compares
\* pointers and always holds, so the coins are always added).
PrepareReplayedAddr(s, a) ==
    IF a \in s.seen \/ a \notin InTrie THEN s
    ELSE [s EXCEPT !.seen = @ \cup {a}, !.credits[a] = @ + 1]

\* FinalizeBlock of Ethereum block n at Sei height height: its txs seed
\* the accounts they touch, and the EVM module records the replayed height.
FinalizeBlock(s, height, n) ==
    LET seeded == FoldSet(LAMBDA a, t : PrepareReplayedAddr(t, a), s, Touches[n])
    IN  [seeded EXCEPT !.replayed = height, !.applied = Append(@, <<height, n>>)]

\* Replay without the second read of the initial height after InitChain.
ReplayNoReread ==
    /\ phase = "down"
    /\ h' = store.replayed + 1
    /\ \/ store.replayed = 0
          /\ work' = [Empty EXCEPT !.initHeight = ReplayInitialHeight]
          /\ initHeight' = store.initHeight
       \/ store.replayed > 0 /\ work' = store /\ initHeight' = store.initHeight
    /\ dbOpen' = TRUE
    /\ phase' = "loop"
    /\ UNCHANGED <<ethHead, store, crashes>>

\* Replay, up to its loop: h and initHeight from the committed state (the
\* check context).  At height 1 InitChain runs, which stores the initial
\* height and opens the Ethereum database, and initHeight is read again
\* from the deliver context; otherwise the process starts on the
\* committed state and OpenEthDatabase opens the database.
Replay ==
    /\ phase = "down"
    /\ h' = store.replayed + 1
    /\ \/ store.replayed = 0
          /\ work' = [Empty EXCEPT !.initHeight = ReplayInitialHeight]
          /\ initHeight' = work'.initHeight
       \/ store.replayed > 0 /\ work' = store /\ initHeight' = store.initHeight
    /\ dbOpen' = TRUE
    /\ phase' = "loop"
    /\ UNCHANGED <<ethHead, store, crashes>>

\* The loop's test off by one: it sleeps while the node has block
\* h + initHeight as its latest.
ReplayTurnLate ==
    LET n == h + initHeight IN
    /\ phase = "loop"
    /\ \/ ethHead <= n /\ UNCHANGED vars
       \/ ethHead > n /\ dbOpen
          /\ work' = FinalizeBlock(work, h, n)
          /\ phase' = "finalized"
          /\ UNCHANGED <<ethHead, store, h, initHeight, dbOpen, crashes>>

\* One turn of the loop up to FinalizeBlock.  While the Ethereum node
\* lacks block h + initHeight it sleeps a minute and asks again; else the
\* block is fetched and executed at Sei height h.  PrepareReplayedAddr
\* reads the trie, so the database must be open (a nil Trie panics).
ReplayTurn ==
    LET n == h + initHeight IN
    /\ phase = "loop"
    /\ \/ ethHead < n /\ UNCHANGED vars
       \/ ethHead >= n /\ dbOpen
          /\ work' = FinalizeBlock(work, h, n)
          /\ phase' = "finalized"
          /\ UNCHANGED <<ethHead, store, h, initHeight, dbOpen, crashes>>

\* The rest of the turn: VerifyBalance and VerifyTxResult (a mismatch
\* panics, which is a Crash), Commit, h++.
CommitBlock ==
    /\ phase = "finalized"
    /\ store' = work
    /\ h' = h + 1
    /\ phase' = "loop"
    /\ UNCHANGED <<ethHead, work, initHeight, dbOpen, crashes>>

\* A panic or a kill: the process loses everything but the committed state.
Crash ==
    /\ phase # "down" /\ crashes < MaxCrashes
    /\ phase' = "down" /\ crashes' = crashes + 1
    /\ work' = store /\ h' = 0 /\ initHeight' = 0 /\ dbOpen' = FALSE
    /\ UNCHANGED <<ethHead, store>>

\* The Ethereum chain the node follows grows.
EthGrows ==
    /\ ethHead < MaxEthHeight
    /\ ethHead' = ethHead + 1
    /\ UNCHANGED <<store, work, phase, h, initHeight, dbOpen, crashes>>

Next == Replay \/ ReplayTurn \/ CommitBlock \/ Crash \/ EthGrows

\* The replay loop is one goroutine that runs while the process is up.
Fairness == WF_vars(ReplayTurn \/ CommitBlock)

Spec == Init /\ [][Next]_vars /\ Fairness

-----------------------------------------------------------------------------
(***************************************************************************)
(* The committed chain is the Ethereum chain from the initial height on:  *)
(* Sei height i holds Ethereum block ReplayInitialHeight + i, for every   *)
(* height committed so far.  Replay resumes after a crash from the        *)
(* committed replayed height, and at height 1 reads initHeight before     *)
(* InitChain has stored it: no block may be skipped, applied twice, or   *)
(* taken at the wrong offset.                                             *)
(***************************************************************************)
ReplayFollowsEth ==
    /\ Len(store.applied) = store.replayed
    /\ \A i \in 1..Len(store.applied) : store.applied[i] = <<i, ReplayInitialHeight + i>>

(***************************************************************************)
(* Every account is seeded from the trie at most once, and exactly when a *)
(* committed block touched it and the trie holds it: a block re-executed *)
(* after a crash, or an account touched by several blocks, must not add  *)
(* its trie balance twice.  PrepareReplayedAddr relies on the             *)
(* ReplaySeenAddr mark, written in the same state as the coins.           *)
(***************************************************************************)
SeededOnce ==
    \A a \in Addrs :
        store.credits[a] =
            IF a \in InTrie /\ \E i \in 1..Len(store.applied) : a \in Touches[store.applied[i][2]]
            THEN 1 ELSE 0

(***************************************************************************)
(* If the process eventually stays up, it replays every block the         *)
(* Ethereum node has: the loop neither stalls on a block that exists nor  *)
(* stops after a restart.                                                  *)
(***************************************************************************)
ReplayCatchesUp ==
    <>[](phase # "down") =>
        \A n \in ReplayInitialHeight + 1..MaxEthHeight :
            ethHead >= n ~> store.replayed + ReplayInitialHeight >= n

=============================================================================
