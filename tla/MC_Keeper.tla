------------------------------ MODULE MC_Keeper ------------------------------
(***************************************************************************)
(* The EVM keeper's harnesses in one model.  A behaviour is the keeper's *)
(* pending-nonce index driven by the mempool (PendingNonces, two          *)
(* senders), the loadtest client driving its own node (LoadtestClient,    *)
(* one account), or the ETH replay of a node in replay mode (EthReplay):  *)
(* the first step chooses which, and the others stay at their initial     *)
(* state.  The client's node has its own copy of the keeper's variables. *)
(*                                                                         *)
(* Keeper harness: A has two transactions competing for nonce 0 (k2 pays  *)
(* more than k1, k6 pays the same as k2) and one each for nonces 1 and 2, *)
(* so replacements, ties, holes and out-of-order admission all happen;   *)
(* B has one.                                                             *)
(*                                                                         *)
(* Replay harness: the trie holds r1, not r2; Ethereum blocks 3 and 4     *)
(* touch r1, so a second block and a re-execution after a crash both     *)
(* meet an account already seeded.                                        *)
(***************************************************************************)
EXTENDS Naturals, TLC

CONSTANTS A, B, k1, k2, k3, k4, k5, k6, NoKey,
          KeeperMaxNonce,
          Workers, Account, ClientMaxNonce, MaxCopies, NoWorker,
          r1, r2, ReplayInitialHeight, MaxEthHeight, MaxCrashes

VARIABLES pendingTxs, keyToNonce, nonce, lastOp,
          counter, writer, pc, held, readVal, copies,
          cPendingTxs, cKeyToNonce, cNonce, cLastOp,
          issued, acked, executed,
          ethHead, store, work, phase, h, initHeight, dbOpen, crashes,
          harness   \* which harness this behaviour runs: "none" before its first step

MCAddrs == {A, B}

MCTxKeys == {k1, k2, k3, k4, k5, k6}

MCTx == (k1 :> [addr |-> A, nonce |-> 0, priority |-> 1])
     @@ (k2 :> [addr |-> A, nonce |-> 0, priority |-> 2])
     @@ (k3 :> [addr |-> A, nonce |-> 1, priority |-> 1])
     @@ (k4 :> [addr |-> A, nonce |-> 2, priority |-> 1])
     @@ (k5 :> [addr |-> B, nonce |-> 0, priority |-> 1])
     @@ (k6 :> [addr |-> A, nonce |-> 0, priority |-> 2])

K == INSTANCE PendingNonces
        WITH Addrs <- MCAddrs, TxKeys <- MCTxKeys, Tx <- MCTx, MaxNonce <- KeeperMaxNonce

L == INSTANCE LoadtestClient
        WITH MaxNonce <- ClientMaxNonce, pendingTxs <- cPendingTxs,
             keyToNonce <- cKeyToNonce, nonce <- cNonce, lastOp <- cLastOp

ReplayTouches == [n \in 0..MaxEthHeight |-> IF n \in {3, 4} THEN {r1, r2} ELSE {}]

R == INSTANCE EthReplay WITH Addrs <- {r1, r2}, InTrie <- {r1}, Touches <- ReplayTouches

keeperVars == <<pendingTxs, keyToNonce, nonce, lastOp>>
clientVars == <<counter, writer, pc, held, readVal, copies,
                cPendingTxs, cKeyToNonce, cNonce, cLastOp, issued, acked, executed>>
replayVars == <<ethHead, store, work, phase, h, initHeight, dbOpen, crashes>>
allVars == <<keeperVars, clientVars, replayVars, harness>>

Init == K!Init /\ L!Init /\ R!Init /\ harness = "none"

Run(x) == harness \in {"none", x} /\ harness' = x

Next ==
    \/ Run("keeper") /\ K!Next /\ UNCHANGED <<clientVars, replayVars>>
    \/ Run("client") /\ L!Next /\ UNCHANGED <<keeperVars, replayVars>>
    \/ Run("replay") /\ R!Next /\ UNCHANGED <<keeperVars, clientVars>>

\* R!Fairness: the replay loop's goroutine runs while the process is up.
Spec == Init /\ [][Next]_allVars
        /\ WF_allVars(Run("replay") /\ (R!ReplayTurn \/ R!CommitBlock)
                      /\ UNCHANGED <<keeperVars, clientVars>>)

PendingIndexConsistent == K!PendingIndexConsistent
NextNonceIsFirstGap == K!NextNonceIsFirstGap
\* K!ImplementsAbstractPending, with the steps of the client harness (which
\* leave every slot alone) recognised before the abstract Next is tried.
ImplementsAbstractPending ==
    K!Abstract!Init /\ [][UNCHANGED keeperVars \/ K!Abstract!Next]_(K!Abstract!vars)
AckedTxsKept == L!AckedTxsKept
NoReissueBetweenReads == L!NoReissueBetweenReads
ReplayFollowsEth == R!ReplayFollowsEth
SeededOnce == R!SeededOnce
ReplayCatchesUp == R!ReplayCatchesUp
=============================================================================
