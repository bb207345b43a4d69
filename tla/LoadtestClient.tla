---------------------------- MODULE LoadtestClient ----------------------------
(***************************************************************************)
(* The nonce handling of the loadtest EVM client (src/loadtest/evm.go),   *)
(* composed with the node it sends to.                                     *)
(*                                                                         *)
(* EvmTxClient.nonce is an atomic counter.  nextNonce reserves the next    *)
(* nonce under mtx.RLock; ResetNonce holds mtx.Lock while it asks a node   *)
(* for PendingNonceAt and Stores the answer.  Goroutines of the loadtest  *)
(* (not in this repository) generate a transaction (nextNonce), send it   *)
(* (SendEvmTx) and, after a failure, may call ResetNonce: any idle worker *)
(* may call any of them at any time.                                       *)
(*                                                                         *)
(* The node is the keeper's pending-nonce index (PendingNonces):          *)
(* PendingNonceAt is CalculateNextNonce(addr, true), and a transaction    *)
(* the RPC accepts goes through AddPendingNonce; the mempool rejects one  *)
(* the keeper did not take (a nonce held at equal gas price), and one     *)
(* below the committed nonce.  All transactions of the client carry       *)
(* txClient.gasPrice, so they have one priority.  A transaction key is a  *)
(* hash, and two reservations of one nonce sign different random values,  *)
(* so a key is <<nonce, copy>>: the copy-th reservation of that nonce.     *)
(***************************************************************************)
EXTENDS Integers, FiniteSets

CONSTANTS
    Workers,    \* goroutines of the loadtest sharing one EvmTxClient
    Account,    \* txClient.accountAddress
    MaxNonce,   \* bound on the client's counter and the committed nonce
    MaxCopies,  \* bound on the reservations of one nonce
    NoKey,      \* no transaction key
    NoWorker    \* mtx not write-locked

TxKeys == (0..MaxNonce - 1) \X (0..MaxCopies - 1)

ClientTx == [k \in TxKeys |-> [addr |-> Account, nonce |-> k[1], priority |-> 1]]

VARIABLES
    counter,     \* EvmTxClient.nonce
    writer,      \* the worker holding mtx.Lock, or NoWorker
    pc,          \* per worker: "idle", "signed" (holds a signed tx) or "resetting"
    held,        \* per worker: the key of the tx it signed
    readVal,     \* per worker: the PendingNonceAt answer ResetNonce holds
    copies,      \* per nonce: how often it was reserved (keys stay distinct)
    pendingTxs, keyToNonce, nonce, lastOp,   \* the node's keeper
    \* history variables, kept only to state properties:
    issued,      \* nonces reserved since the last PendingNonceAt read of ResetNonce
    acked,       \* keys whose SendEvmTx reported success (onSuccess ran)
    executed     \* keys the chain executed

client == <<counter, writer, pc, held, readVal, copies>>
node == <<pendingTxs, keyToNonce, nonce, lastOp>>
vars == <<client, node, issued, acked, executed>>

Node == INSTANCE PendingNonces WITH Addrs <- {Account}, Tx <- ClientTx

TypeOK ==
    /\ counter \in 0..MaxNonce
    /\ writer \in Workers \cup {NoWorker}
    /\ pc \in [Workers -> {"idle", "signed", "resetting"}]
    /\ held \in [Workers -> TxKeys \cup {NoKey}]
    /\ readVal \in [Workers -> 0..MaxNonce]
    /\ copies \in [0..MaxNonce - 1 -> 0..MaxCopies]
    /\ issued \subseteq 0..MaxNonce - 1
    /\ acked \subseteq TxKeys /\ executed \subseteq TxKeys

-----------------------------------------------------------------------------
\* NewEvmTxClient: txClient.nonce.Store(PendingNonceAt) of the first client.
Init ==
    /\ Node!Init
    /\ counter = Node!CalculateNextNonce(Account, TRUE)
    /\ writer = NoWorker
    /\ pc = [w \in Workers |-> "idle"]
    /\ held = [w \in Workers |-> NoKey]
    /\ readVal = [w \in Workers |-> 0]
    /\ copies = [n \in 0..MaxNonce - 1 |-> 0]
    /\ issued = {}
    /\ acked = {}
    /\ executed = {}

\* Faulty variant of nextNonce: the atomic add without the read lock.
nextNonceNoLock(w) ==
    /\ pc[w] = "idle"
    /\ counter < MaxNonce /\ copies[counter] < MaxCopies
    /\ held' = [held EXCEPT ![w] = <<counter, copies[counter]>>]
    /\ copies' = [copies EXCEPT ![counter] = @ + 1]
    /\ counter' = counter + 1
    /\ pc' = [pc EXCEPT ![w] = "signed"]
    /\ issued' = issued \cup {counter}
    /\ UNCHANGED <<writer, readVal, node, acked, executed>>

\* A Generate*Tx call: nextNonce (RLock; nonce.Add(1) - 1; RUnlock) and
\* sign.  The read lock only excludes ResetNonce, and the add is atomic,
\* so the reservation is one step.
nextNonce(w) ==
    /\ pc[w] = "idle"
    /\ writer = NoWorker
    /\ counter < MaxNonce /\ copies[counter] < MaxCopies
    /\ held' = [held EXCEPT ![w] = <<counter, copies[counter]>>]
    /\ copies' = [copies EXCEPT ![counter] = @ + 1]
    /\ counter' = counter + 1
    /\ pc' = [pc EXCEPT ![w] = "signed"]
    /\ issued' = issued \cup {counter}
    /\ UNCHANGED <<writer, readVal, node, acked, executed>>

\* SendEvmTx: SendTransaction to a node; onSuccess only when it returns no
\* error.  The request may be lost, or the node may take the transaction
\* and the answer be lost; otherwise the node answers for itself.
SendEvmTx(w) ==
    LET k == held[w] IN
    /\ pc[w] = "signed"
    /\ pc' = [pc EXCEPT ![w] = "idle"]
    /\ held' = [held EXCEPT ![w] = NoKey]
    /\ \/ /\ ClientTx[k].nonce < nonce[Account]          \* nonce too low
          /\ UNCHANGED <<node, acked>>
       \/ /\ ClientTx[k].nonce >= nonce[Account]
          /\ Node!AddPendingNonce(k)
          /\ acked' = IF k \in DOMAIN keyToNonce' THEN acked \cup {k} ELSE acked
       \/ /\ ClientTx[k].nonce >= nonce[Account]         \* taken, answer lost
          /\ Node!AddPendingNonce(k)
          /\ UNCHANGED acked
       \/ /\ UNCHANGED <<node, acked>>                   \* request lost
    /\ UNCHANGED <<counter, writer, readVal, copies, issued, executed>>

\* ResetNonce, up to its RPC: mtx.Lock (no reader inside nextNonce, no
\* writer), then PendingNonceAt.  A failed RPC returns with no change.
ResetNonceRead(w) ==
    /\ pc[w] = "idle"
    /\ writer = NoWorker
    /\ writer' = w
    /\ readVal' = [readVal EXCEPT ![w] = Node!CalculateNextNonce(Account, TRUE)]
    /\ pc' = [pc EXCEPT ![w] = "resetting"]
    /\ issued' = {}
    /\ UNCHANGED <<counter, held, copies, node, acked, executed>>

\* The rest of ResetNonce: nonce.Store(newNonce), and the deferred Unlock.
ResetNonceStore(w) ==
    /\ pc[w] = "resetting"
    /\ counter' = readVal[w]
    /\ writer' = NoWorker
    /\ pc' = [pc EXCEPT ![w] = "idle"]
    /\ readVal' = [readVal EXCEPT ![w] = 0]     \* a local of the call
    /\ UNCHANGED <<held, copies, node, issued, acked, executed>>

\* The chain executes the pending transaction at the committed nonce.
Execute ==
    \E i \in DOMAIN pendingTxs[Account] :
        /\ pendingTxs[Account][i].Nonce = nonce[Account]
        /\ Node!IncrementNonce(Account)
        /\ executed' = executed \cup {pendingTxs[Account][i].Key}
        /\ UNCHANGED <<client, issued, acked>>

\* The mempool drops an executed transaction from the keeper's index.
Evict(k) ==
    /\ k \in executed \cap DOMAIN keyToNonce
    /\ Node!RemovePendingNonce(k)
    /\ UNCHANGED <<client, issued, acked, executed>>

Next ==
    \/ \E w \in Workers : nextNonce(w) \/ SendEvmTx(w) \/ ResetNonceRead(w) \/ ResetNonceStore(w)
    \/ Execute
    \/ \E k \in TxKeys : Evict(k)

Spec == Init /\ [][Next]_vars

-----------------------------------------------------------------------------
(***************************************************************************)
(* What the RWMutex buys: between two PendingNonceAt reads of ResetNonce, *)
(* nextNonce never hands out a nonce twice.  A reservation made while a  *)
(* reset waits for the node would be overwritten by its Store and the     *)
(* nonce handed out again; the read lock keeps reservations out of that  *)
(* window.                                                                 *)
(***************************************************************************)
NoReissueBetweenReads ==
    [][ \A w \in Workers :
          pc[w] = "idle" /\ pc'[w] = "signed" => held'[w][1] \notin issued ]_vars

(***************************************************************************)
(* A transaction whose SendEvmTx reported success is never lost: it stays *)
(* pending in the node's index until the chain executes it.  This must    *)
(* hold although ResetNonce hands out again a nonce a worker still holds  *)
(* unsent (its Store overwrites reservations made before its Lock), so    *)
(* two transactions of the client may carry one nonce: the second to     *)
(* reach the node must be refused, not take the first one's place.        *)
(***************************************************************************)
AckedTxsKept ==
    \A k \in acked : k \in DOMAIN keyToNonce \/ k \in executed

=============================================================================
