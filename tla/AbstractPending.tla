--------------------------- MODULE AbstractPending ---------------------------
(***************************************************************************)
(* What the keeper's pending-nonce index promises the mempool and RPC,     *)
(* with no slices, no sort and no reverse index: per address, each nonce  *)
(* is a slot held by at most one transaction key.                          *)
(*   - Admitting a key fills its empty slot, or takes the slot from a key  *)
(*     of lower priority; a key already held, or of no higher priority     *)
(*     than the holder, changes nothing.                                   *)
(*   - Removing a key frees the slot it holds; a key that holds no slot    *)
(*     (never admitted, replaced, already removed) changes nothing.        *)
(*   - The committed nonce of an address only grows.                       *)
(* lastOp records the call each step answers, so that a step is judged   *)
(* against the key it was asked about.                                     *)
(***************************************************************************)
EXTENDS Integers

CONSTANTS Addrs, TxKeys, Tx, MaxNonce, NoKey

ASSUME NoKey \notin TxKeys

Nonces == { Tx[k].nonce : k \in TxKeys }

VARIABLES
    slots,   \* slots[a][n]: the key holding nonce n of address a, or NoKey
    nonce,   \* the committed nonce of each address
    lastOp   \* the last call: [op |-> "add" | "remove" | "commit", arg |-> key or address]

vars == <<slots, nonce, lastOp>>

Held == { slots[a][n] : a \in Addrs, n \in Nonces } \ {NoKey}

Wins(k) ==
    LET holder == slots[Tx[k].addr][Tx[k].nonce] IN
    /\ k \notin Held
    /\ holder = NoKey \/ Tx[holder].priority < Tx[k].priority

Admit(k) ==
    /\ slots' = IF Wins(k) THEN [slots EXCEPT ![Tx[k].addr][Tx[k].nonce] = k] ELSE slots
    /\ lastOp' = [op |-> "add", arg |-> k]
    /\ UNCHANGED nonce

Drop(k) ==
    /\ slots' = IF k \in Held THEN [slots EXCEPT ![Tx[k].addr][Tx[k].nonce] = NoKey] ELSE slots
    /\ lastOp' = [op |-> "remove", arg |-> k]
    /\ UNCHANGED nonce

Commit(a) ==
    /\ nonce[a] < MaxNonce
    /\ nonce' = [nonce EXCEPT ![a] = @ + 1]
    /\ lastOp' = [op |-> "commit", arg |-> a]
    /\ UNCHANGED slots

Init ==
    /\ slots = [a \in Addrs |-> [n \in Nonces |-> NoKey]]
    /\ nonce = [a \in Addrs |-> 0]
    /\ lastOp = [op |-> "none", arg |-> NoKey]

Next ==
    \/ \E k \in TxKeys : Admit(k) \/ Drop(k)
    \/ \E a \in Addrs : Commit(a)

Spec == Init /\ [][Next]_vars

=============================================================================
