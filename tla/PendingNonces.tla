---------------------------- MODULE PendingNonces ----------------------------
(***************************************************************************)
(* The pending-nonce index of the EVM keeper (src/x/evm/keeper/keeper.go): *)
(* pendingTxs, per address the mempool transactions sorted by nonce, and   *)
(* keyToNonce, from a transaction key (hash) to its address and nonce.    *)
(* The mempool calls AddPendingNonce when it admits a transaction and     *)
(* RemovePendingNonce when it drops one; RPC calls CalculateNextNonce.    *)
(* Every method holds nonceMx for its whole body, so each is one action.  *)
(*                                                                         *)
(* A transaction key is a hash of the transaction, so it fixes the        *)
(* address, nonce and priority: Tx gives them.  A missing map entry and an *)
(* empty slice read alike, so pendingTxs is total with <<>> for "absent". *)
(***************************************************************************)
EXTENDS Integers, Sequences, SequencesExt

CONSTANTS
    Addrs,     \* sender addresses
    TxKeys,    \* tmtypes.TxKey of the transactions the mempool sees
    Tx,        \* [TxKeys -> [addr : Addrs, nonce : Nat, priority : Int]]
    MaxNonce,  \* bound on the committed nonce of an address
    NoKey      \* no transaction key: an empty slot of AbstractPending

ASSUME Tx \in [TxKeys -> [addr : Addrs, nonce : Nat, priority : Int]]
ASSUME MaxNonce \in Nat

VARIABLES
    pendingTxs,   \* Keeper.pendingTxs: address -> sequence of PendingTx
    keyToNonce,   \* Keeper.keyToNonce: key -> AddressNoncePair
    nonce,        \* GetNonce: the committed nonce of each address
    lastOp        \* history: the last method called and its argument

state == <<pendingTxs, keyToNonce, nonce>>
vars == <<pendingTxs, keyToNonce, nonce, lastOp>>

Nonces == { Tx[k].nonce : k \in TxKeys }

PendingTx == [Key : TxKeys, Nonce : Nonces, Priority : { Tx[k].priority : k \in TxKeys }]

TypeOK ==
    /\ pendingTxs \in [Addrs -> Seq(PendingTx)]
    /\ DOMAIN keyToNonce \subseteq TxKeys
    /\ \A k \in DOMAIN keyToNonce : keyToNonce[k] \in [Address : Addrs, Nonce : Nonces]
    /\ nonce \in [Addrs -> 0..MaxNonce]

-----------------------------------------------------------------------------
\* uint64Cmp
uint64Cmp(a, b) == IF a < b THEN -1 ELSE IF a = b THEN 0 ELSE 1

(***************************************************************************)
(* sort.Find(len(pending), cmp) with cmp(i) = uint64Cmp(target,           *)
(* pending[i].Nonce): a binary search for the least index whose nonce is  *)
(* not below target; it is right only if pending is sorted by nonce.      *)
(* Indexes are 0-based as in Go.                                           *)
(***************************************************************************)
RECURSIVE FindLoop(_, _, _, _)
FindLoop(pending, target, i, j) ==
    IF i < j
    THEN LET h == (i + j) \div 2 IN
         IF uint64Cmp(target, pending[h + 1].Nonce) > 0
         THEN FindLoop(pending, target, h + 1, j)
         ELSE FindLoop(pending, target, i, h)
    ELSE i

SortFind(pending, target) ==
    LET i == FindLoop(pending, target, 0, Len(pending)) IN
    [index |-> i, found |-> i < Len(pending) /\ uint64Cmp(target, pending[i + 1].Nonce) = 0]

\* The loop of CalculateNextNonce: the first nonce from n on not found pending.
RECURSIVE NextGap(_, _)
NextGap(pending, n) ==
    IF SortFind(pending, n).found THEN NextGap(pending, n + 1) ELSE n

\* Faulty variant of CalculateNextNonce: the pending nonces are not consulted.
CalculateNextNonceCommitted(addr, includePending) == nonce[addr]

CalculateNextNonce(addr, includePending) ==
    IF ~includePending THEN nonce[addr] ELSE NextGap(pendingTxs[addr], nonce[addr])

-----------------------------------------------------------------------------
\* slices.SortStableFunc by Nonce; nonces of one address are distinct here,
\* so stability does not matter.
SortByNonce(s) == SortSeq(s, LAMBDA a, b : a.Nonce < b.Nonce)

AppendPending(s, p) == SortByNonce(Append(s, p))

\* The replace branch of AddPendingNonce: delete(k.keyToNonce, pendingTx.Key)
\* then k.keyToNonce[key] = ...; and a faulty variant that forgets the delete.
RekeyedIndexKeepOld(old, key, pair) == keyToNonce @@ (key :> pair)

RekeyedIndex(old, key, pair) ==
    [k \in (DOMAIN keyToNonce \ {old}) \cup {key} |-> IF k = key THEN pair ELSE keyToNonce[k]]

\* "if priority > pendingTx.Priority": a new tx takes a pending nonce only by
\* paying strictly more; and a faulty variant that lets a tie replace.
OutbidsOrTies(prio, holder) == prio >= holder.Priority

Outbids(prio, holder) == prio > holder.Priority

\* AddPendingNonce(key, addr, nonce, priority).
AddPendingNonce(key) ==
    LET addr    == Tx[key].addr
        n       == Tx[key].nonce
        prio    == Tx[key].priority
        pending == pendingTxs[addr]
        same    == { i \in DOMAIN pending : pending[i].Nonce = n }
        i       == SelectInSeq(pending, LAMBDA p : p.Nonce = n)
    IN
    /\ lastOp' = [op |-> "add", arg |-> key]
    /\ \/ /\ key \in DOMAIN keyToNonce          \* a duplicate: no-op
          /\ UNCHANGED state
       \/ /\ key \notin DOMAIN keyToNonce
          /\ same # {}
          /\ \/ /\ Outbids(prio, pending[i])     \* replace the pending tx in place
                /\ pendingTxs' = [pendingTxs EXCEPT ![addr][i].Priority = prio, ![addr][i].Key = key]
                /\ keyToNonce' = RekeyedIndex(pending[i].Key, key, [Address |-> addr, Nonce |-> n])
             \/ /\ ~Outbids(prio, pending[i])    \* left for the mempool to reject
                /\ UNCHANGED <<pendingTxs, keyToNonce>>
          /\ UNCHANGED nonce
       \/ /\ key \notin DOMAIN keyToNonce
          /\ same = {}
          /\ keyToNonce' = keyToNonce @@ (key :> [Address |-> addr, Nonce |-> n])
          /\ pendingTxs' = [pendingTxs EXCEPT ![addr] =
                               AppendPending(@, [Key |-> key, Nonce |-> n, Priority |-> prio])]
          /\ UNCHANGED nonce

\* RemovePendingNonce(key): a key unknown (or already replaced) is a no-op;
\* otherwise the key is dropped and the entry sort.Find locates is cut out,
\* leaving a hole in the nonces.  A miss only logs, after the key is dropped.
RemovePendingNonce(key) ==
    /\ lastOp' = [op |-> "remove", arg |-> key]
    /\ \/ /\ key \notin DOMAIN keyToNonce
          /\ UNCHANGED state
       \/ /\ key \in DOMAIN keyToNonce
          /\ LET tx  == keyToNonce[key]
                 pos == SortFind(pendingTxs[tx.Address], tx.Nonce)
             IN /\ keyToNonce' = [k \in DOMAIN keyToNonce \ {key} |-> keyToNonce[k]]
                /\ pendingTxs' = IF pos.found
                                 THEN [pendingTxs EXCEPT ![tx.Address] = RemoveAt(@, pos.index + 1)]
                                 ELSE pendingTxs
          /\ UNCHANGED nonce

\* The chain executes the next transaction of addr (outside this keeper):
\* the committed nonce grows; the mempool removes the tx separately.
IncrementNonce(addr) ==
    /\ nonce[addr] < MaxNonce
    /\ nonce' = [nonce EXCEPT ![addr] = @ + 1]
    /\ lastOp' = [op |-> "commit", arg |-> addr]
    /\ UNCHANGED <<pendingTxs, keyToNonce>>

Init ==
    /\ pendingTxs = [a \in Addrs |-> <<>>]
    /\ keyToNonce = <<>>
    /\ nonce = [a \in Addrs |-> 0]
    /\ lastOp = [op |-> "none", arg |-> NoKey]

Next ==
    \/ \E k \in TxKeys : AddPendingNonce(k)
    \/ \E k \in TxKeys : RemovePendingNonce(k)
    \/ \E a \in Addrs : IncrementNonce(a)

Spec == Init /\ [][Next]_vars

-----------------------------------------------------------------------------
(***************************************************************************)
(* The two maps agree: every pending entry is indexed by its key with its *)
(* address and nonce, every indexed key has its pending entry, and each   *)
(* address's entries are sorted by strictly increasing nonce, which       *)
(* sort.Find in RemovePendingNonce and CalculateNextNonce relies on.      *)
(* Replacements, duplicates and removals of replaced keys must keep it.   *)
(***************************************************************************)
PendingIndexConsistent ==
    /\ \A a \in Addrs : \A i \in DOMAIN pendingTxs[a] :
         LET p == pendingTxs[a][i] IN
         /\ p.Key \in DOMAIN keyToNonce
         /\ keyToNonce[p.Key] = [Address |-> a, Nonce |-> p.Nonce]
         /\ i < Len(pendingTxs[a]) => p.Nonce < pendingTxs[a][i + 1].Nonce
    /\ \A k \in DOMAIN keyToNonce :
         \E i \in DOMAIN pendingTxs[keyToNonce[k].Address] :
            pendingTxs[keyToNonce[k].Address][i].Key = k

(***************************************************************************)
(* CalculateNextNonce(addr, true) is the least nonce, from the committed   *)
(* one on, that no pending transaction of addr holds: holes left by       *)
(* RemovePendingNonce are reused, and no pending nonce is handed out.     *)
(***************************************************************************)
NextNonceIsFirstGap ==
    \A a \in Addrs :
        LET held == { pendingTxs[a][i].Nonce : i \in DOMAIN pendingTxs[a] }
            gaps == { n \in nonce[a]..nonce[a] + Len(pendingTxs[a]) : n \notin held }
        IN  CalculateNextNonce(a, TRUE) = CHOOSE n \in gaps : \A m \in gaps : n <= m

-----------------------------------------------------------------------------
(***************************************************************************)
(* The refinement mapping to AbstractPending: the slot of nonce n of an    *)
(* address holds the key of its pending entry with that nonce.             *)
(***************************************************************************)
PendingSlots ==
    [a \in Addrs |-> [n \in Nonces |->
        LET i == SelectInSeq(pendingTxs[a], LAMBDA p : p.Nonce = n)
        IN  IF i > 0 THEN pendingTxs[a][i].Key ELSE NoKey]]

Abstract == INSTANCE AbstractPending WITH slots <- PendingSlots

(***************************************************************************)
(* The keeper implements the slot abstraction: every AddPendingNonce,      *)
(* RemovePendingNonce and nonce increment is an Admit, Drop or Commit of   *)
(* AbstractPending or changes no slot.  In particular a RemovePendingNonce *)
(* of a key that lost its slot to a replacement frees nothing, and a       *)
(* removal frees exactly the removed key's slot, which sort.Find must     *)
(* locate in the sorted slice.                                             *)
(***************************************************************************)
ImplementsAbstractPending == Abstract!Spec

=============================================================================
