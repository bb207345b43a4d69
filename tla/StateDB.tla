------------------------------- MODULE StateDB -------------------------------
(***************************************************************************)
(* The snapshotted contexts of the EVM state database                     *)
(* (src/x/evm/state/statedb.go).                                           *)
(*                                                                         *)
(* A DBImpl works on ctx, a cache multistore, and keeps in                *)
(* snapshottedCtxs the contexts below it, the first of them the context   *)
(* runTx passed to NewDBImpl (the base).  Finalize writes ctx into its    *)
(* parent and then every snapshotted cache but the base into its parent,  *)
(* last first, so that everything the DB wrote reaches the base; runTx    *)
(* writes the base itself.  Copy puts a new cache over ctx and appends    *)
(* ctx to the snapshot slice.                                              *)
(*                                                                         *)
(* A cache layer is a number: layer 1 is the store under the base, layer  *)
(* 2 the base, and layer k + 2 the cache the k-th DB was created with.    *)
(* cache[l] is what layer l holds and has not written to its parent, and  *)
(* a write is a number, 1 for the first: the EVM's writes through *)
(* the StateDB methods (not in this repository) are the action Write.     *)
(*                                                                         *)
(* Slices keep Go's meaning: a slice is a backing array and a length, and *)
(* append writes in place while the array has room, so two slices made   *)
(* by append from one slice share their array.                           *)
(***************************************************************************)
EXTENDS Integers, Sequences, FiniteSets

CONSTANTS
    MaxDBs,     \* bound on the DBImpl values: the one NewDBImpl made and its copies
    MaxWrites,  \* bound on the writes of the EVM, over all DBs
    MaxErrDBs,  \* WithErr only while fewer DBs than this have err set
    MaxEVMDBs   \* SetEVM only while fewer DBs than this have an EVM

Deliver == 1      \* the store runTx's cache context writes into
BaseLayer == 2    \* the ctx passed to NewDBImpl
Zero == 0         \* an unset element of a backing array: the zero sdk.Context

VARIABLES
    parent,   \* parent[l]: the store the cache layer l writes into
    cache,    \* cache[l]: the writes layer l holds and has not written down
    arrays,   \* the backing arrays of the snapshot slices: [cap, elems]
    dbs       \* the DBImpl values: [ctx, snaps (a slice), err, evm, status]

vars == <<parent, cache, arrays, dbs>>

Slice == [arr : Nat, len : Nat]
Layers == 1..MaxDBs + 2

TypeOK ==
    /\ parent \in Seq(0..MaxDBs + 2) /\ cache \in Seq(SUBSET (1..MaxWrites))
    /\ Len(cache) = Len(parent) /\ Len(parent) = Len(dbs) + 2
    /\ \A a \in DOMAIN arrays :
         arrays[a].cap = Len(arrays[a].elems) /\ arrays[a].elems \in Seq(0..MaxDBs + 2)
    /\ dbs \in Seq([ctx : Layers, snaps : Slice, err : BOOLEAN, evm : BOOLEAN,
                    status : {"open", "finalized", "failed"}])
    /\ \A d \in DOMAIN dbs : dbs[d].snaps.arr \in DOMAIN arrays

-----------------------------------------------------------------------------
(* Go slices *)

\* The capacity growslice picks for one more element than cap: doubled,
\* which is what it does below 256 elements (size-class rounding of the
\* allocation can only add room).
GrowCap(cap) == IF cap = 0 THEN 1 ELSE 2 * cap

\* The elements of a slice.
Elems(s) == SubSeq(arrays[s.arr].elems, 1, s.len)

\* append(s, x) into s's backing array, which has room.
AppendInPlace(arrs, s, x) ==
    [arrays |-> [arrs EXCEPT ![s.arr].elems[s.len + 1] = x],
     slice |-> [arr |-> s.arr, len |-> s.len + 1]]

\* append(s, x) into a new backing array holding s's elements and x.
AppendGrow(arrs, s, x) ==
    LET c == GrowCap(arrs[s.arr].cap) IN
    [arrays |-> Append(arrs, [cap |-> c,
                   elems |-> SubSeq(arrs[s.arr].elems, 1, s.len) \o <<x>>
                             \o [i \in 1..c - s.len - 1 |-> Zero]]),
     slice |-> [arr |-> Len(arrs) + 1, len |-> s.len + 1]]

\* append(s, x) with one element: in place while the backing array has
\* room, else into a new array.  Returns the arrays and the new slice.
AppendOne(arrs, s, x) ==
    IF s.len < arrs[s.arr].cap THEN AppendInPlace(arrs, s, x) ELSE AppendGrow(arrs, s, x)

-----------------------------------------------------------------------------
(* Cache multistores *)

\* CacheMultiStore.Write: the cache's writes go to its parent, and the
\* cache is empty again.
Write1(c, l) == [c EXCEPT ![parent[l]] = @ \cup c[l], ![l] = {}]

RECURSIVE WriteAll(_, _)
WriteAll(c, ls) == IF ls = <<>> THEN c ELSE WriteAll(Write1(c, Head(ls)), Tail(ls))

\* A new cache multistore over layer l.
NewCache(l) == /\ parent' = Append(parent, l) /\ cache' = Append(cache, {})

-----------------------------------------------------------------------------
(* DBImpl *)

\* NewDBImpl: a DB on ctx with an empty snapshot slice, then s.Snapshot()
\* (not in this repository), which like Copy puts a new cache over ctx and
\* appends ctx to snapshottedCtxs: the first snapshot is the base.
NewDBImpl ==
    /\ parent = <<0, Deliver, BaseLayer>>
    /\ cache = <<{}, {}, {}>>
    /\ arrays = <<[cap |-> 1, elems |-> <<BaseLayer>>]>>
    /\ dbs = <<[ctx |-> 3, snaps |-> [arr |-> 1, len |-> 1], err |-> FALSE,
                evm |-> FALSE, status |-> "open"]>>

Init == NewDBImpl

\* Finalize ends the transaction: runTx then writes the base, and none of
\* its DBs is used again.
TxOpen == \A e \in DOMAIN dbs : dbs[e].status = "open"

\* The caches ctx is written into, in Finalize's order: ctx, then the
\* snapshotted contexts from the last down to the second (i > 0).
FinalizeOrderForward(db) ==
    <<db.ctx>> \o SubSeq(Elems(db.snaps), 2, db.snaps.len)

FinalizeOrder(db) ==
    <<db.ctx>> \o [k \in 1..db.snaps.len - 1 |-> Elems(db.snaps)[db.snaps.len + 1 - k]]

\* Every write made so far: a cache write moves it, and nothing drops it.
Written == UNION { cache[l] : l \in DOMAIN cache }

\* The EVM writes state through the DB: into the cache of its ctx.
Write(d) ==
    LET n == Cardinality(Written) IN
    /\ TxOpen /\ n < MaxWrites
    /\ cache' = [cache EXCEPT ![dbs[d].ctx] = @ \cup {n + 1}]
    /\ UNCHANGED <<parent, arrays, dbs>>

\* WithErr: the execution failed, and the transaction must be rolled back.
WithErr(d) ==
    /\ TxOpen /\ ~dbs[d].err
    /\ Cardinality({e \in DOMAIN dbs : dbs[e].err}) < MaxErrDBs
    /\ dbs' = [dbs EXCEPT ![d].err = TRUE]
    /\ UNCHANGED <<parent, cache, arrays>>

\* SetEVM: ctx and every snapshotted context get the EVM (the same stores),
\* and utils.Map (not in this repository) builds a new slice of them: its
\* capacity is the length, or the next power of two if it appends one by
\* one.  The keeper gives a DB its EVM once.
SetEVM(d) ==
    LET n == dbs[d].snaps.len
        pow2 == CHOOSE p \in {2 ^ i : i \in 0..n} : p >= n /\ (p = 1 \/ p \div 2 < n)
    IN  /\ TxOpen /\ ~dbs[d].evm
        /\ Cardinality({e \in DOMAIN dbs : dbs[e].evm}) < MaxEVMDBs
        /\ \E c \in {n, pow2} :
             /\ arrays' = Append(arrays, [cap |-> c,
                             elems |-> Elems(dbs[d].snaps) \o [i \in 1..c - n |-> Zero]])
             /\ dbs' = [dbs EXCEPT ![d].snaps = [arr |-> Len(arrays) + 1, len |-> n],
                                   ![d].evm = TRUE]
        /\ UNCHANGED <<parent, cache>>

Copy(d) ==
    LET db == dbs[d]
        r == AppendOne(arrays, db.snaps, db.ctx)
    IN  /\ TxOpen /\ Len(dbs) < MaxDBs
        /\ NewCache(db.ctx)
        /\ arrays' = r.arrays
        /\ dbs' = Append(dbs, [ctx |-> Len(parent) + 1, snaps |-> r.slice, err |-> db.err,
                               evm |-> db.evm, status |-> "open"])

\* Finalize: with err set it returns err and writes nothing; else flushCtx
\* on ctx and on the snapshotted contexts but the base, last first.
Finalize(d) ==
    /\ TxOpen
    /\ \/ dbs[d].err /\ dbs' = [dbs EXCEPT ![d].status = "failed"] /\ UNCHANGED cache
       \/ ~dbs[d].err /\ dbs' = [dbs EXCEPT ![d].status = "finalized"]
          /\ cache' = WriteAll(cache, FinalizeOrder(dbs[d]))
    /\ UNCHANGED <<parent, arrays>>

Next ==
    \E d \in DOMAIN dbs : Write(d) \/ WithErr(d) \/ SetEVM(d) \/ Copy(d) \/ Finalize(d)

Spec == Init /\ [][Next]_vars

-----------------------------------------------------------------------------
\* The caches between layer l and the base, following the parent links.
RECURSIVE Chain(_)
Chain(l) == IF l \in {0, Deliver, BaseLayer} THEN {} ELSE {l} \cup Chain(parent[l])

\* The contexts below layer l, from the base up to l's parent.
RECURSIVE Ancestry(_)
Ancestry(l) == IF l \in {0, Deliver, BaseLayer} THEN <<>> ELSE Ancestry(parent[l]) \o <<parent[l]>>

(***************************************************************************)
(* The snapshot slice of every DB lists the contexts below its ctx, by    *)
(* the stores' own parent links, from the base up: Finalize's loop walks  *)
(* it to write each cache into the next one down.  Copy builds it by      *)
(* append from the original's slice, and SetEVM rebuilds it.              *)
(***************************************************************************)
SnapshotsFollowParents ==
    \A d \in DOMAIN dbs : Elems(dbs[d].snaps) = Ancestry(dbs[d].ctx)

(***************************************************************************)
(* Finalize commits exactly what the DB sees.  Every cache between the    *)
(* DB's ctx and the base, by the stores' own parent links, is written     *)
(* down and left empty, the base gains all of their writes, and no other  *)
(* store changes: nothing reaches the store under the base, and no other  *)
(* DB's pending writes move.  Finalize finds those caches through the     *)
(* snapshot slice, which Copy builds by append; a DB with err set writes  *)
(* nothing.                                                                *)
(***************************************************************************)
FinalizeCommitsItsView ==
    [][ \A d \in DOMAIN dbs :
          dbs[d].status = "open" /\ dbs'[d].status # "open" =>
            LET chain == Chain(dbs[d].ctx)
                view == UNION { cache[l] : l \in chain }
            IN  cache' = IF dbs[d].err THEN cache
                         ELSE [l \in DOMAIN cache |->
                                 IF l = BaseLayer THEN cache[l] \cup view
                                 ELSE IF l \in chain THEN {} ELSE cache[l]] ]_vars

=============================================================================
