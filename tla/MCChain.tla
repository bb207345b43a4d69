------------------------------- MODULE MCChain -------------------------------
(***************************************************************************)
(* The chain the MC modules check against: three blocks over two          *)
(* addresses and two topics.  Bloom bits collide on purpose: A1's bit is  *)
(* among T1's, so the receipt at height 1 (A2 emitting T1) passes the     *)
(* bloom phase of an A1 query and must be dropped by the exact phase.     *)
(* Height 2 has two receipts, one with two logs; height 3 has a receipt   *)
(* without logs.                                                           *)
(***************************************************************************)
EXTENDS Integers, Sequences

CONSTANTS A1, A2, T1, T2

MCAddresses == {A1, A2}
MCTopics == {T1, T2}
MCBits == {1, 2, 3}

MCBloomBits == [v \in {A1, A2, T1, T2} |->
                  CASE v = A1 -> {1}
                    [] v = A2 -> {2}
                    [] v = T1 -> {1, 3}
                    [] v = T2 -> {2, 3}]

MCBlocks == [h \in 0..3 |->
    CASE h = 0 -> <<>>
      [] h = 1 -> << <<[address |-> A2, topics |-> <<T1>>]>> >>
      [] h = 2 -> << <<[address |-> A2, topics |-> <<T1, T2>>],
                       [address |-> A1, topics |-> <<>>]>>,
                     <<[address |-> A1, topics |-> <<T2>>]>> >>
      [] h = 3 -> << <<[address |-> A2, topics |-> <<T2>>]>>, <<>> >>]

\* Topic criteria: no position, one position with one or two alternatives,
\* a wildcard first position, and two constrained positions (longer than
\* the topics of some logs).
MCTopicLists ==
    { <<>>, <<{T1}>>, <<{T1, T2}>>, <<{}, {T2}>>, <<{T1}, {T2}>>, <<{T2}, {T1}>> }

\* Every receipt is in the store.
MCNoMissing == {}

\* The first receipt of block 2 (logs of A2 and A1) is missing from the store.
MCMissing == {<<2, 1>>}

=============================================================================
