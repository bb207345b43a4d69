---------------------------- MODULE MC_FilterAPI ----------------------------
(***************************************************************************)
(* FilterAPI over MCChain: the chain starts at height 1 and grows to 3.  *)
(* Criteria for the passing runs: an address filter with no range, a      *)
(* blockHash filter on block 2 (not yet committed at start), and an       *)
(* address+topic filter bounded by the committed block 1.                 *)
(* The criteria for the violation runs add a toBlock still in the future  *)
(* and the "latest" tag.                                                   *)
(***************************************************************************)
EXTENDS FilterAPI, MCChain

CONSTANTS NoValue

MCNone == NoValue

Crit(addrs, topics, hash, from, to) ==
    [addresses |-> addrs, topics |-> topics, blockHash |-> hash,
     fromBlock |-> from, toBlock |-> to]

MCCritChoices ==
    { Crit({A1}, <<>>, NoValue, NoValue, NoValue),
      Crit({}, <<>>, 2, NoValue, NoValue),
      Crit({A2}, <<{T1}>>, NoValue, NoValue, 1) }

\* toBlock 3 lies above the head when the filter is created.
MCFutureToBlock ==
    { Crit({A1}, <<>>, NoValue, 1, 3) }

\* toBlock given as the "latest" tag.
MCLatestToBlock ==
    { Crit({A1}, <<>>, NoValue, 1, LatestTag) }

=============================================================================
