--------------------------- MODULE MC_ReceiptCodec ---------------------------
(***************************************************************************)
(* The two test harnesses of the receipt codec in one model.  A test case  *)
(* is either an input byte string for Receipt.Unmarshal (ReceiptDecode) or *)
(* a receipt built for Marshal and Unmarshal (ReceiptRoundTrip): the first *)
(* step chooses which, and the other harness stays at its initial state.   *)
(***************************************************************************)
EXTENDS Sequences

CONSTANTS WordBits, Int32Bits, InputBytes, MaxInput, VarintValues, LongLen, MaxSetFields

VARIABLES wire, decoded, reencoded, msg

\* A one-byte and a two-byte string.
MCStrings == {<<1>>, <<2, 3>>}

D == INSTANCE ReceiptDecode
R == INSTANCE ReceiptRoundTrip WITH Strings <- MCStrings

vars == <<wire, decoded, reencoded, msg>>

Init == D!Init /\ R!Init

Next ==
    \/ R!Init /\ D!Next /\ UNCHANGED msg
    \/ wire = <<>> /\ R!Next /\ UNCHANGED <<wire, decoded, reencoded>>

Spec == Init /\ [][Next]_vars

DecodeMatchesWireGrammar == D!DecodeMatchesWireGrammar
DecodedReencodes == D!DecodedReencodes
MarshalRoundTrip == R!MarshalRoundTrip
=============================================================================
