---------------------------- MODULE ReceiptDecode ----------------------------
(***************************************************************************)
(* Receipt.Unmarshal on untrusted input.  The bytes arrive one at a time   *)
(* (Receive), and every prefix is decoded: the reachable states are all    *)
(* byte strings over InputBytes of up to MaxInput bytes.  decoded is      *)
(* Receipt.Unmarshal of wire, and reencoded is Marshal of what it decoded. *)
(*                                                                         *)
(* The reference is the protobuf wire grammar the decoder promises to      *)
(* accept, written as a grammar over splits of the input, not as a loop:  *)
(* a message is a concatenation of fields; a field is a tag varint and a  *)
(* payload that fits its wire type, and a declared field's wire type must  *)
(* be its kind's; an unknown field may be a group of any skippable fields  *)
(* closed by an end-group tag.  Varints are read as the code reads them:   *)
(* at most (WordBits + 6) \div 7 bytes, high bits dropped.                 *)
(***************************************************************************)
EXTENDS ReceiptCodec

CONSTANTS
    InputBytes,  \* the byte values an input is made of
    MaxInput     \* the longest input

VARIABLES wire, decoded, reencoded

vars == <<wire, decoded, reencoded>>

Receive(b) ==
    /\ Len(wire) < MaxInput
    /\ wire' = Append(wire, b)
    /\ decoded' = ReceiptUnmarshal(wire')
    /\ reencoded' = IF decoded'.err = None THEN Marshal(decoded'.v) ELSE Marshal(EmptyMessage(ReceiptFields))

Init ==
    /\ wire = <<>>
    /\ decoded = ReceiptUnmarshal(wire)
    /\ reencoded = Marshal(decoded.v)

Next == \E b \in InputBytes : Receive(b)

Spec == Init /\ [][Next]_vars

-----------------------------------------------------------------------------
(************************* reference grammar *******************************)

MaxVarintLen == (WordBits + 6) \div 7

IsVarint(s) ==
    /\ Len(s) \in 1..MaxVarintLen
    /\ \A j \in 1..Len(s) - 1 : s[j] >= 128
    /\ s[Len(s)] < 128

VarintValue(s, bits) ==
    SumSeq([j \in DOMAIN s |-> Wrap((s[j] % 128) * 2 ^ (7 * (j - 1)), bits)])

\* s is a varint followed by a rest r with P(value, r).
VarintThen(s, P(_, _)) ==
    \E k \in 1..Len(s) :
        IsVarint(SubSeq(s, 1, k)) /\ P(VarintValue(SubSeq(s, 1, k), WordBits), SubSeq(s, k + 1, Len(s)))

\* s is a length varint followed by exactly that many bytes q with P(q).
LenPrefixed(s, P(_)) ==
    VarintThen(s, LAMBDA n, q : ToSigned(n, WordBits) = Len(q) /\ P(q))

RECURSIVE SkippedFields(_)

\* The payload of an unknown field of wire type wt.
SkipPayload(wt, p) ==
    CASE wt = 0 -> IsVarint(p)
      [] wt = 1 -> Len(p) = 8
      [] wt = 2 -> LenPrefixed(p, LAMBDA q : TRUE)
      [] wt = 5 -> Len(p) = 4
      [] wt = 3 -> \E k \in 0..Len(p) :
                      /\ SkippedFields(SubSeq(p, 1, k))
                      /\ VarintThen(SubSeq(p, k + 1, Len(p)), LAMBDA t, r : t % 8 = 4 /\ r = <<>>)
      [] OTHER  -> FALSE

\* Fields inside a group: any field number, any wire type but end-group.
SkippedFields(s) ==
    \/ s = <<>>
    \/ \E k \in 1..Len(s) :
          /\ VarintThen(SubSeq(s, 1, k), LAMBDA t, p : t % 8 # 4 /\ SkipPayload(t % 8, p))
          /\ SkippedFields(SubSeq(s, k + 1, Len(s)))

RECURSIVE WellFormed(_, _)

\* One field of a message whose fields have the given kinds.
FieldOK(s, kinds) ==
    VarintThen(s, LAMBDA t, p :
        LET fieldNum == ToSigned(t \div 8, Int32Bits)
            wt       == t % 8
        IN  /\ wt # 4
            /\ fieldNum > 0
            /\ IF fieldNum \in DOMAIN kinds
               THEN /\ wt = WireType(kinds[fieldNum])
                    /\ IF wt = 0 THEN IsVarint(p)
                       ELSE LenPrefixed(p, LAMBDA q : kinds[fieldNum] = "logs" => WellFormed(q, LogFields))
               ELSE SkipPayload(wt, p))

WellFormed(s, kinds) ==
    \/ s = <<>>
    \/ \E k \in 1..Len(s) :
          FieldOK(SubSeq(s, 1, k), kinds) /\ WellFormed(SubSeq(s, k + 1, Len(s)), kinds)

-----------------------------------------------------------------------------
(***************************************************************************)
(* Receipt.Unmarshal accepts exactly the inputs of the wire grammar: every *)
(* malformed input (a truncated varint or payload, a length past the end   *)
(* or negative after int conversion, a varint longer than the shift bound, *)
(* an illegal or end-group tag, a wrong wire type, an unclosed or          *)
(* unopened group in skipReceipt, a bad nested Log) is refused, and no     *)
(* well-formed one is.                                                     *)
(***************************************************************************)
DecodeMatchesWireGrammar ==
    (decoded.err = None) <=> WellFormed(wire, ReceiptFields)

(***************************************************************************)
(* A receipt decoded from any input marshals without a panic into bytes    *)
(* that decode to the same receipt: Size, the backward fill of             *)
(* MarshalToSizedBuffer and Unmarshal agree on every value Unmarshal can   *)
(* produce, empty Logs and empty Topics included.                          *)
(***************************************************************************)
DecodedReencodes ==
    decoded.err = None =>
        /\ ~reencoded.panic
        /\ ReceiptUnmarshal(reencoded.bytes) = Result(None, decoded.v, Len(reencoded.bytes))

=============================================================================
