--------------------------- MODULE ReceiptRoundTrip ---------------------------
(***************************************************************************)
(* Receipt.Marshal followed by Receipt.Unmarshal.  The receipt under test  *)
(* is built one field at a time (SetField), up to MaxSetFields non-zero    *)
(* fields, from small value sets per kind: one-, two- and three-byte       *)
(* varints, a string longer than 127 bytes (a two-byte length prefix),    *)
(* Topics of several strings, and Logs holding empty and full Logs.        *)
(***************************************************************************)
EXTENDS ReceiptCodec, FiniteSets

CONSTANTS
    VarintValues,  \* values for varint fields (those of 32-bit width for uint32)
    Strings,       \* non-empty byte strings
    LongLen,       \* the length of a string whose length prefix takes two bytes
    MaxSetFields   \* the most non-zero fields of a receipt under test

VARIABLE msg

LongString == [k \in 1..LongLen |-> 7]

AnyString == Strings \cup {LongString}

EmptyLog == EmptyMessage(LogFields)

FullLog(s, t) == <<s, <<t, s>>, t>>

FieldValues(kind) ==
    CASE kind = "uint32"  -> { v \in VarintValues : v < 2 ^ Int32Bits }
      [] kind = "uint64"  -> VarintValues
      [] kind = "strings" -> { <<s>> : s \in Strings } \cup { <<s, t>> : s, t \in Strings }
      [] kind = "logs"    -> { <<EmptyLog>> } \cup { <<FullLog(s, t), EmptyLog>> : s, t \in Strings }
      [] OTHER            -> AnyString

SetFields(m) == { f \in DOMAIN m : m[f] # EmptyMessage(ReceiptFields)[f] }

SetField(f, v) ==
    /\ Cardinality(SetFields([msg EXCEPT ![f] = v])) <= MaxSetFields
    /\ msg' = [msg EXCEPT ![f] = v]

Init == msg = EmptyMessage(ReceiptFields)

Next == \E f \in DOMAIN ReceiptFields : \E v \in FieldValues(ReceiptFields[f]) : SetField(f, v)

Spec == Init /\ [][Next]_msg

-----------------------------------------------------------------------------
(***************************************************************************)
(* Marshal never indexes outside the buffer it sized, writes exactly Size  *)
(* bytes, and Unmarshal of them gives back the receipt: the backward fill  *)
(* of MarshalToSizedBuffer (fields last to first, repeated elements last  *)
(* to first, each nested Log before its length) puts fields and elements  *)
(* back in their order.                                                    *)
(***************************************************************************)
MarshalRoundTrip ==
    \A b \in {Marshal(msg)} :   \* b bound to the value, not re-evaluated at each use
    /\ ~b.panic
    /\ Len(b.bytes) = ReceiptSize(msg)
    /\ ReceiptUnmarshal(b.bytes) = Result(None, msg, Len(b.bytes))

=============================================================================
