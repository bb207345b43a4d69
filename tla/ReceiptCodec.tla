---------------------------- MODULE ReceiptCodec ----------------------------
(***************************************************************************)
(* The protobuf wire codec of the EVM receipt (src/x/evm/types/            *)
(* receipt.pb.go, gogoproto output): Size, MarshalToSizedBuffer, which     *)
(* fills a buffer of exactly Size bytes from its end, Unmarshal, which     *)
(* parses untrusted bytes with a bounds check before every read, and       *)
(* skipReceipt for unknown fields and groups.                              *)
(*                                                                         *)
(* A message is a function from field number to value: a varint field     *)
(* holds a natural, a string or bytes field a sequence of bytes, a         *)
(* repeated field a sequence of values.  The generated code repeats one    *)
(* block of control per field; here each block is one operator applied to *)
(* the field's kind, taken from the struct declarations.                   *)
(*                                                                         *)
(* Go's 64-bit words are WordBits wide and its 32-bit words Int32Bits      *)
(* wide, so the varint loop's "shift >= 64" bound, uint64 and int64        *)
(* wrap-around and the int32 field number can be checked at widths TLC    *)
(* computes with.  Indexes (i, iNdEx) are 0-based as in Go.                *)
(***************************************************************************)
EXTENDS Integers, Sequences, SequencesExt

CONSTANTS
    WordBits,    \* 64 in the code: uint64, int, and the varint shift bound
    Int32Bits    \* 32 in the code: uint32 fields and the int32 field number

ASSUME WordBits \in Nat \ {0} /\ Int32Bits \in 1..WordBits

None == "none"

\* The result of a decoding step: an error name or None, a value, and iNdEx.
Result(err, v, i) == [err |-> err, v |-> v, i |-> i]

\* Go's wrap-around of an unsigned, and of a two's-complement, integer.
Wrap(x, bits) == x % (2 ^ bits)
ToSigned(x, bits) == IF Wrap(x, bits) >= 2 ^ (bits - 1)
                     THEN Wrap(x, bits) - 2 ^ bits ELSE Wrap(x, bits)

\* type Log struct: Address string = 1, Topics []string = 2, Data []byte = 3.
LogFields == <<"string", "strings", "bytes">>

\* type Receipt struct, fields 1..14 in order.
ReceiptFields ==
    <<"uint32", "uint64", "string", "string", "uint64", "uint64", "uint64",
      "uint32", "uint32", "string", "string", "string", "logs", "bytes">>

VarintKinds == {"uint32", "uint64"}
WireType(kind) == IF kind \in VarintKinds THEN 0 ELSE 2
Tag(f, wt) == f * 8 + wt
EmptyMessage(kinds) ==
    [f \in DOMAIN kinds |-> IF kinds[f] \in VarintKinds THEN 0 ELSE <<>>]

\* Sum of a sequence of naturals.
RECURSIVE SumSeq(_)
SumSeq(s) == IF s = <<>> THEN 0 ELSE Head(s) + SumSeq(Tail(s))

-----------------------------------------------------------------------------
(***************************** Size ****************************************)

\* math_bits.Len64: the number of bits needed to represent x.
BitLen(x) == CHOOSE n \in 0..WordBits : x < 2 ^ n /\ (n = 0 \/ x >= 2 ^ (n - 1))

\* x | 1 for x >= 0: x with its lowest bit set.
OrOne(x) == IF x % 2 = 0 THEN x + 1 ELSE x

\* b & 0x7F for b >= 0: the low seven bits.
Low7(b) == b % 128

\* Faulty variant of sovReceipt: without "| 1", zero takes no bytes.
sovReceiptNoOr(x) == (BitLen(x) + 6) \div 7

sovReceipt(x) == (BitLen(OrOne(x)) + 6) \div 7

\* "if m.F != 0 { n += 1 + sovReceipt(uint64(m.F)) }"
VarintFieldSize(v) == IF v # 0 THEN 1 + sovReceipt(v) ELSE 0

\* "l = len(m.F); if l > 0 { n += 1 + l + sovReceipt(uint64(l)) }"
LenFieldSize(l) == IF l > 0 THEN 1 + l + sovReceipt(l) ELSE 0

\* One element of a repeated field: "n += 1 + l + sovReceipt(uint64(l))".
ElemSize(l) == 1 + l + sovReceipt(l)

LogSize(m) ==
    LenFieldSize(Len(m[1]))
    + SumSeq([k \in DOMAIN m[2] |-> ElemSize(Len(m[2][k]))])
    + LenFieldSize(Len(m[3]))

ReceiptSize(m) ==
    LET term(f) ==
          CASE ReceiptFields[f] \in VarintKinds -> VarintFieldSize(m[f])
            [] ReceiptFields[f] = "logs" ->
                 SumSeq([k \in DOMAIN m[f] |-> ElemSize(LogSize(m[f][k]))])
            [] OTHER -> LenFieldSize(Len(m[f]))
    IN  SumSeq([f \in DOMAIN ReceiptFields |-> term(f)])

-----------------------------------------------------------------------------
(*************************** Marshal ***************************************)
(* The writer state of MarshalToSizedBuffer: the buffer dAtA, the index i, *)
(* and whether an index fell outside the buffer (a Go runtime panic).      *)

\* dAtA[off] = b
Put(w, off, b) ==
    IF off < 0 \/ off >= Len(w.buf) THEN [w EXCEPT !.panic = TRUE]
    ELSE [w EXCEPT !.buf[off + 1] = b]

\* The loop of encodeVarintReceipt: low groups of 7 bits first.
RECURSIVE PutVarint(_, _, _)
PutVarint(w, off, v) ==
    IF v >= 128
    THEN CHOOSE r \in { PutVarint(w2, off + 1, v \div 128) :
                          w2 \in {Put(w, off, Low7(v) + 128)} } : TRUE   \* v&0x7f|0x80
    ELSE Put(w, off, v)

\* i = encodeVarintReceipt(dAtA, i, v): the varint ends just before i.
encodeVarintReceipt(w, v) ==
    LET base == w.i - sovReceipt(v) IN [PutVarint(w, base, v) EXCEPT !.i = base]

\* i--; dAtA[i] = tag
PutTag(w, tag) == [Put(w, w.i - 1, tag) EXCEPT !.i = w.i - 1]

\* i -= len(d); copy(dAtA[i:], d)
PutData(w, d) ==
    LET j == w.i - Len(d) IN
    IF j < 0 THEN [w EXCEPT !.panic = TRUE, !.i = j]
    ELSE [w EXCEPT !.i = j,
                   !.buf = SubSeq(w.buf, 1, j) \o d \o SubSeq(w.buf, j + Len(d) + 1, Len(w.buf))]

PutLenField(w, f, d) == PutTag(encodeVarintReceipt(PutData(w, d), Len(d)), Tag(f, 2))

PutVarintField(w, f, v) == PutTag(encodeVarintReceipt(w, v), Tag(f, 0))

RECURSIVE MarshalToSizedBuffer(_, _, _)

\* One Log of Receipt.Logs: the Log writes itself below i, then its length
\* (the bytes it wrote, not its Size) and the tag go in front.
PutLogElem(w, f, e) ==
    LET w1 == MarshalToSizedBuffer(w, e, LogFields)
    IN  PutTag(encodeVarintReceipt(w1, w.i - w1.i), Tag(f, 2))

\* Applies step(k, acc) for k = n down to 1.  The writer is bound to a value
\* at every step, so no step re-evaluates the ones before it.
RECURSIVE WriteDown(_, _, _)
WriteDown(step(_, _), acc, n) ==
    IF n = 0 THEN acc
    ELSE CHOOSE r \in { WriteDown(step, v, n - 1) : v \in { step(n, acc) } } : TRUE

PutElem(w, f, kind, e) ==
    IF kind = "logs" THEN PutLogElem(w, f, e) ELSE PutLenField(w, f, e)

\* The loop "for iNdEx := len(m.F) - 1; iNdEx >= 0; iNdEx--" of a repeated
\* field, and a faulty variant that walks the elements first to last.
PutRepeatedForward(w, f, kind, elems) ==
    WriteDown(LAMBDA k, acc : PutElem(acc, f, kind, elems[Len(elems) + 1 - k]), w, Len(elems))

PutRepeated(w, f, kind, elems) ==
    WriteDown(LAMBDA k, acc : PutElem(acc, f, kind, elems[k]), w, Len(elems))

\* The fields are written from the last to the first, each only when it is
\* not the zero value ("if m.F != 0", "if len(m.F) > 0").
MarshalToSizedBuffer(w, m, kinds) ==
    LET written == SelectSeq([f \in DOMAIN kinds |-> f],
                             LAMBDA f : m[f] # EmptyMessage(kinds)[f])
        put(k, acc) ==
          LET f == written[k] IN
          CASE kinds[f] \in VarintKinds            -> PutVarintField(acc, f, m[f])
            [] kinds[f] \in {"strings", "logs"}    -> PutRepeated(acc, f, kinds[f], m[f])
            [] OTHER                               -> PutLenField(acc, f, m[f])
    IN  WriteDown(put, w, Len(written))

LogMarshalToSizedBuffer(w, m) == MarshalToSizedBuffer(w, m, LogFields)

\* Receipt.Marshal: a buffer of Size bytes, filled from its end; the result
\* is dAtA[:n] with n the bytes written.
Marshal(m) ==
    LET size == ReceiptSize(m)
        w    == MarshalToSizedBuffer([buf |-> [k \in 1..size |-> 0], i |-> size,
                                      panic |-> FALSE], m, ReceiptFields)
    IN  [panic |-> w.panic, bytes |-> IF w.panic THEN <<>> ELSE SubSeq(w.buf, 1, size - w.i)]

-----------------------------------------------------------------------------
(************************** Unmarshal **************************************)

(***************************************************************************)
(* The varint loop every field repeats:                                    *)
(*   for shift := uint(0); ; shift += 7 {                                  *)
(*     if shift >= 64 { return ErrIntOverflowReceipt }                     *)
(*     if iNdEx >= l { return io.ErrUnexpectedEOF }                        *)
(*     b := dAtA[iNdEx]; iNdEx++; x |= T(b&0x7F) << shift                  *)
(*     if b < 0x80 { break } }                                             *)
(* with T the type of x, of the given width; the groups do not overlap,   *)
(* so |= is +.  A signed int accumulator wraps like the unsigned one.     *)
(***************************************************************************)
RECURSIVE VarintLoop(_, _, _, _, _)
VarintLoop(d, i, shift, x, bits) ==
    IF shift >= WordBits THEN Result("overflow", 0, i)
    ELSE IF i >= Len(d) THEN Result("eof", 0, i)
    ELSE LET b  == d[i + 1]
             x2 == x + Wrap(Low7(b) * 2 ^ shift, bits)
         IN  IF b < 128 THEN Result(None, x2, i + 1)
             ELSE VarintLoop(d, i + 1, shift + 7, x2, bits)

DecodeVarint(d, i, bits) == VarintLoop(d, i, 0, 0, bits)

\* Faulty variant of DecodeTag without the "fieldNum <= 0" check.
DecodeTagNoFieldCheck(d, i) ==
    LET r == DecodeVarint(d, i, WordBits) IN
    IF r.err # None THEN r
    ELSE IF r.v % 8 = 4 THEN Result("end_group", 0, r.i)
    ELSE Result(None, [field |-> ToSigned(r.v \div 8, Int32Bits), wt |-> r.v % 8], r.i)

\* The tag: fieldNum := int32(wire >> 3); wireType := int(wire & 0x7).
DecodeTag(d, i) ==
    LET r        == DecodeVarint(d, i, WordBits)
        fieldNum == ToSigned(r.v \div 8, Int32Bits)
        wireType == r.v % 8
    IN  IF r.err # None THEN r
        ELSE IF wireType = 4 THEN Result("end_group", 0, r.i)
        ELSE IF fieldNum <= 0 THEN Result("illegal_tag", 0, r.i)
        ELSE Result(None, [field |-> fieldNum, wt |-> wireType], r.i)

\* A length-delimited payload: the length varint, int(stringLen) (or the
\* int accumulator), the two negative checks and postIndex > l.  The value
\* is dAtA[iNdEx:postIndex] and iNdEx moves to postIndex.
DecodeLen(d, i) ==
    LET r    == DecodeVarint(d, i, WordBits)
        n    == ToSigned(r.v, WordBits)
        post == ToSigned(r.i + n, WordBits)
    IN  IF r.err # None THEN r
        ELSE IF n < 0 \/ post < 0 THEN Result("invalid_length", 0, r.i)
        ELSE IF post > Len(d) THEN Result("eof", 0, r.i)
        ELSE Result(None, SubSeq(d, r.i + 1, post), post)

\* A varint field: m.F = 0, then the loop into m.F (uint32 or uint64).
DecodeVarintField(d, i, kind, m, f) ==
    LET r == DecodeVarint(d, i, IF kind = "uint32" THEN Int32Bits ELSE WordBits) IN
    IF r.err # None THEN r ELSE Result(None, [m EXCEPT ![f] = r.v], r.i)

\* A string field: m.F = string(payload); Topics appends instead.
DecodeStringField(d, i, kind, m, f) ==
    LET r == DecodeLen(d, i) IN
    IF r.err # None THEN r
    ELSE Result(None, [m EXCEPT ![f] = IF kind = "strings" THEN Append(@, r.v) ELSE r.v], r.i)

\* A bytes field: m.F = append(m.F[:0], payload...), the last one wins.
DecodeBytesField(d, i, m, f) ==
    LET r == DecodeLen(d, i) IN
    IF r.err # None THEN r ELSE Result(None, [m EXCEPT ![f] = r.v], r.i)

RECURSIVE Unmarshal(_, _)

\* Receipt.Logs: append(m.Logs, &Log{}), then Log.Unmarshal of the payload.
DecodeLogsField(d, i, m, f) ==
    LET r == DecodeLen(d, i)
        e == Unmarshal(r.v, LogFields)
    IN  IF r.err # None THEN r
        ELSE IF e.err # None THEN e
        ELSE Result(None, [m EXCEPT ![f] = Append(@, e.v)], r.i)

\* The body of "case fieldNum:" for a declared field, after its wire type
\* check.
DecodeField(d, i, kind, wt, m, f) ==
    IF wt # WireType(kind) THEN Result("wrong_wiretype", m, i)
    ELSE CASE kind \in VarintKinds        -> DecodeVarintField(d, i, kind, m, f)
           [] kind \in {"string", "strings"} -> DecodeStringField(d, i, kind, m, f)
           [] kind = "bytes"                -> DecodeBytesField(d, i, m, f)
           [] kind = "logs"                 -> DecodeLogsField(d, i, m, f)

(***************************************************************************)
(* skipReceipt(dAtA[iNdEx:]): the length of one unknown field, a group     *)
(* (wire type 3 .. 4, nested by depth) included.  The fixed64 and fixed32  *)
(* cases move iNdEx with no bounds check; the caller checks the result.   *)
(***************************************************************************)
RECURSIVE SkipLoop(_, _, _)
SkipLoop(d, i, depth) ==
    IF i >= Len(d) THEN Result("eof", 0, i)
    ELSE
    LET t  == DecodeVarint(d, i, WordBits)
        wt == t.v % 8
        len == DecodeVarint(d, t.i, WordBits)
        step ==
          CASE wt = 0 -> DecodeVarint(d, t.i, WordBits)
            [] wt = 1 -> Result(None, 0, t.i + 8)
            [] wt = 2 -> IF len.err # None THEN len
                         ELSE IF ToSigned(len.v, WordBits) < 0
                              THEN Result("invalid_length", 0, len.i)
                              ELSE Result(None, 0, ToSigned(len.i + ToSigned(len.v, WordBits), WordBits))
            [] wt = 3 -> Result(None, 0, t.i)
            [] wt = 4 -> IF depth = 0 THEN Result("end_group", 0, t.i) ELSE Result(None, 0, t.i)
            [] wt = 5 -> Result(None, 0, t.i + 4)
            [] OTHER  -> Result("illegal_wiretype", 0, t.i)
        depth2 == CASE wt = 3 -> depth + 1 [] wt = 4 -> depth - 1 [] OTHER -> depth
    IN  IF t.err # None THEN t
        ELSE IF step.err # None THEN step
        ELSE IF step.i < 0 THEN Result("invalid_length", 0, step.i)
        ELSE IF depth2 = 0 THEN Result(None, step.i, step.i)
        ELSE SkipLoop(d, step.i, depth2)

skipReceipt(d) == SkipLoop(d, 0, 0)

(***************************************************************************)
(* The loop "for iNdEx < l" of Unmarshal: the tag, then the declared       *)
(* field's case, or the default case, which rewinds to preIndex and skips *)
(* the unknown field.  After the loop, iNdEx > l is io.ErrUnexpectedEOF.   *)
(***************************************************************************)
RECURSIVE UnmarshalLoop(_, _, _, _), UnmarshalFrom(_, _, _, _)

\* The next iteration, at iNdEx j with the message mm, both bound to values
\* first so that no iteration re-evaluates the ones before it.
UnmarshalFrom(d, j, mm, kinds) ==
    CHOOSE res \in { UnmarshalLoop(d, j2, m2, kinds) : j2 \in {j}, m2 \in {mm} } : TRUE

UnmarshalLoop(d, i, m, kinds) ==
    IF i >= Len(d)
    THEN IF i > Len(d) THEN Result("eof", m, i) ELSE Result(None, m, i)
    ELSE
    LET t == DecodeTag(d, i)
        f == t.v.field
        r == DecodeField(d, t.i, kinds[f], t.v.wt, m, f)
        s == skipReceipt(SubSeq(d, i + 1, Len(d)))
    IN  IF t.err # None THEN t
        ELSE IF f \in DOMAIN kinds
             THEN IF r.err # None THEN r ELSE UnmarshalFrom(d, r.i, r.v, kinds)
        ELSE IF s.err # None THEN s
        ELSE IF s.v < 0 \/ i + s.v < 0 THEN Result("invalid_length", m, i)
        ELSE IF i + s.v > Len(d) THEN Result("eof", m, i)
        ELSE UnmarshalFrom(d, i + s.v, m, kinds)

Unmarshal(d, kinds) == UnmarshalLoop(d, 0, EmptyMessage(kinds), kinds)

LogUnmarshal(d) == Unmarshal(d, LogFields)

ReceiptUnmarshal(d) == Unmarshal(d, ReceiptFields)

=============================================================================
