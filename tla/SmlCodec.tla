------------------------------ MODULE SmlCodec ------------------------------
(***************************************************************************)
(* SML as sml/builder.py writes it and sml/parser.py reads it: the type-   *)
(* length encoding of values, the messages made of them, the transport     *)
(* frame around them, and its checksum (sml/crc.py).                       *)
(*                                                                         *)
(* Bytes are numbers, positions count from 1.  A decoded value is a pair   *)
(* of its type and its content, <<"null">> for an omitted one; what        *)
(* raises SmlParseError yields Failed.                                     *)
(***************************************************************************)
EXTENDS Numerals, Integers, Sequences, SequencesExt

Escape == <<27, 27, 27, 27>>
Start == Escape \o <<1, 1, 1, 1>>
EndMarker == 26

Byte == 0..255

TypeOctet == 0
TypeBool == 64
TypeInt == 80
TypeUint == 96
TypeList == 112

Null == <<"null">>
Failed == [ok |-> FALSE]

\* What a meter may measure, as the arguments of build_list_entry and
\* build_meter_frame.
Unsigneds == {"uint"} \X Nat
Primitives == Unsigneds \cup ({"int"} \X Int) \cup ({"octet"} \X Seq(Byte)) \cup ({"bool"} \X BOOLEAN)
ListEntries ==
    [code : Seq(Byte), value : Primitives, unit : Unsigneds \cup {Null}, scaler : Int,
     status : Unsigneds \cup {Null}, time : Unsigneds \cup {Null}]
MeterReadings == [server : Seq(Byte), entries : Seq(ListEntries)]

\* data[i..] begins with pattern.
At(data, i, pattern) ==
    /\ i + Len(pattern) - 1 <= Len(data)
    /\ \A k \in DOMAIN pattern : data[i + k - 1] = pattern[k]

-----------------------------------------------------------------------------
(* Encoding.                                                               *)

\* n bytes of v, the most significant first; two's complement if v is negative.
BigEndian(v, n) ==
    LET shifted[k \in 0..n] == IF k = 0 THEN v ELSE shifted[k - 1] \div 256
    IN [i \in 1..n |-> shifted[n - i] % 256]

\* int.bit_length, of a number that is not negative.
BitLength(v) == CHOOSE n \in 0..v : v < Power(2, n) /\ \A k \in 0..(n - 1) : v >= Power(2, k)

\* n TL bytes have nibbles for the length; own is 1 if they count towards it.
Holds(n, length, own) == length + own * n < Power(16, n)

\* The fewest TL bytes that do.
TLBytes(length, own) ==
    CHOOSE n \in 1..(length + 1) : Holds(n, length, own) /\ \A k \in 1..(n - 1) : ~Holds(k, length, own)

\* Nibbles of the length, the type in the first byte, the top bit in all but the last.
TL(type, length, own) ==
    LET n == TLBytes(length, own)
        nibbles == DigitsOf(16, length + own * n, n)
    IN [i \in 1..n |-> nibbles[i] + (IF i = 1 THEN type ELSE 0) + (IF i < n THEN 128 ELSE 0)]

EncodeOctet(data) == TL(TypeOctet, Len(data), 1) \o data

EncodeUint(v, size) == TL(TypeUint, size, 1) \o BigEndian(v, size)

UintSize(v) == IF v < 256 THEN 1 ELSE (BitLength(v) + 7) \div 8

EncodeInt(v) ==
    LET size == (BitLength(IF v < 0 THEN -v ELSE v) + 8) \div 8
    IN TL(TypeInt, size, 1) \o BigEndian(v, size)

EncodeList(items) == TL(TypeList, Len(items), 0) \o FlattenSeq(items)

EncodeBool(b) == TL(TypeBool, 1, 1) \o <<IF b THEN 1 ELSE 0>>

\* encode_value, of a value that is not a list.
EncodeValue(v) ==
    CASE v = Null -> <<0>>
      [] v[1] = "bool" -> EncodeBool(v[2])
      [] v[1] = "uint" -> EncodeUint(v[2], UintSize(v[2]))
      [] v[1] = "int" -> EncodeInt(v[2])
      [] v[1] = "octet" -> EncodeOctet(v[2])

\* build_list_entry; status, time and unit may be Null.
BuildListEntry(e) == EncodeList(<<
    EncodeOctet(e.code),
    IF e.status = Null THEN <<0>> ELSE EncodeUint(e.status[2], 8),
    IF e.time = Null THEN <<0>> ELSE EncodeList(<<EncodeUint(1, 1), EncodeValue(e.time)>>),
    EncodeValue(e.unit),
    IF e.scaler = 0 /\ e.unit = Null THEN <<0>> ELSE EncodeInt(e.scaler),
    EncodeValue(e.value),
    <<0>> >>)

BuildGetListRes(reading) == EncodeList(<<
    EncodeUint(1793, 2),
    EncodeList(<< <<0>>, EncodeOctet(reading.server), <<0>>, <<0>>,
                  EncodeList([i \in DOMAIN reading.entries |-> BuildListEntry(reading.entries[i])]),
                  <<0>>, <<0>> >>) >>)

BuildMessage(body) == EncodeList(<<
    EncodeOctet(<<0>>), EncodeUint(0, 1), EncodeUint(0, 1), body, EncodeUint(0, 1), <<0>> >>)

-----------------------------------------------------------------------------
(* The checksum.                                                           *)

\* The exclusive or of two numbers of four bits, and of sixteen.
XorNibble == [a \in 0..15 |-> [b \in 0..15 |->
    LET bit(w) == (((a \div w) + (b \div w)) % 2) * w
    IN bit(1) + bit(2) + bit(4) + bit(8)]]
Xor(a, b) ==
    LET nibble(w) == XorNibble[(a \div w) % 16][(b \div w) % 16] * w
    IN nibble(1) + nibble(16) + nibble(256) + nibble(4096)

Word == 0..65535

\* One bit of the reflected polynomial 0x8408.
Shift(c) == IF c % 2 = 1 THEN Xor(c \div 2, 33800) ELSE c \div 2

\* _TABLE
Table == [b \in 0..255 |-> Shift(Shift(Shift(Shift(Shift(Shift(Shift(Shift(b))))))))]

\* crc16_x25: the complement of the register.
Crc16X25(data) ==
    LET absorb == [crc \in Word |-> [byte \in Byte |-> Xor(crc \div 256, Table[Xor(crc, byte) % 256])]]
        register[n \in 0..Len(data)] ==   \* after the first n bytes
            IF n = 0 THEN 65535 ELSE absorb[register[n - 1]][data[n]]
    IN 65535 - register[Len(data)]

\* crc16_sml: the low byte first.
Crc16Sml(data) == LET crc == Crc16X25(data) IN <<crc % 256, crc \div 256>>

-----------------------------------------------------------------------------
(* The transport frame.                                                    *)

\* s with every occurrence of old replaced by new, from left to right.
Replace(s, old, new) ==
    LET from[i \in 1..(Len(s) + Len(old))] ==
            IF i > Len(s) THEN <<>>
            ELSE IF At(s, i, old) THEN new \o from[i + Len(old)]
            ELSE <<s[i]>> \o from[i + 1]
    IN from[1]

\* What build_frame does to the messages.
DoubleEscapes(payload) == Replace(payload, Escape, Escape \o Escape)

\* Mistake: the escapes inside the body stay doubled.
DeframeNothing(body) == body

\* _deframe
Deframe(body) == Replace(body, Escape \o Escape, Escape)

\* build_frame
BuildFrame(message) ==
    LET payload == DoubleEscapes(message)
        pad == (-Len(payload)) % 4
        frame == Start \o payload \o [i \in 1..pad |-> 0] \o Escape \o <<EndMarker, pad>>
    IN frame \o Crc16Sml(frame)

BuildMeterFrame(reading) == BuildFrame(BuildMessage(BuildGetListRes(reading)))

-----------------------------------------------------------------------------
(* Decoding.                                                               *)

\* The TL field at pos, of all bytes up to the first whose top bit is clear:
\* the type, the length its nibbles give, and the position after it.
DecodeTL(data, pos) ==
    LET ends == {i \in pos..Len(data) : data[i] < 128}
        field == SubSeq(data, pos, Min(ends))
    IN IF ends = {} THEN Failed
       ELSE [ok |-> TRUE, type |-> ((data[pos] % 128) \div 16) * 16,
             length |-> ValueOf(16, [i \in DOMAIN field |-> field[i] % 16]), cursor |-> Min(ends) + 1]

Unsigned(raw) == ValueOf(256, raw)

Signed(raw) ==
    IF raw # <<>> /\ raw[1] >= 128
      THEN -1 - Unsigned([i \in DOMAIN raw |-> 255 - raw[i]])
      ELSE Unsigned(raw)

\* A value and the position after it.
Decoded(value, pos) == [ok |-> TRUE, value |-> value, pos |-> pos]

\* What the bytes of a primitive stand for.
PrimitiveOf(type, raw) ==
    CASE type = TypeOctet -> <<"octet", raw>>
      [] type = TypeInt -> <<"int", Signed(raw)>>
      [] type = TypeUint -> <<"uint", Unsigned(raw)>>
      [] type = TypeBool -> <<"bool", \E i \in DOMAIN raw : raw[i] # 0>>

\* The primitive at pos with this TL field.
DecodePrimitive(data, pos, tl) ==
    LET next == pos + tl.length
    IN IF next < tl.cursor \/ next - 1 > Len(data) \/ tl.type \notin {TypeOctet, TypeInt, TypeUint, TypeBool}
         THEN Failed
         ELSE Decoded(PrimitiveOf(tl.type, SubSeq(data, tl.cursor, next - 1)), next)

\* A list of one value and those of rest.
Joined(first, rest) ==
    IF ~first.ok \/ ~rest.ok THEN Failed
    ELSE Decoded(<<"list", <<first.value>> \o rest.value[2]>>, rest.pos)

\* The value at pos, which has this TL field; items[p][n] is the list of the n
\* values from p on.
DecodeValue(data, pos, tl, items) ==
    IF pos > Len(data) THEN Failed
    ELSE IF data[pos] = 0 THEN Decoded(Null, pos + 1)
    ELSE IF ~tl.ok THEN Failed
    ELSE IF tl.type = TypeList THEN items[tl.cursor][tl.length]
    ELSE DecodePrimitive(data, pos, tl)

\* The list of the n values from pos on, by pos and n; one of them may be a list.
DecodeItems(data) ==
    LET items[pos \in Nat \ {0}] == [n \in Nat |->
            LET first == DecodeValue(data, pos, DecodeTL(data, pos), items)
            IN IF n = 0 THEN Decoded(<<"list", <<>> >>, pos)
               ELSE Joined(first, items[first.pos][n - 1])]
    IN items

\* decode_field: the value at pos.
DecodeField(data, pos) ==
    LET alone(list) == IF list.ok THEN Decoded(list.value[2][1], list.pos) ELSE Failed
    IN alone(DecodeItems(data)[pos][1])

\* decode_messages, bare zeros between messages being padding.
DecodeMessages(payload) ==
    LET from[pos \in Nat \ {0}] ==
        LET first == DecodeField(payload, pos)
        IN IF pos > Len(payload) THEN Decoded(<<"list", <<>> >>, pos)
           ELSE IF payload[pos] = 0 THEN from[pos + 1]
           ELSE Joined(first, from[first.pos])
    IN from[1]

-----------------------------------------------------------------------------
(* What a message means.                                                   *)

IsList(v) == v[1] = "list"
IsOctet(v) == v[1] = "octet"
IsNumber(v) == v[1] \in {"int", "uint"}

\* _as_int, the empty sequence being None.
AsInt(v) == IF IsNumber(v) THEN <<v[2]>> ELSE <<>>

\* A list entry that names a register and gives it a value.
IsReading(entry) ==
    /\ IsList(entry) /\ Len(entry[2]) >= 6
    /\ IsOctet(entry[2][1]) /\ Len(entry[2][1][2]) \in {5, 6}
    /\ entry[2][6] # Null /\ ~IsList(entry[2][6])

\* _entry_to_obis; an object name of five bytes lacks its last group.
EntryToObis(entry) ==
    LET f == entry[2] IN
    [code |-> IF Len(f[1][2]) = 5 THEN Append(f[1][2], 255) ELSE f[1][2],
     status |-> AsInt(f[2]),
     time |-> IF IsList(f[3]) /\ Len(f[3][2]) = 2 THEN AsInt(f[3][2][2]) ELSE <<>>,
     unit |-> IF IsNumber(f[4]) THEN f[4][2] ELSE 255,
     scaler |-> IF IsNumber(f[5]) THEN f[5][2] ELSE 0,
     value |-> f[6]]

\* A message whose body is an SML_GetList.Res.
IsGetListRes(message) ==
    /\ IsList(message) /\ Len(message[2]) >= 4
    /\ IsList(message[2][4]) /\ Len(message[2][4][2]) = 2
    /\ LET body == message[2][4][2]
       IN IsNumber(body[1]) /\ body[1][2] = 1793 /\ IsList(body[2]) /\ Len(body[2][2]) >= 5

\* _extract_from_message
Extract(message) ==
    LET content == message[2][4][2][2][2]
        entries == IF IsList(content[5]) THEN content[5][2] ELSE <<>>
        shown(entry) == IF IsReading(entry) THEN <<EntryToObis(entry)>> ELSE <<>>
    IN [server |-> IF IsOctet(content[2]) THEN content[2][2] ELSE <<>>,
        values |-> FlattenSeq([i \in DOMAIN entries |-> shown(entries[i])])]

\* extract_results; the caller drops a payload that cannot be decoded.
ExtractResults(payload) ==
    LET extracted(message) == IF IsGetListRes(message) THEN <<Extract(message)>> ELSE <<>>
        results(list) ==
            IF list.ok THEN FlattenSeq([i \in DOMAIN list.value[2] |-> extracted(list.value[2][i])]) ELSE <<>>
    IN results(DecodeMessages(payload))
=============================================================================
