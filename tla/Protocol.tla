------------------------------ MODULE Protocol ------------------------------
(***************************************************************************)
(* The wire format of Shared.cpp and MsgHeader.cpp: a message is a header  *)
(* (its type and its length, two bytes each) and fields, each of them its  *)
(* length in two bytes and that many bytes of "KEY=value".  A buffer is a  *)
(* function from its indices to bytes, a text a sequence of bytes.         *)
(***************************************************************************)
EXTENDS Naturals, Sequences

CONSTANTS BASE,             \* the values of a byte (256)
          HEADER_SIZE,      \* MsgHeader::HEADER_SIZE
          IO_BUFFER_SIZE,   \* the size of either side's I/O buffer
          SPLIT             \* the byte of KEY_VALUE_SPLIT_SEQ

Byte == 0 .. BASE - 1
Text == Seq(Byte)

\* The values of a uint16_t.
Uint16 == 0 .. BASE * BASE - 1

\* The two halves of a header are at MSG_TYPE_OFFSET and DATA_LENGTH_OFFSET.
ASSUME FormatAssumption ==
  /\ BASE \in Nat \ {0, 1}
  /\ HEADER_SIZE = 4
  /\ IO_BUFFER_SIZE \in Uint16 /\ IO_BUFFER_SIZE >= HEADER_SIZE
  /\ SPLIT \in Byte

BufferIndex == 0 .. IO_BUFFER_SIZE - 1
Buffer == [BufferIndex -> Byte]
ClearBuffer == [i \in BufferIndex |-> 0]

\* field_value_to_bytes and bytes_to_field_value: high byte first.
ToBytes(v) == <<v \div BASE, v % BASE>>

FromBytes(buffer, offset) == buffer[offset] * BASE + buffer[offset + 1]

\* s at offset; the bytes from one offset up to another.
Put(buffer, offset, s) ==
  [i \in DOMAIN buffer |-> IF offset <= i /\ i < offset + Len(s) THEN s[i - offset + 1]
                                                                 ELSE buffer[i]]
Get(buffer, from, to) == [i \in 1 .. to - from |-> buffer[from + i - 1]]

Header == [msg_type : Uint16, data_length : Uint16]

\* MsgHeader::clear, serialize and deserialize.
ClearHeader == [msg_type |-> BASE * BASE - 1, data_length |-> 0]
Serialize(h, buffer) == Put(buffer, 0, ToBytes(h.msg_type) \o ToBytes(h.data_length))
Deserialize(buffer) == [msg_type |-> FromBytes(buffer, 0), data_length |-> FromBytes(buffer, 2)]

\* Mutant of FieldFits: the last byte of the buffer may not be used.
FieldFits_OffByOne(offset, text) == offset + 2 + Len(text) < IO_BUFFER_SIZE

\* write_field_impl: without room for the length and the text it throws.  The index
\* after the field is offset + 2 + Len(text).
FieldFits(offset, text) ==
  /\ Len(text) \in Uint16
  /\ offset < IO_BUFFER_SIZE
  /\ Len(text) < IO_BUFFER_SIZE - offset
  /\ IO_BUFFER_SIZE - offset - Len(text) >= 2

WriteField(buffer, offset, text) == Put(buffer, offset, ToBytes(Len(text)) \o text)

\* read_field in a buffer with "capacity" bytes of data: a length that does not fit
\* into them, or into what is left of them, makes it throw.
FieldLength(buffer, offset) == FromBytes(buffer, offset)

\* Mutant of HaveField: the length is not held against what is left.
HaveField_Unchecked(buffer, capacity, offset) == offset + 2 <= capacity

HaveField(buffer, capacity, offset) ==
  /\ offset < capacity /\ capacity - offset >= 2
  /\ FieldLength(buffer, offset) <= capacity - offset - 2

Field(buffer, offset) ==
  Get(buffer, offset + 2, offset + 2 + FieldLength(buffer, offset))

\* split_key_value_pair: without the split byte it throws.
HasSplit(text) == \E i \in 1 .. Len(text) : text[i] = SPLIT

\* Mutant of SplitIndex: the last split byte counts.
SplitIndex_Last(text) ==
  CHOOSE i \in 1 .. Len(text) : text[i] = SPLIT /\ \A j \in i + 1 .. Len(text) : text[j] # SPLIT

SplitIndex(text) ==
  CHOOSE i \in 1 .. Len(text) : text[i] = SPLIT /\ \A j \in 1 .. i - 1 : text[j] # SPLIT

KeyOf(text) == SubSeq(text, 1, SplitIndex(text) - 1)
ValueOf(text) == SubSeq(text, SplitIndex(text) + 1, Len(text))

Pair(key, value) == key \o <<SPLIT>> \o value
=============================================================================
