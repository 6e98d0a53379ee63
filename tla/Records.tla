------------------------------ MODULE Records ------------------------------
(***************************************************************************)
(* A database record (src/libchidb/record.c): its fields are appended to a *)
(* DBRecordBuffer, packed into the bytes that a leaf cell holds, and       *)
(* unpacked again by whoever reads the cell.  The opcodes MakeRecord,      *)
(* Insert and Column (src/libchidb/dbm-ops.c) are its users.               *)
(*                                                                         *)
(* The packed form is a byte with the size of the header, the types of the *)
(* fields, one byte each or four for a text, and the data.  Bytes are      *)
(* numbers here and offsets count from 0, as in the code; a step is one    *)
(* field of a loop.                                                        *)
(***************************************************************************)
EXTENDS Integers, Sequences

CONSTANTS
    Values,     \* the values that fields take
    GrowBy,     \* by so many bytes the buffer grows (1024)
    MaxLength,  \* the largest number of 16 bits (65535)
    nfields,    \* the number of fields that create_empty was told
    MaxHeader,  \* assumption about callers: bytes of header (255)
    MaxData     \* assumption about callers: bytes of data

SQL_NULL == 0
SQL_INTEGER_1BYTE == 1
SQL_INTEGER_2BYTE == 2
SQL_INTEGER_4BYTE == 4
SQL_TEXT == 13

Byte == 0 .. 255
Word8(n) == n % 256
Word16(n) == n % (MaxLength + 1)

NullValue == [kind |-> "null"]
IntValue(kind, n) == [kind |-> kind, n |-> n]
TextValue(chars) == [kind |-> "text", chars |-> chars]

Int8 == -128 .. 127
Int16 == {n \in Int : n \div 256 \in Int8}
Int32 == {n \in Int : n \div 65536 \in Int16}

Value ==
    {NullValue}
      \cup [kind : {"int8"}, n : Int8]
      \cup [kind : {"int16"}, n : Int16]
      \cup [kind : {"int32"}, n : Int32]
      \cup [kind : {"text"}, chars : Seq(Byte)]

(* The header's size is kept in a byte, the buffer's and the record's in   *)
(* 16 bits, and the buffer grows at most once for a field: callers append  *)
(* no text of more bytes, and nothing that goes beyond these sizes.        *)
ASSUME RecordsAssumption ==
    /\ Values \subseteq Value
    /\ \A v \in Values : v.kind = "text" => Len(v.chars) <= GrowBy
    /\ GrowBy \in Nat /\ GrowBy >= 4
    /\ MaxLength \in Nat /\ MaxLength <= 65535
    /\ nfields \in Nat
    /\ MaxHeader \in 1 .. 255
    /\ MaxData \in Nat
    /\ MaxData + GrowBy <= MaxLength /\ MaxData + MaxHeader <= MaxLength

VARIABLES
    values,         \* history: the values that were appended
    starts,         \* history: where the data of each field begins
    heads,          \* history: where the type of each field goes
    types,          \* dbr->types of the record that is built
    offsets,        \* dbr->offsets
    data,           \* dbr->data, up to dbrb->offset
    buf_size,       \* bytes allocated for the data
    header_size,    \* bytes the header will take
    phase,          \* what is being done to the record
    raw,            \* the packed record
    field,          \* how many fields are packed
    header_pos,     \* position in the header, packing or unpacking
    uTypes,         \* dbr->types of the record that is unpacked
    uOffsets,       \* its dbr->offsets
    offset,         \* where the data of the next field begins
    uData           \* its dbr->data

built == <<values, starts, heads, types, offsets, data, buf_size, header_size>>
packing == <<raw, field>>
unpacked == <<uTypes, uOffsets, offset, uData>>
vars == <<built, phase, packing, header_pos, unpacked>>
-----------------------------------------------------------------------------
(* Integers in bytes, the first byte the highest; negative ones in two's   *)
(* complement (the casts of appendInt8, put2byte and put4byte).            *)

put1byte(n) == <<Word8(n)>>
put2byte(n) == <<Word8(n \div 256), Word8(n)>>
put4byte(n) ==
    <<Word8((n \div 65536) \div 256), Word8(n \div 65536), Word8(n \div 256), Word8(n)>>

(* What getInt8, getInt16 and getInt32 make of the bytes from offset o.    *)
Signed(b) == IF b >= 128 THEN b - 256 ELSE b

get1byte(bytes, o) == Signed(bytes[o + 1])
get2byte(bytes, o) == Signed(bytes[o + 1]) * 256 + bytes[o + 2]
get4byte(bytes, o) ==
    get2byte(bytes, o) * 65536 + (bytes[o + 3] * 256 + bytes[o + 4])

(* A varint32: 28 bits, seven in each byte, the first three marked.        *)
PutVarint(t) ==
    <<128 + (((t \div 16384) \div 128) % 128), 128 + ((t \div 16384) % 128),
      128 + ((t \div 128) % 128), t % 128>>

GetVarint(bytes, o) ==
    ((bytes[o + 1] % 128) * 128 + (bytes[o + 2] % 128)) * 16384
      + ((bytes[o + 3] % 128) * 128 + (bytes[o + 4] % 128))

(* The memory bytes with add written to it at offset o; what goes beyond   *)
(* the memory is lost.                                                     *)
PutAt(bytes, o, add) ==
    [i \in 1 .. Len(bytes) |->
        IF o < i /\ i <= o + Len(add) THEN add[i - o] ELSE bytes[i]]
-----------------------------------------------------------------------------
(* Types.                                                                  *)

TypeOf(v) ==
    IF v.kind = "null" THEN SQL_NULL
    ELSE IF v.kind = "int8" THEN SQL_INTEGER_1BYTE
    ELSE IF v.kind = "int16" THEN SQL_INTEGER_2BYTE
    ELSE IF v.kind = "int32" THEN SQL_INTEGER_4BYTE
    ELSE 2 * Len(v.chars) + SQL_TEXT

getType(t) ==
    IF t = SQL_NULL THEN "null"
    ELSE IF t = SQL_INTEGER_1BYTE THEN "int8"
    ELSE IF t = SQL_INTEGER_2BYTE THEN "int16"
    ELSE IF t = SQL_INTEGER_4BYTE THEN "int32"
    ELSE IF (t - SQL_TEXT) % 2 = 0 THEN "text" ELSE "invalid"

getStringLength(t) == (t - SQL_TEXT) \div 2

DataOf(v) ==
    IF v.kind = "null" THEN <<>>
    ELSE IF v.kind = "int8" THEN put1byte(v.n)
    ELSE IF v.kind = "int16" THEN put2byte(v.n)
    ELSE IF v.kind = "int32" THEN put4byte(v.n)
    ELSE v.chars

(* Mutant: the type of a text is taken for one byte.                       *)
HeaderBytesOne(v) == 1

HeaderBytes(v) == IF v.kind = "text" THEN 4 ELSE 1

(* The value of a field of type t whose data begin at offset o: the        *)
(* getters, among which the opcode Column chooses.                         *)
FieldAt(bytes, o, t) ==
    IF getType(t) = "null" THEN NullValue
    ELSE IF getType(t) = "int8" THEN IntValue("int8", get1byte(bytes, o))
    ELSE IF getType(t) = "int16" THEN IntValue("int16", get2byte(bytes, o))
    ELSE IF getType(t) = "int32" THEN IntValue("int32", get4byte(bytes, o))
    ELSE TextValue([j \in 1 .. getStringLength(t) |-> bytes[o + j]])
-----------------------------------------------------------------------------
(* Building a record.                                                      *)

Init ==
    /\ values = <<>> /\ starts = <<>> /\ heads = <<>>
    /\ types = <<>> /\ offsets = <<>> /\ data = <<>>
    /\ buf_size = GrowBy
    /\ header_size = 1
    /\ phase = "append"
    /\ raw = <<>> /\ field = 0 /\ header_pos = 0
    /\ uTypes = <<>> /\ uOffsets = <<>> /\ offset = 0 /\ uData = <<>>

(* Mutant: the room is looked at before the field is counted.              *)
GrowLate(len) ==
    buf_size' = IF Len(data) > buf_size THEN Word16(buf_size + GrowBy) ELSE buf_size

Grow(len) ==
    buf_size' = IF Len(data) + len > buf_size
                THEN Word16(buf_size + GrowBy) ELSE buf_size

(* What the five append functions have in common.  A caller keeps to the   *)
(* sizes that a header and a buffer can have; the code does not look.      *)
AppendValue(v, o) ==
    /\ phase = "append"
    /\ Len(types) < nfields
    /\ header_size + HeaderBytes(v) <= MaxHeader
    /\ Len(data) + Len(DataOf(v)) <= MaxData
    /\ offsets' = Append(offsets, o)
    /\ types' = Append(types, TypeOf(v))
    /\ data' = data \o DataOf(v)
    /\ Grow(Len(DataOf(v)))
    /\ header_size' = Word8(header_size + HeaderBytes(v))
    /\ values' = Append(values, v)
    /\ starts' = Append(starts, Len(data))
    /\ heads' = Append(heads, header_size)
    /\ UNCHANGED <<phase, packing, header_pos, unpacked>>

appendInt(v) == v.kind \in {"int8", "int16", "int32"} /\ AppendValue(v, Len(data))
appendNull(v) == v.kind = "null" /\ AppendValue(v, 0)
appendString(v) == v.kind = "text" /\ AppendValue(v, Len(data))

(* The loop of chidb_DBRecord_create over a specification, or that of the  *)
(* opcode MakeRecord over registers.                                       *)
AppendField == \E v \in Values : appendInt(v) \/ appendNull(v) \/ appendString(v)

(* chidb_DBRecord_finalize, and the beginning of chidb_DBRecord_pack.      *)
packed_len == header_size + Len(data)

Junk == -1  \* what fresh memory holds: no byte that may be relied on

finalize ==
    /\ phase = "append"
    /\ phase' = "pack"
    /\ raw' = PutAt([i \in 1 .. packed_len |-> Junk], 0, <<Word8(packed_len - Len(data))>>)
    /\ header_pos' = 1
    /\ UNCHANGED <<built, field, unpacked>>

(* One round of chidb_DBRecord_pack.                                       *)
packField ==
    /\ phase = "pack"
    /\ field < Len(types)
    /\ LET t == types[field + 1]
           bytes == IF getType(t) = "text" THEN PutVarint(t) ELSE <<Word8(t)>>
       IN  /\ raw' = PutAt(raw, header_pos, bytes)
           /\ header_pos' = Word8(header_pos + Len(bytes))
    /\ field' = field + 1
    /\ UNCHANGED <<built, phase, unpacked>>

(* The end of chidb_DBRecord_pack.                                         *)
packData ==
    /\ phase = "pack"
    /\ field = Len(types)
    /\ raw' = PutAt(raw, raw[1], data)
    /\ phase' = "insert"
    /\ UNCHANGED <<built, field, header_pos, unpacked>>

(* The opcode Insert: a cell takes so many bytes of the record as the      *)
(* length of 16 bits says.  Reading the cell, chidb_DBRecord_unpack starts. *)
Insert ==
    /\ phase = "insert"
    /\ raw' = SubSeq(raw, 1, Word16(packed_len))
    /\ header_pos' = 1
    /\ phase' = "types"
    /\ UNCHANGED <<built, field, unpacked>>
-----------------------------------------------------------------------------
(* Unpacking a record.                                                     *)

IsVarint(b) == b >= 128

unpackType ==
    /\ phase = "types"
    /\ header_pos < raw[1]
    /\ LET long == IsVarint(raw[header_pos + 1])
       IN  /\ uTypes' = Append(uTypes, IF long THEN GetVarint(raw, header_pos)
                                                ELSE raw[header_pos + 1])
           /\ header_pos' = Word8(header_pos + (IF long THEN 4 ELSE 1))
    /\ UNCHANGED <<built, phase, packing, uOffsets, offset, uData>>

typesRead ==
    /\ phase = "types"
    /\ header_pos >= raw[1]
    /\ phase' = "offsets"
    /\ UNCHANGED <<built, packing, header_pos, unpacked>>

WidthOf(t) ==
    IF getType(t) = "int8" THEN 1
    ELSE IF getType(t) = "int16" THEN 2
    ELSE IF getType(t) = "int32" THEN 4
    ELSE IF getType(t) = "text" THEN getStringLength(t)
    ELSE 0

unpackOffset ==
    /\ phase = "offsets"
    /\ Len(uOffsets) < Len(uTypes)
    /\ uOffsets' = Append(uOffsets, offset)
    /\ offset' = offset + WidthOf(uTypes[Len(uOffsets) + 1])
    /\ UNCHANGED <<built, phase, packing, header_pos, uTypes, uData>>

(* Mutant: the data are taken from the last byte of the header on.         *)
CopiedEarly(bytes, o, len) == SubSeq(bytes, o, o + len - 1)

Copied(bytes, o, len) == SubSeq(bytes, o + 1, o + len)

unpackData ==
    /\ phase = "offsets"
    /\ Len(uOffsets) = Len(uTypes)
    /\ uData' = Copied(raw, raw[1], offset)
    /\ phase' = "done"
    /\ UNCHANGED <<built, packing, header_pos, uTypes, uOffsets, offset>>

Next ==
    \/ AppendField \/ finalize \/ packField \/ packData \/ Insert
    \/ unpackType \/ typesRead \/ unpackOffset \/ unpackData

Spec == Init /\ [][Next]_vars
-----------------------------------------------------------------------------
(* What every state of the record is like.                                 *)
TypeOK ==
    /\ values \in Seq(Values)
    /\ types \in Seq(Nat) /\ offsets \in Seq(Nat)
    /\ starts \in Seq(Nat) /\ heads \in Seq(Nat)
    /\ data \in Seq(Byte)
    /\ buf_size \in Nat /\ header_size \in Byte
    /\ phase \in {"append", "pack", "insert", "types", "offsets", "done"}
    /\ raw \in Seq(Byte \cup {Junk})
    /\ field \in Nat /\ header_pos \in Byte
    /\ uTypes \in Seq(Nat) /\ uOffsets \in Seq(Nat)
    /\ offset \in Nat /\ uData \in Seq(Byte)

(* Every append writes inside the memory that the buffer has allocated: it *)
(* grows by one step at a time and its size, a number of 16 bits, is       *)
(* never wrapped round (the append functions).                             *)
DataFitsBuffer == Len(data) <= buf_size

(* No read of the header goes past the end of the packed record, nor does  *)
(* the copy of the data: the size in the first byte, the types and the     *)
(* length that Insert passes agree (chidb_DBRecord_unpack).                *)
ReadsStayInRecord ==
    /\ phase = "types" /\ header_pos < raw[1] =>
         /\ header_pos < Len(raw)
         /\ IsVarint(raw[header_pos + 1]) => header_pos + 4 <= Len(raw)
    /\ phase = "offsets" /\ Len(uOffsets) = Len(uTypes) => raw[1] + offset <= Len(raw)

(* A record that was packed, inserted and unpacked has the fields that     *)
(* were appended, in their order and with their values, whether they are   *)
(* read from the record that was built or from the one that was unpacked.  *)
RoundTrip ==
    phase = "done" =>
      /\ Len(uTypes) = Len(values) /\ Len(types) = Len(values)
      /\ \A i \in 1 .. Len(values) :
           /\ FieldAt(uData, uOffsets[i], uTypes[i]) = values[i]
           /\ FieldAt(data, offsets[i], types[i]) = values[i]
=============================================================================
