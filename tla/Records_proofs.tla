--------------------------- MODULE Records_proofs ---------------------------
(***************************************************************************)
(* Proofs about Records: for all values, sizes of the buffer and numbers   *)
(* of fields, the appends stay in the buffer, reading a packed record      *)
(* stays in the record, and what is read is what was appended.             *)
(*                                                                         *)
(* The inductive invariant relates the history variables starts and heads  *)
(* (where the data and the type of each field go) to the record that is    *)
(* built (Built), to the packed bytes (Packed) and to the progress of the  *)
(* loops of chidb_DBRecord_unpack (Unpacked).                              *)
(***************************************************************************)
EXTENDS Records, TLAPS

(* The bytes of a value's type in the header.                              *)
TypeBytes(v) == IF v.kind = "text" THEN PutVarint(TypeOf(v)) ELSE <<TypeOf(v)>>

(* The beginnings of the fields, and behind them the end.                  *)
StartOf(i) == IF i = Len(values) + 1 THEN Len(data) ELSE starts[i]
HeadOf(i) == IF i = Len(values) + 1 THEN header_size ELSE heads[i]

Lengths ==
    /\ Len(types) = Len(values) /\ Len(offsets) = Len(values)
    /\ Len(starts) = Len(values) /\ Len(heads) = Len(values)

FieldBuilt(i) ==
    /\ types[i] = TypeOf(values[i])
    /\ offsets[i] = IF values[i].kind = "null" THEN 0 ELSE starts[i]
    /\ \A j \in 1 .. Len(DataOf(values[i])) : data[starts[i] + j] = DataOf(values[i])[j]

Adjacent(i) ==
    /\ StartOf(i + 1) = starts[i] + Len(DataOf(values[i]))
    /\ HeadOf(i + 1) = heads[i] + HeaderBytes(values[i])
    /\ StartOf(i + 1) <= Len(data)
    /\ HeadOf(i + 1) <= header_size
    /\ heads[i] >= 1
    /\ \A k \in 1 .. Len(values) : i < k => HeadOf(i + 1) <= heads[k]

Built ==
    /\ Lengths
    /\ StartOf(1) = 0 /\ HeadOf(1) = 1
    /\ header_size <= MaxHeader /\ header_size >= 1 /\ Len(data) <= MaxData
    /\ \A i \in 1 .. Len(values) : FieldBuilt(i)
    /\ \A i \in 1 .. Len(values) : Adjacent(i)

Room == Len(data) <= buf_size /\ buf_size <= Len(data) + GrowBy

HeaderPacked(i) ==
    \A j \in 1 .. HeaderBytes(values[i]) : raw[heads[i] + j] = TypeBytes(values[i])[j]

Packed ==
    /\ phase \in {"append", "pack"} => field <= Len(values)
    /\ phase = "append" => field = 0
    /\ phase # "append" => Len(raw) = packed_len /\ raw[1] = header_size
    /\ phase = "pack" => /\ header_pos = HeadOf(field + 1)
                         /\ \A i \in 1 .. field : HeaderPacked(i)
    /\ phase \notin {"append", "pack"} =>
         /\ \A i \in 1 .. Len(values) : HeaderPacked(i)
         /\ \A j \in 1 .. Len(data) : raw[header_size + j] = data[j]

Unpacked ==
    /\ phase \in {"append", "pack", "insert"} => uTypes = <<>>
    /\ phase = "types" => header_pos = HeadOf(Len(uTypes) + 1)
    /\ Len(uTypes) <= Len(values)
    /\ \A i \in 1 .. Len(uTypes) : uTypes[i] = types[i]
    /\ phase \notin {"offsets", "done"} => uOffsets = <<>> /\ offset = 0
    /\ phase \in {"offsets", "done"} =>
         /\ Len(uTypes) = Len(values)
         /\ offset = StartOf(Len(uOffsets) + 1)
    /\ Len(uOffsets) <= Len(values)
    /\ \A i \in 1 .. Len(uOffsets) : uOffsets[i] = starts[i]
    /\ phase = "done" =>
         /\ Len(uOffsets) = Len(values)
         /\ Len(uData) = Len(data)
         /\ \A j \in 1 .. Len(data) : uData[j] = data[j]

IInv == TypeOK /\ Built /\ Room /\ Packed /\ Unpacked
-----------------------------------------------------------------------------
(* Values and their bytes.                                                 *)

(* An int8 is the byte it was made into.                                   *)
LEMMA Int8Bytes ==
    ASSUME NEW n \in Int8
    PROVE  /\ put1byte(n) \in Seq(Byte) /\ Len(put1byte(n)) = 1
           /\ Signed(put1byte(n)[1]) = n
BY SMT DEF put1byte, Byte, Word8, Signed, Int8

(* Two bytes hold the lower 16 bits of a number.                           *)
LEMMA TwoBytes ==
    ASSUME NEW n \in Int
    PROVE  /\ put2byte(n) \in Seq(Byte) /\ Len(put2byte(n)) = 2
           /\ put2byte(n)[1] * 256 + put2byte(n)[2] = n % 65536
<1>1. /\ Word8(n \div 256) \in Byte /\ Word8(n) \in Byte
      /\ Word8(n \div 256) * 256 + Word8(n) = n % 65536
    BY SMT DEF Word8, Byte
<1>2. QED BY <1>1, SMT DEF put2byte

(* An int16 is what put2byte and get2byte make of it.                      *)
LEMMA Int16Bytes ==
    ASSUME NEW n \in Int16
    PROVE  Signed(put2byte(n)[1]) * 256 + put2byte(n)[2] = n
<1> DEFINE h == n \div 256
           l == n % 256
<1>1. h \in -128 .. 127 /\ l \in 0 .. 255 /\ n = h * 256 + l
    BY SMT DEF Int16, Int8
<1>2. put2byte(n)[1] = h % 256 /\ put2byte(n)[2] = l
    BY DEF put2byte, Word8
<1> HIDE DEF h, l
<1>3. Signed(h % 256) = h
    BY <1>1, SMT DEF Signed
<1>4. QED BY <1>1, <1>2, <1>3, SMT

(* An int32 is what put4byte and get4byte make of it.                      *)
LEMMA Int32Bytes ==
    ASSUME NEW n \in Int32
    PROVE  /\ put4byte(n) \in Seq(Byte) /\ Len(put4byte(n)) = 4
           /\ (Signed(put4byte(n)[1]) * 256 + put4byte(n)[2]) * 65536
                + (put4byte(n)[3] * 256 + put4byte(n)[4]) = n
<1> DEFINE h == n \div 65536
<1>1. n \in Int /\ h \in Int16 /\ h \in Int /\ n = h * 65536 + (n % 65536)
    BY SMT DEF Int32, Int16
<1> HIDE DEF h
<1>2. /\ put2byte(h) \in Seq(Byte) /\ Len(put2byte(h)) = 2
      /\ Signed(put2byte(h)[1]) * 256 + put2byte(h)[2] = h
    BY <1>1, TwoBytes, Int16Bytes
<1>3. /\ put2byte(n) \in Seq(Byte) /\ Len(put2byte(n)) = 2
      /\ put2byte(n)[1] * 256 + put2byte(n)[2] = n % 65536
    BY <1>1, TwoBytes
<1>4. /\ put4byte(n) = <<Word8(h \div 256), Word8(h), Word8(n \div 256), Word8(n)>>
      /\ put2byte(h) = <<Word8(h \div 256), Word8(h)>>
      /\ put2byte(n) = <<Word8(n \div 256), Word8(n)>>
    BY DEF put4byte, put2byte, h
<1>5. /\ put4byte(n)[1] = put2byte(h)[1] /\ put4byte(n)[2] = put2byte(h)[2]
      /\ put4byte(n)[3] = put2byte(n)[1] /\ put4byte(n)[4] = put2byte(n)[2]
      /\ Len(put4byte(n)) = 4
    BY <1>4, SMT
<1>6. put4byte(n) \in Seq(Byte)
    BY <1>1, <1>4, SMT DEF Byte, Word8
<1>7. (Signed(put2byte(h)[1]) * 256 + put2byte(h)[2]) * 65536
        + (put2byte(n)[1] * 256 + put2byte(n)[2]) = n
    BY <1>1, <1>2, <1>3
<1>8. QED BY <1>5, <1>6, <1>7

(* A type of up to 28 bits is what putVarint32 and getVarint32 make of it. *)
LEMMA VarintBytes ==
    ASSUME NEW t \in Nat, t \div 16384 < 16384
    PROVE  /\ PutVarint(t) \in Seq(Byte) /\ Len(PutVarint(t)) = 4
           /\ PutVarint(t)[1] >= 128
           /\ ((PutVarint(t)[1] % 128) * 128 + (PutVarint(t)[2] % 128)) * 16384
                + ((PutVarint(t)[3] % 128) * 128 + (PutVarint(t)[4] % 128)) = t
<1> DEFINE h == t \div 16384
           a == (h \div 128) % 128
           b == h % 128
           c == (t \div 128) % 128
           d == t % 128
<1>1. /\ a \in 0 .. 127 /\ b \in 0 .. 127 /\ c \in 0 .. 127 /\ d \in 0 .. 127
      /\ (a * 128 + b) * 16384 + (c * 128 + d) = t
    BY SMT
<1>2. PutVarint(t) = <<128 + a, 128 + b, 128 + c, d>>
    BY DEF PutVarint
<1> HIDE DEF a, b, c, d, h
<1>3. (128 + a) % 128 = a /\ (128 + b) % 128 = b /\ (128 + c) % 128 = c /\ d % 128 = d
    BY <1>1, SMT
<1>4. QED BY <1>1, <1>2, <1>3, SMT DEF Byte

(* The five kinds of values.                                               *)
LEMMA Kinds ==
    ASSUME NEW v \in Values
    PROVE  \/ v.kind = "null" /\ v = NullValue
           \/ v.kind = "int8" /\ v.n \in Int8 /\ v = IntValue("int8", v.n)
           \/ v.kind = "int16" /\ v.n \in Int16 /\ v = IntValue("int16", v.n)
           \/ v.kind = "int32" /\ v.n \in Int32 /\ v = IntValue("int32", v.n)
           \/ /\ v.kind = "text" /\ v.chars \in Seq(Byte) /\ v = TextValue(v.chars)
              /\ Len(v.chars) <= GrowBy /\ Len(v.chars) \in Nat
<1>1. v \in Value
    BY RecordsAssumption
<1>2. CASE v \in {NullValue}
    BY <1>2 DEF NullValue
<1>3. CASE v \in [kind : {"int8"}, n : Int8]
    BY <1>3 DEF IntValue
<1>4. CASE v \in [kind : {"int16"}, n : Int16]
    BY <1>4 DEF IntValue
<1>5. CASE v \in [kind : {"int32"}, n : Int32]
    BY <1>5 DEF IntValue
<1>6. CASE v \in [kind : {"text"}, chars : Seq(Byte)]
    <2>1. v.kind = "text" /\ v.chars \in Seq(Byte) /\ v = TextValue(v.chars)
        BY <1>6 DEF TextValue
    <2>2. Len(v.chars) <= GrowBy
        BY <2>1, RecordsAssumption
    <2>3. QED BY <2>1, <2>2
<1>7. QED BY <1>1, <1>2, <1>3, <1>4, <1>5, <1>6 DEF Value

(* The type of a value tells its kind and how many bytes it has.           *)
LEMMA ValueFacts ==
    ASSUME NEW v \in Values
    PROVE  /\ DataOf(v) \in Seq(Byte) /\ Len(DataOf(v)) \in Nat /\ Len(DataOf(v)) <= GrowBy
           /\ TypeOf(v) \in Nat /\ getType(TypeOf(v)) = v.kind
           /\ WidthOf(TypeOf(v)) = Len(DataOf(v))
           /\ HeaderBytes(v) \in {1, 4} /\ (HeaderBytes(v) = 4 <=> v.kind = "text")
           /\ v.kind = "text" => TypeOf(v) = 2 * Len(v.chars) + 13
           /\ v.kind = "text" => getStringLength(TypeOf(v)) = Len(v.chars)
           /\ v.kind # "text" => TypeOf(v) <= 4
<1> USE DEF SQL_NULL, SQL_INTEGER_1BYTE, SQL_INTEGER_2BYTE, SQL_INTEGER_4BYTE, SQL_TEXT
<1>a. GrowBy \in Nat /\ GrowBy >= 4
    BY RecordsAssumption
<1>b. /\ getType(0) = "null" /\ getType(1) = "int8" /\ getType(2) = "int16"
      /\ getType(4) = "int32"
    BY DEF getType
<1>1. CASE v.kind = "null"
    <2>1. <<>> \in Seq(Byte) /\ Len(<<>>) = 0
        OBVIOUS
    <2>2. DataOf(v) = <<>> /\ TypeOf(v) = 0 /\ HeaderBytes(v) = 1
        BY <1>1 DEF DataOf, TypeOf, HeaderBytes
    <2>3. WidthOf(0) = 0
        BY <1>b DEF WidthOf
    <2>4. QED BY <1>1, <2>1, <2>2, <2>3, <1>a, <1>b, SMT
<1>2. CASE v.kind = "int8" /\ v.n \in Int8
    <2>2. DataOf(v) = put1byte(v.n) /\ TypeOf(v) = 1 /\ HeaderBytes(v) = 1
        BY <1>2 DEF DataOf, TypeOf, HeaderBytes
    <2>3. WidthOf(1) = 1
        BY <1>b DEF WidthOf
    <2>4. Len(DataOf(v)) = 1 /\ DataOf(v) \in Seq(Byte)
        BY <1>2, <2>2, Int8Bytes
    <2>5. v.kind # "text" /\ v.kind = "int8"
        BY <1>2
    <2>6. 1 <= GrowBy
        BY <1>a
    <2>7. QED BY <2>2, <2>3, <2>4, <2>5, <2>6, <1>b
<1>3. CASE v.kind = "int16" /\ v.n \in Int16
    <2>1. put2byte(v.n) \in Seq(Byte) /\ Len(put2byte(v.n)) = 2
        BY <1>3, TwoBytes DEF Int16
    <2>2. DataOf(v) = put2byte(v.n) /\ TypeOf(v) = 2 /\ HeaderBytes(v) = 1
        BY <1>3 DEF DataOf, TypeOf, HeaderBytes
    <2>3. WidthOf(2) = 2
        BY <1>b DEF WidthOf
    <2>4. Len(DataOf(v)) = 2 /\ DataOf(v) \in Seq(Byte)
        BY <2>1, <2>2
    <2>5. v.kind # "text" /\ v.kind = "int16"
        BY <1>3
    <2>6. 2 <= GrowBy
        BY <1>a
    <2>7. QED BY <2>2, <2>3, <2>4, <2>5, <2>6, <1>b
<1>4. CASE v.kind = "int32" /\ v.n \in Int32
    <2>2. DataOf(v) = put4byte(v.n) /\ TypeOf(v) = 4 /\ HeaderBytes(v) = 1
        BY <1>4 DEF DataOf, TypeOf, HeaderBytes
    <2>3. WidthOf(4) = 4
        BY <1>b DEF WidthOf
    <2>4. Len(DataOf(v)) = 4 /\ DataOf(v) \in Seq(Byte)
        BY <1>4, <2>2, Int32Bytes
    <2>5. v.kind # "text" /\ v.kind = "int32"
        BY <1>4
    <2>6. 4 <= GrowBy
        BY <1>a
    <2>7. QED BY <2>2, <2>3, <2>4, <2>5, <2>6, <1>b
<1>5. CASE v.kind = "text" /\ v.chars \in Seq(Byte) /\ Len(v.chars) <= GrowBy /\ Len(v.chars) \in Nat
    <2>0. PICK k \in Nat : k = Len(v.chars)
        BY <1>5
    <2> DEFINE t == 2 * k + 13
    <2>1. t \in Nat /\ t > 4 /\ (t - 13) % 2 = 0 /\ (t - 13) \div 2 = k
        BY SMT
    <2>2. TypeOf(v) = t /\ DataOf(v) = v.chars /\ HeaderBytes(v) = 4
        BY <1>5, <2>0 DEF TypeOf, DataOf, HeaderBytes
    <2> HIDE DEF t
    <2>4. getType(t) = "text" /\ getStringLength(t) = k
        BY <2>1, SMT DEF getType, getStringLength
    <2>5. WidthOf(t) = k
        BY <2>4 DEF WidthOf
    <2>6. TypeOf(v) = 2 * Len(v.chars) + 13
        BY <2>0, <2>2 DEF t
    <2>7. QED BY <1>5, <2>0, <2>1, <2>2, <2>4, <2>5, <2>6
<1>6. QED BY <1>1, <1>2, <1>3, <1>4, <1>5, Kinds

(* The type of a text takes no more than 28 bits.                          *)
LEMMA TextType ==
    ASSUME NEW v \in Values, v.kind = "text"
    PROVE  TypeOf(v) \in Nat /\ TypeOf(v) \div 16384 < 16384
<1>1. PICK k \in Nat : k = Len(v.chars)
    BY Kinds
<1>2. k <= 65535
    <2>1. k <= GrowBy
        BY <1>1, RecordsAssumption
    <2>2. GrowBy \in Nat /\ MaxData \in Nat /\ MaxData + GrowBy <= MaxLength /\ MaxLength \in Nat
          /\ MaxLength <= 65535
        BY RecordsAssumption
    <2>3. QED BY <2>1, <2>2, SMT
<1>3. TypeOf(v) = 2 * k + 13
    BY <1>1, ValueFacts
<1>4. (2 * k + 13) \div 16384 < 16384
    BY <1>2, SMT
<1>5. QED BY <1>3, <1>4

(* The getters give back a value whose bytes lie where its data begin.     *)
LEMMA FieldOfData ==
    ASSUME NEW v \in Values, NEW bytes, NEW o \in Nat,
           v.kind # "null" => \A j \in 1 .. Len(DataOf(v)) : bytes[o + j] = DataOf(v)[j]
    PROVE  FieldAt(bytes, o, TypeOf(v)) = v
<1>1. getType(TypeOf(v)) = v.kind
    BY ValueFacts
<1>2. CASE v.kind = "null" /\ v = NullValue
    BY <1>1, <1>2 DEF FieldAt
<1>3. CASE v.kind = "int8" /\ v.n \in Int8 /\ v = IntValue("int8", v.n)
    <2>1. DataOf(v) = put1byte(v.n) /\ Len(put1byte(v.n)) = 1
        BY <1>3, Int8Bytes DEF DataOf
    <2>2. bytes[o + 1] = put1byte(v.n)[1]
        BY <1>3, <2>1
    <2>3. get1byte(bytes, o) = v.n
        BY <1>3, <2>2, Int8Bytes DEF get1byte
    <2>4. QED BY <1>1, <1>3, <2>3 DEF FieldAt
<1>4. CASE v.kind = "int16" /\ v.n \in Int16 /\ v = IntValue("int16", v.n)
    <2>1. DataOf(v) = put2byte(v.n) /\ Len(put2byte(v.n)) = 2
        BY <1>4, TwoBytes DEF DataOf, Int16
    <2>2. bytes[o + 1] = put2byte(v.n)[1] /\ bytes[o + 2] = put2byte(v.n)[2]
        BY <1>4, <2>1
    <2>3. get2byte(bytes, o) = v.n
        BY <1>4, <2>2, Int16Bytes DEF get2byte
    <2>4. QED BY <1>1, <1>4, <2>3 DEF FieldAt
<1>5. CASE v.kind = "int32" /\ v.n \in Int32 /\ v = IntValue("int32", v.n)
    <2>1. DataOf(v) = put4byte(v.n) /\ Len(put4byte(v.n)) = 4
        BY <1>5, Int32Bytes DEF DataOf
    <2>2. /\ bytes[o + 1] = put4byte(v.n)[1] /\ bytes[o + 2] = put4byte(v.n)[2]
          /\ bytes[o + 3] = put4byte(v.n)[3] /\ bytes[o + 4] = put4byte(v.n)[4]
        BY <1>5, <2>1
    <2>3. get4byte(bytes, o) = v.n
        BY <1>5, <2>2, Int32Bytes DEF get4byte, get2byte
    <2>4. QED BY <1>1, <1>5, <2>3 DEF FieldAt
<1>6. CASE v.kind = "text" /\ v.chars \in Seq(Byte) /\ v = TextValue(v.chars)
    <2>1. getStringLength(TypeOf(v)) = Len(v.chars) /\ DataOf(v) = v.chars
        BY <1>6, ValueFacts DEF DataOf
    <2>2. \A j \in 1 .. Len(v.chars) : bytes[o + j] = v.chars[j]
        BY <1>6, <2>1
    <2>3. [j \in 1 .. Len(v.chars) |-> bytes[o + j]] = [j \in 1 .. Len(v.chars) |-> v.chars[j]]
        BY <2>2
    <2>4. [j \in 1 .. Len(v.chars) |-> v.chars[j]] = v.chars
        BY <1>6
    <2>5. FieldAt(bytes, o, TypeOf(v)) = TextValue(v.chars)
        BY <1>1, <1>6, <2>1, <2>3, <2>4 DEF FieldAt
    <2>6. QED BY <1>6, <2>5
<1>7. QED BY <1>2, <1>3, <1>4, <1>5, <1>6, Kinds
-----------------------------------------------------------------------------
(* The initial states, and the steps that build a record.                  *)

(* An empty buffer satisfies the invariant (chidb_DBRecord_create_empty).*)
LEMMA InitInv == Init => IInv
<1> SUFFICES ASSUME Init PROVE IInv
    OBVIOUS
<1> USE DEF Init
<1>1. TypeOK
    BY RecordsAssumption, SMT DEF TypeOK, Byte
<1>2. Len(values) = 0 /\ Len(data) = 0 /\ Len(types) = 0 /\ Len(offsets) = 0
      /\ Len(starts) = 0 /\ Len(heads) = 0 /\ Len(uTypes) = 0 /\ Len(uOffsets) = 0
    OBVIOUS
<1>3. Built
    BY <1>2, RecordsAssumption, SMT DEF Built, Lengths, StartOf, HeadOf
<1>4. Room
    BY <1>2, RecordsAssumption, SMT DEF Room
<1>5. Packed
    BY <1>2, SMT DEF Packed
<1>6. Unpacked
    BY <1>2, SMT DEF Unpacked
<1>7. QED BY <1>1, <1>3, <1>4, <1>5, <1>6 DEF IInv

(* What is known of a sequence to which an element was appended.           *)
LEMMA Appended ==
    ASSUME NEW S, NEW s \in Seq(S), NEW e \in S
    PROVE  /\ Len(Append(s, e)) = Len(s) + 1
           /\ Append(s, e)[Len(s) + 1] = e
           /\ \A i \in 1 .. Len(s) : Append(s, e)[i] = s[i]
OBVIOUS

(* A field is appended behind the others, which stay as they are.          *)
LEMMA AppendBuilt ==
    ASSUME TypeOK, Built, NEW v \in Values, NEW o \in Nat, AppendValue(v, o),
           o = IF v.kind = "null" THEN 0 ELSE Len(data)
    PROVE  Built' /\ Len(data') = Len(data) + Len(DataOf(v)) /\ data' \in Seq(Byte)
           /\ header_size' = header_size + HeaderBytes(v)
<1>n. PICK n \in Nat : n = Len(values)
    BY DEF TypeOK
<1>k. PICK k \in Nat : k = n + 1
    OBVIOUS
<1>1. /\ n \in Nat /\ Len(data) \in Nat /\ header_size \in Nat
      /\ values \in Seq(Values) /\ types \in Seq(Nat) /\ offsets \in Seq(Nat)
      /\ starts \in Seq(Nat) /\ heads \in Seq(Nat) /\ data \in Seq(Byte)
      /\ \A i \in 1 .. n : starts[i] \in Nat /\ heads[i] \in Nat /\ values[i] \in Values
    <2>1. /\ values \in Seq(Values) /\ types \in Seq(Nat) /\ offsets \in Seq(Nat)
          /\ starts \in Seq(Nat) /\ heads \in Seq(Nat) /\ data \in Seq(Byte)
          /\ header_size \in Nat
        BY DEF TypeOK, Byte
    <2>2. Len(starts) = n /\ Len(heads) = n
        BY <1>n DEF Built, Lengths
    <2>3. Len(data) \in Nat
        BY <2>1
    <2>4. \A i \in 1 .. n : starts[i] \in Nat /\ heads[i] \in Nat /\ values[i] \in Values
        BY <1>n, <2>1, <2>2
    <2>5. QED BY <2>1, <2>3, <2>4
<1>2. /\ Len(types) = n /\ Len(offsets) = n /\ Len(starts) = n /\ Len(heads) = n
    BY <1>n, <1>k DEF Built, Lengths
<1>3. /\ DataOf(v) \in Seq(Byte) /\ Len(DataOf(v)) \in Nat
      /\ TypeOf(v) \in Nat /\ HeaderBytes(v) \in {1, 4}
    BY <1>n, <1>k, ValueFacts
<1>4. /\ values' = Append(values, v) /\ types' = Append(types, TypeOf(v))
      /\ offsets' = Append(offsets, o) /\ starts' = Append(starts, Len(data))
      /\ heads' = Append(heads, header_size) /\ data' = data \o DataOf(v)
      /\ header_size + HeaderBytes(v) <= MaxHeader
      /\ header_size' = Word8(header_size + HeaderBytes(v))
      /\ Len(data) + Len(DataOf(v)) <= MaxData
    BY <1>n, <1>k DEF AppendValue
<1>5. header_size' = header_size + HeaderBytes(v) /\ header_size' <= MaxHeader /\ header_size' >= 1
    <2>1. MaxHeader \in 1 .. 255 /\ header_size >= 1 /\ header_size \in Nat
        BY <1>1, RecordsAssumption DEF Built
    <2>2. PICK h \in Nat : h = header_size + HeaderBytes(v)
        BY <2>1, <1>3
    <2>3. h >= 1
        BY <2>1, <2>2, <1>3, SMT
    <2>4. h <= MaxHeader /\ header_size' = h % 256
        BY <2>2, <1>4 DEF Word8
    <2>5. h % 256 = h
        BY <2>1, <2>3, <2>4, SMT
    <2>6. QED BY <2>2, <2>3, <2>4, <2>5
<1>6. /\ Len(values') = k /\ values'[k] = v /\ \A i \in 1 .. n : values'[i] = values[i]
      /\ Len(types') = k /\ types'[k] = TypeOf(v) /\ \A i \in 1 .. n : types'[i] = types[i]
      /\ Len(offsets') = k /\ offsets'[k] = o /\ \A i \in 1 .. n : offsets'[i] = offsets[i]
    <2>1. Len(values') = k /\ values'[k] = v /\ \A i \in 1 .. n : values'[i] = values[i]
        BY <1>n, <1>k, <1>1, <1>4, Appended
    <2>2. Len(types') = k /\ types'[k] = TypeOf(v) /\ \A i \in 1 .. n : types'[i] = types[i]
        <3>1. types \in Seq(Nat) /\ TypeOf(v) \in Nat /\ Len(types) = n
            BY <1>1, <1>2, <1>3
        <3>2. PICK t \in Nat : t = TypeOf(v)
            BY <3>1
        <3>3. types' = Append(types, t)
            BY <3>2, <1>4
        <3>4. Len(types') = k /\ types'[k] = t /\ \A i \in 1 .. n : types'[i] = types[i]
            BY <3>1, <3>3, <1>k, Appended
        <3>5. QED BY <3>2, <3>4
    <2>3. Len(offsets') = k /\ offsets'[k] = o /\ \A i \in 1 .. n : offsets'[i] = offsets[i]
        <3>1. offsets \in Seq(Nat) /\ o \in Nat /\ Len(offsets) = n
            BY <1>1, <1>2
        <3>2. QED BY <3>1, <1>k, <1>4, Appended
    <2>4. QED BY <2>1, <2>2, <2>3
<1>7. /\ Len(starts') = k /\ starts'[k] = Len(data) /\ \A i \in 1 .. n : starts'[i] = starts[i]
      /\ Len(heads') = k /\ heads'[k] = header_size /\ \A i \in 1 .. n : heads'[i] = heads[i]
    BY <1>n, <1>k, <1>1, <1>2, <1>3, <1>4, Appended
<1>8. /\ Len(data') = Len(data) + Len(DataOf(v)) /\ data' \in Seq(Byte)
      /\ \A j \in 1 .. Len(data) : data'[j] = data[j]
      /\ \A j \in 1 .. Len(DataOf(v)) : data'[Len(data) + j] = DataOf(v)[j]
    BY <1>n, <1>k, <1>1, <1>3, <1>4
<1>9. \A i \in 1 .. k : StartOf(i)' = StartOf(i) /\ HeadOf(i)' = HeadOf(i)
    <2> SUFFICES ASSUME NEW i \in 1 .. k PROVE StartOf(i)' = StartOf(i) /\ HeadOf(i)' = HeadOf(i)
        OBVIOUS
    <2>1. i # Len(values') + 1
        BY <1>n, <1>k, <1>1, <1>6, SMT
    <2>2. StartOf(i)' = starts'[i] /\ HeadOf(i)' = heads'[i]
        BY <1>n, <1>k, <2>1 DEF StartOf, HeadOf
    <2>3. CASE i = k
        BY <1>n, <1>k, <2>2, <2>3, <1>7 DEF StartOf, HeadOf
    <2>4. CASE i \in 1 .. n
        <3>1. i # Len(values) + 1
            BY <1>n, <1>k, <2>4, <1>1, SMT
        <3>2. QED BY <1>n, <1>k, <2>2, <2>4, <3>1, <1>7 DEF StartOf, HeadOf
    <2>5. QED BY <1>n, <1>k, <2>3, <2>4, <1>1, SMT
<1>10. StartOf(k + 1)' = Len(data) + Len(DataOf(v)) /\ HeadOf(k + 1)' = header_size'
    <2>1. Len(values') + 1 = k + 1
        BY <1>n, <1>k, <1>6
    <2>2. QED BY <1>n, <1>k, <2>1, <1>8 DEF StartOf, HeadOf
<1>11. \A i \in 1 .. k : FieldBuilt(i)'
    <2> SUFFICES ASSUME NEW i \in 1 .. k PROVE FieldBuilt(i)'
        OBVIOUS
    <2>1. CASE i = k
        <3>1. /\ values'[i] = v /\ types'[i] = TypeOf(v) /\ offsets'[i] = o
              /\ starts'[i] = Len(data)
            BY <1>n, <1>k, <2>1, <1>6, <1>7
        <3>2. QED BY <1>n, <1>k, <3>1, <1>8 DEF FieldBuilt
    <2>2. CASE i \in 1 .. n
        <3>1. FieldBuilt(i) /\ Adjacent(i)
            BY <1>n, <1>k, <2>2 DEF Built
        <3>2. \A j \in 1 .. Len(DataOf(values[i])) :
                starts[i] + j \in 1 .. Len(data)
            <4>1. starts[i] + Len(DataOf(values[i])) <= Len(data)
                BY <1>n, <1>k, <3>1 DEF Adjacent
            <4>2. starts[i] \in Nat /\ Len(DataOf(values[i])) \in Nat /\ Len(data) \in Nat
                BY <1>n, <1>k, <1>1, <2>2, ValueFacts
            <4>3. QED BY <1>n, <1>k, <4>1, <4>2, SMT
        <3>3. /\ values'[i] = values[i] /\ types'[i] = types[i] /\ offsets'[i] = offsets[i]
              /\ starts'[i] = starts[i]
            BY <1>n, <1>k, <2>2, <1>6, <1>7
        <3>4. QED BY <1>n, <1>k, <3>1, <3>2, <3>3, <1>8 DEF FieldBuilt
    <2>3. QED BY <1>n, <1>k, <2>1, <2>2, <1>1, SMT
<1>12. \A i \in 1 .. k : Adjacent(i)'
    <2> SUFFICES ASSUME NEW i \in 1 .. k PROVE Adjacent(i)'
        OBVIOUS
    <2>1. CASE i = k
        <3>1. \A m \in 1 .. Len(values)' : ~(i < m)
            BY <1>n, <1>k, <2>1, <1>1, <1>6, SMT
        <3>2. /\ StartOf(k + 1)' = starts'[k] + Len(DataOf(values'[k]))
              /\ HeadOf(k + 1)' = heads'[k] + HeaderBytes(values'[k])
              /\ StartOf(k + 1)' <= Len(data') /\ HeadOf(k + 1)' <= header_size'
            <4>1. Len(data') \in Nat /\ header_size' \in Nat
                BY <1>1, <1>3, <1>5, SMT
            <4>2. /\ StartOf(k + 1)' = Len(data') /\ HeadOf(k + 1)' = header_size'
                  /\ starts'[k] = Len(data) /\ heads'[k] = header_size /\ values'[k] = v
                BY <1>k, <1>6, <1>7, <1>8, <1>10
            <4>3. StartOf(k + 1)' <= Len(data') /\ HeadOf(k + 1)' <= header_size'
                BY <4>1, <4>2, SMT
            <4>4. QED BY <1>5, <1>10, <4>2, <4>3
        <3>3. heads'[k] >= 1
            BY <1>n, <1>k, <1>7 DEF Built
        <3>4. QED BY <1>n, <1>k, <2>1, <3>1, <3>2, <3>3 DEF Adjacent
    <2>2. CASE i \in 1 .. n
        <3>1. Adjacent(i)
            BY <1>n, <1>k, <2>2 DEF Built
        <3>2. i + 1 \in 1 .. k /\ StartOf(i + 1)' = StartOf(i + 1) /\ HeadOf(i + 1)' = HeadOf(i + 1)
            BY <1>n, <1>k, <2>2, <1>1, <1>9, SMT
        <3>3. values'[i] = values[i] /\ starts'[i] = starts[i] /\ heads'[i] = heads[i]
            BY <1>n, <1>k, <2>2, <1>6, <1>7
        <3>4. StartOf(i + 1) \in Nat /\ HeadOf(i + 1) \in Nat
            <4>1. CASE i = n
                BY <4>1, <1>n, <1>1 DEF StartOf, HeadOf
            <4>2. CASE i # n
                <5>1. i + 1 \in 1 .. n /\ i + 1 # n + 1
                    BY <4>2, <2>2, SMT
                <5>2. QED BY <5>1, <1>n, <1>1 DEF StartOf, HeadOf
            <4>3. QED BY <4>1, <4>2
        <3>5. StartOf(i + 1)' <= Len(data') /\ HeadOf(i + 1)' <= header_size'
            <4>1. StartOf(i + 1) <= Len(data) /\ HeadOf(i + 1) <= header_size
                BY <3>1 DEF Adjacent
            <4>2. Len(data') = Len(data) + Len(DataOf(v)) /\ header_size' = header_size + HeaderBytes(v)
                BY <1>5, <1>8
            <4>3. HeaderBytes(v) \in Nat /\ Len(DataOf(v)) \in Nat /\ Len(data) \in Nat /\ header_size \in Nat
                BY <1>1, <1>3
            <4>4. StartOf(i + 1) <= Len(data') /\ HeadOf(i + 1) <= header_size'
                BY <3>4, <4>1, <4>2, <4>3, SMT
            <4>5. QED BY <3>2, <4>4
        <3>6. \A m \in 1 .. Len(values)' : i < m => HeadOf(i + 1)' <= heads'[m]
            <4> SUFFICES ASSUME NEW m \in 1 .. k, i < m PROVE HeadOf(i + 1) <= heads'[m]
                BY <1>n, <1>k, <1>6, <3>2
            <4>1. CASE m = k
                BY <1>n, <1>k, <4>1, <3>1, <1>7 DEF Adjacent
            <4>2. CASE m \in 1 .. n
                BY <1>n, <1>k, <4>2, <3>1, <1>7 DEF Adjacent
            <4>3. QED BY <1>n, <1>k, <4>1, <4>2, <1>1, SMT
        <3>7. QED BY <1>n, <1>k, <3>1, <3>2, <3>3, <3>5, <3>6 DEF Adjacent
    <2>3. QED BY <1>n, <1>k, <2>1, <2>2, <1>1, SMT
<1>13. StartOf(1)' = 0 /\ HeadOf(1)' = 1
    <2>1. 1 \in 1 .. k
        BY <1>n, <1>k, <1>1, SMT
    <2>2. QED BY <1>n, <1>k, <2>1, <1>9 DEF Built
<1>14. Lengths'
    BY <1>n, <1>k, <1>6, <1>7 DEF Lengths
<1>15. Len(data') <= MaxData
    BY <1>n, <1>k, <1>4, <1>8
<1>16. QED BY <1>n, <1>k, <1>5, <1>6, <1>8, <1>11, <1>12, <1>13, <1>14, <1>15 DEF Built

(* An append keeps the invariant, whatever kind of field it adds.        *)
LEMMA AppendInv ==
    ASSUME IInv, NEW v \in Values, NEW o \in Nat, AppendValue(v, o),
           o = IF v.kind = "null" THEN 0 ELSE Len(data)
    PROVE  IInv'
<1>1. /\ Built' /\ Len(data') = Len(data) + Len(DataOf(v)) /\ data' \in Seq(Byte)
      /\ header_size' = header_size + HeaderBytes(v)
    BY AppendBuilt DEF IInv
<1>2. /\ Len(DataOf(v)) \in Nat /\ Len(DataOf(v)) <= GrowBy /\ TypeOf(v) \in Nat
      /\ HeaderBytes(v) \in Nat
    BY ValueFacts
<1>3. /\ Len(data) \in Nat /\ buf_size \in Nat /\ header_size \in Nat /\ data \in Seq(Byte)
    BY DEF IInv, TypeOK, Byte
<1>4. /\ GrowBy \in Nat /\ MaxLength \in Nat /\ MaxData \in Nat /\ MaxHeader \in 1 .. 255
      /\ MaxData + GrowBy <= MaxLength
    BY RecordsAssumption
<1>5. Room'
    <2>1. Len(data) <= buf_size /\ buf_size <= Len(data) + GrowBy
        BY DEF IInv, Room
    <2>2. Len(data) + Len(DataOf(v)) <= MaxData
        BY DEF AppendValue
    <2>3. buf_size' = IF Len(data) + Len(DataOf(v)) > buf_size
                      THEN Word16(buf_size + GrowBy) ELSE buf_size
        BY DEF AppendValue, Grow
    <2>4. CASE Len(data) + Len(DataOf(v)) > buf_size
        <3>1. buf_size + GrowBy \in 0 .. MaxLength
            BY <2>2, <2>4, <1>2, <1>3, <1>4, SMT
        <3>2. buf_size' = buf_size + GrowBy
            <4>1. \A m \in 0 .. MaxLength : m % (MaxLength + 1) = m
                BY <1>4, SMT
            <4>2. QED BY <2>3, <2>4, <3>1, <4>1 DEF Word16
        <3>3. QED BY <1>1, <1>2, <1>3, <1>4, <2>1, <2>4, <3>2, SMT DEF Room
    <2>5. CASE ~(Len(data) + Len(DataOf(v)) > buf_size)
        BY <1>1, <1>2, <1>3, <1>4, <2>1, <2>3, <2>5, SMT DEF Room
    <2>6. QED BY <2>4, <2>5
<1>6. buf_size' \in Nat
    <2>1. \A m \in Nat : m % (MaxLength + 1) \in Nat
        BY <1>4, SMT
    <2>2. buf_size + GrowBy \in Nat
        BY <1>3, <1>4, SMT
    <2>3. QED BY <2>1, <2>2, <1>3 DEF AppendValue, Grow, Word16
<1>7. header_size' \in Byte
    <2>1. header_size' \in Nat
        BY <1>1, <1>2, <1>3, SMT
    <2>2. header_size' <= MaxHeader
        BY <1>1 DEF Built
    <2>3. QED BY <2>1, <2>2, <1>4, SMT DEF Byte
<1>8. /\ values' \in Seq(Values) /\ types' \in Seq(Nat) /\ offsets' \in Seq(Nat)
      /\ starts' \in Seq(Nat) /\ heads' \in Seq(Nat)
    <2>1. /\ values \in Seq(Values) /\ types \in Seq(Nat) /\ offsets \in Seq(Nat)
          /\ starts \in Seq(Nat) /\ heads \in Seq(Nat)
        BY DEF IInv, TypeOK
    <2>2. QED BY <2>1, <1>2, <1>3 DEF AppendValue
<1>9. TypeOK'
    BY <1>1, <1>6, <1>7, <1>8 DEF IInv, TypeOK, AppendValue, packing, unpacked
<1>10. phase = "append" /\ phase' = "append" /\ UNCHANGED <<packing, header_pos, unpacked>>
    BY DEF AppendValue
<1>11. Len(values') \in Nat /\ Len(values') >= Len(values) /\ Len(values) \in Nat
    <2>1. values \in Seq(Values)
        BY DEF IInv, TypeOK
    <2>2. values' = Append(values, v)
        BY DEF AppendValue
    <2>3. Len(values') = Len(values) + 1 /\ Len(values) \in Nat
        BY <2>1, <2>2
    <2>4. QED BY <2>3, SMT
<1>12. Packed'
    BY <1>10, <1>11 DEF IInv, Packed, packing
<1>13. Unpacked'
    <2>1. uTypes = <<>> /\ uOffsets = <<>> /\ offset = 0 /\ uTypes' = <<>> /\ uOffsets' = <<>>
          /\ offset' = 0
        BY <1>10 DEF IInv, Unpacked, unpacked
    <2>2. Len(uTypes') = 0 /\ Len(uOffsets') = 0
        BY <2>1
    <2>3. QED BY <1>10, <1>11, <2>1, <2>2, SMT DEF Unpacked
<1>14. QED BY <1>1, <1>5, <1>9, <1>12, <1>13 DEF IInv

(* The other steps leave the record that was built alone.                  *)
LEMMA BuiltStays ==
    ASSUME IInv, UNCHANGED built
    PROVE  Built' /\ Room'
BY DEF IInv, built, Built, Room, Lengths, FieldBuilt, Adjacent, StartOf, HeadOf

(* What the invariant says of the sizes, and of field i of the record.     *)
LEMMA BuiltFacts ==
    ASSUME TypeOK, Built
    PROVE  /\ Len(values) \in Nat /\ Len(data) \in Nat /\ header_size \in 1 .. 255
           /\ packed_len \in Nat /\ packed_len = header_size + Len(data)
           /\ packed_len <= MaxLength
           /\ Len(types) = Len(values) /\ types \in Seq(Nat)
           /\ \A i \in 1 .. Len(values) :
                /\ values[i] \in Values /\ types[i] = TypeOf(values[i])
                /\ starts[i] \in Nat /\ heads[i] \in Nat /\ heads[i] >= 1
                /\ StartOf(i) = starts[i] /\ HeadOf(i) = heads[i]
                /\ heads[i] + HeaderBytes(values[i]) <= header_size
                /\ HeaderBytes(values[i]) \in {1, 4}
                /\ StartOf(i + 1) = starts[i] + Len(DataOf(values[i]))
                /\ HeadOf(i + 1) = heads[i] + HeaderBytes(values[i])
           /\ \A i, k \in 1 .. Len(values) : i < k => heads[i] + HeaderBytes(values[i]) <= heads[k]
           /\ StartOf(Len(values) + 1) = Len(data) /\ HeadOf(Len(values) + 1) = header_size
<1>1. /\ values \in Seq(Values) /\ starts \in Seq(Nat) /\ heads \in Seq(Nat)
      /\ types \in Seq(Nat) /\ data \in Seq(Byte) /\ header_size \in 0 .. 255
    BY DEF TypeOK, Byte
<1>2. Lengths /\ header_size >= 1 /\ header_size <= MaxHeader /\ Len(data) <= MaxData
    BY DEF Built
<1>3. Len(values) \in Nat /\ Len(data) \in Nat /\ header_size \in 1 .. 255
    BY <1>1, <1>2, SMT
<1>4. packed_len \in Nat /\ packed_len = header_size + Len(data) /\ packed_len <= MaxLength
    BY <1>2, <1>3, RecordsAssumption, SMT DEF packed_len
<1>5. StartOf(Len(values) + 1) = Len(data) /\ HeadOf(Len(values) + 1) = header_size
    BY DEF StartOf, HeadOf
<1>6. ASSUME NEW i \in 1 .. Len(values)
      PROVE  /\ values[i] \in Values /\ types[i] = TypeOf(values[i])
             /\ starts[i] \in Nat /\ heads[i] \in Nat /\ heads[i] >= 1
             /\ StartOf(i) = starts[i] /\ HeadOf(i) = heads[i]
             /\ heads[i] + HeaderBytes(values[i]) <= header_size
             /\ HeaderBytes(values[i]) \in {1, 4}
             /\ StartOf(i + 1) = starts[i] + Len(DataOf(values[i]))
             /\ HeadOf(i + 1) = heads[i] + HeaderBytes(values[i])
    <2>1. FieldBuilt(i) /\ Adjacent(i)
        BY DEF Built
    <2>2. values[i] \in Values /\ starts[i] \in Nat /\ heads[i] \in Nat
        <3>1. Len(starts) = Len(values) /\ Len(heads) = Len(values)
            BY <1>2 DEF Lengths
        <3>2. i \in 1 .. Len(starts) /\ i \in 1 .. Len(heads)
            BY <3>1
        <3>3. QED BY <1>1, <3>2
    <2>3. HeaderBytes(values[i]) \in {1, 4}
        BY <2>2, ValueFacts
    <2>4. i # Len(values) + 1
        BY <1>3, SMT
    <2>5. StartOf(i) = starts[i] /\ HeadOf(i) = heads[i]
        BY <2>4 DEF StartOf, HeadOf
    <2>6. QED BY <2>1, <2>2, <2>3, <2>5 DEF FieldBuilt, Adjacent
<1>7. ASSUME NEW i \in 1 .. Len(values), NEW k \in 1 .. Len(values), i < k
      PROVE  heads[i] + HeaderBytes(values[i]) <= heads[k]
    BY <1>6, <1>7 DEF Built, Adjacent
<1>8. QED BY <1>1, <1>2, <1>3, <1>4, <1>5, <1>6, <1>7 DEF Lengths

(* chidb_DBRecord_finalize keeps it: the first byte is the header's size.*)
LEMMA FinalizeInv == IInv /\ finalize => IInv'
<1> SUFFICES ASSUME IInv, finalize PROVE IInv'
    OBVIOUS
<1>1. /\ phase = "append" /\ phase' = "pack" /\ header_pos' = 1
      /\ raw' = PutAt([i \in 1 .. packed_len |-> Junk], 0, <<Word8(packed_len - Len(data))>>)
      /\ UNCHANGED <<built, field, unpacked>>
    BY DEF finalize
<1>2. Built' /\ Room'
    BY <1>1, BuiltStays
<1>3. /\ packed_len \in Nat /\ packed_len = header_size + Len(data) /\ header_size \in 1 .. 255
      /\ Len(data) \in Nat /\ packed_len' = packed_len
    BY <1>1, BuiltFacts DEF IInv, packed_len, built
<1>4. Word8(packed_len - Len(data)) = header_size
    BY <1>3, SMT DEF Word8
<1>5. raw' = [i \in 1 .. packed_len |-> IF 0 < i /\ i <= 1 THEN header_size ELSE Junk]
    <2>1. Len([i \in 1 .. packed_len |-> Junk]) = packed_len
        BY <1>3
    <2>2. /\ Len(<<header_size>>) = 1 /\ <<header_size>>[1] = header_size
          /\ \A i \in 1 .. packed_len : 0 < i /\ i <= 1 => i - 0 = 1
        BY <1>3, SMT
    <2>3. raw' = PutAt([i \in 1 .. packed_len |-> Junk], 0, <<header_size>>)
        BY <1>1, <1>4
    <2>4. raw' = [i \in 1 .. packed_len |->
                    IF 0 < i /\ i <= 0 + 1 THEN <<header_size>>[i - 0] ELSE Junk]
        BY <2>1, <2>2, <2>3 DEF PutAt
    <2>5. QED BY <2>2, <2>4
<1>6. Len(raw') = packed_len /\ raw'[1] = header_size /\ raw' \in Seq(Byte \cup {Junk})
    <2>1. 1 \in 1 .. packed_len /\ header_size \in Byte
        BY <1>3, SMT DEF Byte
    <2>2. QED BY <1>3, <1>5, <2>1
<1>7. field = 0 /\ Len(values) \in Nat
    BY <1>1, BuiltFacts DEF IInv, Packed
<1>8. TypeOK'
    BY <1>1, <1>6 DEF IInv, TypeOK, built, unpacked, Byte
<1>9. Packed'
    <2>1. HeadOf(1)' = 1
        BY <1>2 DEF Built
    <2>2. field' = 0 /\ 0 + 1 = 1 /\ values' = values /\ header_size' = header_size
        BY <1>1, <1>7 DEF built
    <2>3. header_pos' = HeadOf(field + 1)'
        BY <1>1, <2>1, <2>2
    <2>4. QED BY <1>1, <1>3, <1>6, <1>7, <2>2, <2>3, SMT DEF Packed
<1>10. Unpacked'
    BY <1>1, SMT DEF IInv, Unpacked, built, unpacked, StartOf
<1>11. QED BY <1>2, <1>8, <1>9, <1>10 DEF IInv

(* The types lie in the header one behind the other: writing that of field *)
(* k leaves those before it alone.                                         *)
LEMMA PackFieldInv == IInv /\ packField => IInv'
<1> SUFFICES ASSUME IInv, packField PROVE IInv'
    OBVIOUS
<1>f. /\ TypeOK /\ Built /\ Packed /\ Unpacked
    BY DEF IInv
<1>1. /\ phase = "pack" /\ phase' = "pack" /\ field < Len(types) /\ field' = field + 1
      /\ UNCHANGED <<built, unpacked>> /\ field \in Nat
    BY DEF packField, IInv, TypeOK
<1>k. PICK k \in Nat : k = field + 1
    BY <1>1
<1> DEFINE v == values[k]
           bytes == IF getType(types[k]) = "text" THEN PutVarint(types[k]) ELSE <<Word8(types[k])>>
<1>2. k \in 1 .. Len(values) /\ Len(values) \in Nat /\ Len(values') = Len(values)
    BY <1>1, <1>k, <1>f, BuiltFacts, SMT DEF built
<1>3. /\ v \in Values /\ types[k] = TypeOf(v) /\ heads[k] \in Nat /\ heads[k] >= 1
      /\ HeadOf(k) = heads[k] /\ HeadOf(k + 1) = heads[k] + HeaderBytes(v)
      /\ heads[k] + HeaderBytes(v) <= header_size
      /\ HeaderBytes(v) \in {1, 4}
    BY <1>2, <1>f, BuiltFacts
<1>4. bytes = TypeBytes(v) /\ Len(bytes) = HeaderBytes(v) /\ bytes \in Seq(Byte)
    <2>1. getType(types[k]) = v.kind
        BY <1>3, ValueFacts
    <2>2. CASE v.kind = "text"
        <3>1. TypeOf(v) \in Nat /\ TypeOf(v) \div 16384 < 16384
            BY <2>2, <1>3, TextType
        <3>2. HeaderBytes(v) = 4
            BY <2>2, <1>3, ValueFacts
        <3>3. bytes = PutVarint(TypeOf(v)) /\ TypeBytes(v) = PutVarint(TypeOf(v))
            BY <2>1, <2>2, <1>3 DEF TypeBytes
        <3>4. PutVarint(TypeOf(v)) \in Seq(Byte) /\ Len(PutVarint(TypeOf(v))) = 4
            BY <3>1, VarintBytes
        <3>5. QED BY <3>2, <3>3, <3>4
    <2>3. CASE v.kind # "text"
        <3>1. TypeOf(v) \in 0 .. 4 /\ HeaderBytes(v) = 1
            BY <2>3, <1>3, ValueFacts, SMT
        <3>2. Word8(TypeOf(v)) = TypeOf(v) /\ TypeOf(v) \in Byte
            BY <3>1, SMT DEF Word8, Byte
        <3>3. bytes = <<TypeOf(v)>> /\ TypeBytes(v) = <<TypeOf(v)>>
            BY <2>1, <2>3, <3>2, <1>3 DEF TypeBytes
        <3>4. <<TypeOf(v)>> \in Seq(Byte) /\ Len(<<TypeOf(v)>>) = 1
            BY <3>2
        <3>5. QED BY <3>1, <3>3, <3>4
    <2>4. QED BY <2>2, <2>3
<1>5. /\ header_pos = heads[k] /\ \A i \in 1 .. field : HeaderPacked(i)
      /\ Len(raw) = packed_len /\ raw[1] = header_size
    BY <1>1, <1>3, <1>k, <1>f DEF Packed
<1>6. /\ raw' = PutAt(raw, header_pos, bytes) /\ header_pos' = Word8(header_pos + Len(bytes))
    BY <1>1, <1>k DEF packField
<1> HIDE DEF bytes, v
<1>7. /\ packed_len \in Nat /\ packed_len = header_size + Len(data) /\ header_size \in 1 .. 255
      /\ Len(data) \in Nat /\ packed_len' = packed_len /\ header_size' = header_size
      /\ values' = values /\ heads' = heads /\ data' = data
    BY <1>1, <1>f, BuiltFacts DEF packed_len, built
<1>8. /\ Len(raw') = packed_len /\ raw' \in Seq(Byte \cup {Junk})
      /\ \A i \in 1 .. packed_len :
           raw'[i] = IF heads[k] < i /\ i <= heads[k] + HeaderBytes(v)
                     THEN bytes[i - heads[k]] ELSE raw[i]
    <2>1. raw' = [i \in 1 .. packed_len |->
                    IF heads[k] < i /\ i <= heads[k] + HeaderBytes(v)
                    THEN bytes[i - heads[k]] ELSE raw[i]]
        BY <1>4, <1>5, <1>6 DEF PutAt
    <2>2. ASSUME NEW i \in 1 .. packed_len, heads[k] < i, i <= heads[k] + HeaderBytes(v)
          PROVE  bytes[i - heads[k]] \in Byte
        <3>1. i - heads[k] \in 1 .. HeaderBytes(v)
            BY <2>2, <1>3, <1>7, SMT
        <3>2. QED BY <3>1, <1>4
    <2>3. raw \in Seq(Byte \cup {Junk})
        BY <1>f DEF TypeOK
    <2>4. \A i \in 1 .. packed_len : raw[i] \in Byte \cup {Junk}
        BY <2>3, <1>5
    <2>5. QED BY <1>7, <2>1, <2>2, <2>4
<1>9. raw'[1] = header_size
    <2>1. 1 \in 1 .. packed_len /\ ~(heads[k] < 1)
        BY <1>3, <1>7, SMT
    <2>2. QED BY <2>1, <1>5, <1>8
<1>10. \A i \in 1 .. k : HeaderPacked(i)'
    <2> SUFFICES ASSUME NEW i \in 1 .. k, NEW j \in 1 .. HeaderBytes(values[i])
                 PROVE  raw'[heads[i] + j] = TypeBytes(values[i])[j]
        BY <1>7 DEF HeaderPacked
    <2>1. /\ i \in 1 .. Len(values) /\ heads[i] \in Nat /\ HeaderBytes(values[i]) \in Nat
          /\ heads[i] >= 1 /\ heads[i] + HeaderBytes(values[i]) <= header_size
        <3>1. i \in 1 .. Len(values)
            BY <1>2, SMT
        <3>2. /\ heads[i] \in Nat /\ HeaderBytes(values[i]) \in {1, 4} /\ heads[i] >= 1
              /\ heads[i] + HeaderBytes(values[i]) <= header_size
            BY <3>1, <1>f, BuiltFacts
        <3>3. QED BY <3>1, <3>2
    <2>2. heads[i] + j \in 1 .. packed_len
        BY <2>1, <1>7, SMT
    <2>3. CASE i = k
        <3>1. /\ heads[k] < heads[k] + j /\ heads[k] + j <= heads[k] + HeaderBytes(v)
              /\ (heads[k] + j) - heads[k] = j
            BY <2>3, <2>1, <1>3, SMT DEF v
        <3>2. raw'[heads[k] + j] = bytes[j]
            BY <3>1, <2>2, <2>3, <1>8
        <3>3. QED BY <3>2, <2>3, <1>4 DEF v
    <2>4. CASE i # k
        <3>1. i \in 1 .. field /\ i < k
            BY <2>4, <1>k, <1>1, SMT
        <3>2. heads[i] + HeaderBytes(values[i]) <= heads[k]
            BY <3>1, <2>1, <1>2, <1>f, BuiltFacts
        <3>3. ~(heads[k] < heads[i] + j)
            BY <3>2, <2>1, <1>3, SMT
        <3>4. QED BY <3>1, <3>3, <2>2, <1>5, <1>8 DEF HeaderPacked
    <2>5. QED BY <2>3, <2>4
<1>11. header_pos' = HeadOf(k + 1) /\ header_pos' \in Byte
    <2>1. PICK p \in Nat : p = heads[k] + HeaderBytes(v)
        BY <1>3
    <2>2. p % 256 = p /\ p \in 0 .. 255
        <3>1. p <= header_size /\ header_size \in 1 .. 255
            BY <2>1, <1>3, <1>7
        <3>2. QED BY <3>1, SMT
    <2>3. header_pos' = p % 256
        BY <2>1, <1>4, <1>5, <1>6 DEF Word8
    <2>4. QED BY <2>1, <2>2, <2>3, <1>3 DEF Byte
<1>12. Built' /\ Room'
    BY <1>1, BuiltStays
<1>13. TypeOK'
    BY <1>1, <1>8, <1>11 DEF IInv, TypeOK, built, unpacked
<1>14. Packed'
    <2>1. field' = k /\ field' <= Len(values')
        BY <1>1, <1>2, <1>k, SMT
    <2>2. HeadOf(field + 1)' = HeadOf(k + 1)
        BY <2>1, <1>7 DEF HeadOf
    <2>3. QED BY <1>1, <1>7, <1>8, <1>9, <1>10, <1>11, <2>1, <2>2 DEF Packed
<1>15. Unpacked'
    BY <1>1, <1>f DEF Unpacked, built, unpacked, StartOf
<1>16. QED BY <1>12, <1>13, <1>14, <1>15 DEF IInv

(* The copy of the data behind the header keeps the invariant.           *)
LEMMA PackDataInv == IInv /\ packData => IInv'
<1> SUFFICES ASSUME IInv, packData PROVE IInv'
    OBVIOUS
<1>f. /\ TypeOK /\ Built /\ Packed /\ Unpacked
    BY DEF IInv
<1>1. /\ phase = "pack" /\ phase' = "insert" /\ field = Len(types)
      /\ raw' = PutAt(raw, raw[1], data)
      /\ UNCHANGED <<built, field, header_pos, unpacked>>
    BY DEF packData
<1>2. /\ packed_len \in Nat /\ packed_len = header_size + Len(data) /\ header_size \in 1 .. 255
      /\ Len(data) \in Nat /\ packed_len' = packed_len /\ header_size' = header_size
      /\ values' = values /\ heads' = heads /\ data' = data /\ Len(types) = Len(values)
    BY <1>1, <1>f, BuiltFacts DEF packed_len, built
<1>3. /\ Len(raw) = packed_len /\ raw[1] = header_size
      /\ \A i \in 1 .. Len(values) : HeaderPacked(i)
      /\ data \in Seq(Byte) /\ raw \in Seq(Byte \cup {Junk})
    BY <1>1, <1>2, <1>f DEF Packed, TypeOK
<1>4. /\ Len(raw') = packed_len /\ raw' \in Seq(Byte \cup {Junk})
      /\ \A i \in 1 .. packed_len :
           raw'[i] = IF header_size < i /\ i <= header_size + Len(data)
                     THEN data[i - header_size] ELSE raw[i]
    <2>1. raw' = [i \in 1 .. packed_len |->
                    IF header_size < i /\ i <= header_size + Len(data)
                    THEN data[i - header_size] ELSE raw[i]]
        BY <1>1, <1>3 DEF PutAt
    <2>2. ASSUME NEW i \in 1 .. packed_len, header_size < i, i <= header_size + Len(data)
          PROVE  data[i - header_size] \in Byte
        <3>1. i - header_size \in 1 .. Len(data)
            BY <2>2, <1>2, SMT
        <3>2. QED BY <3>1, <1>3
    <2>3. \A i \in 1 .. packed_len : raw[i] \in Byte \cup {Junk}
        BY <1>3
    <2>4. QED BY <1>2, <2>1, <2>2, <2>3
<1>5. raw'[1] = header_size
    <2>1. 1 \in 1 .. packed_len /\ ~(header_size < 1)
        BY <1>2, SMT
    <2>2. QED BY <2>1, <1>3, <1>4
<1>6. \A i \in 1 .. Len(values) : HeaderPacked(i)'
    <2> SUFFICES ASSUME NEW i \in 1 .. Len(values), NEW j \in 1 .. HeaderBytes(values[i])
                 PROVE  raw'[heads[i] + j] = TypeBytes(values[i])[j]
        BY <1>2 DEF HeaderPacked
    <2>1. /\ heads[i] \in Nat /\ HeaderBytes(values[i]) \in Nat
          /\ heads[i] + HeaderBytes(values[i]) <= header_size
        <3>1. /\ heads[i] \in Nat /\ HeaderBytes(values[i]) \in {1, 4}
              /\ heads[i] + HeaderBytes(values[i]) <= header_size
            BY <1>f, BuiltFacts
        <3>2. QED BY <3>1
    <2>2. heads[i] + j \in 1 .. packed_len /\ ~(header_size < heads[i] + j)
        BY <2>1, <1>2, SMT
    <2>3. QED BY <2>2, <1>3, <1>4 DEF HeaderPacked
<1>7. \A j \in 1 .. Len(data) : raw'[header_size + j] = data[j]
    <2> SUFFICES ASSUME NEW j \in 1 .. Len(data) PROVE raw'[header_size + j] = data[j]
        OBVIOUS
    <2>1. /\ header_size + j \in 1 .. packed_len /\ header_size < header_size + j
          /\ header_size + j <= header_size + Len(data) /\ (header_size + j) - header_size = j
        BY <1>2, SMT
    <2>2. QED BY <2>1, <1>4
<1>8. Built' /\ Room'
    BY <1>1, BuiltStays
<1>9. TypeOK'
    BY <1>1, <1>4 DEF IInv, TypeOK, built, unpacked
<1>10. Packed'
    BY <1>1, <1>2, <1>4, <1>5, <1>6, <1>7 DEF Packed
<1>11. Unpacked'
    BY <1>1, <1>f DEF Unpacked, built, unpacked, StartOf
<1>12. QED BY <1>8, <1>9, <1>10, <1>11 DEF IInv

(* The length of 16 bits is the whole length, so the cell takes it all.    *)
LEMMA InsertInv == IInv /\ Insert => IInv'
<1> SUFFICES ASSUME IInv, Insert PROVE IInv'
    OBVIOUS
<1>f. /\ TypeOK /\ Built /\ Packed /\ Unpacked
    BY DEF IInv
<1>1. /\ phase = "insert" /\ phase' = "types" /\ header_pos' = 1
      /\ raw' = SubSeq(raw, 1, Word16(packed_len))
      /\ UNCHANGED <<built, field, unpacked>>
    BY DEF Insert
<1>2. packed_len \in Nat /\ packed_len <= MaxLength /\ MaxLength \in Nat
    BY <1>f, BuiltFacts, RecordsAssumption
<1>3. Word16(packed_len) = packed_len
    <2>1. PICK p \in Nat : p = packed_len
        BY <1>2
    <2>2. p % (MaxLength + 1) = p
        BY <1>2, <2>1, SMT
    <2>3. QED BY <2>1, <2>2 DEF Word16
<1>4. Len(raw) = packed_len /\ raw \in Seq(Byte \cup {Junk})
    BY <1>1, <1>f DEF Packed, TypeOK
<1>5. raw' = raw
    <2>1. raw' = SubSeq(raw, 1, Len(raw))
        BY <1>1, <1>3, <1>4
    <2>2. QED BY <2>1, <1>4
<1>6. Built' /\ Room'
    BY <1>1, BuiltStays
<1>7. TypeOK'
    <2>1. raw' \in Seq(Byte \cup {Junk})
        BY <1>4, <1>5
    <2>2. 1 \in Byte
        BY SMT DEF Byte
    <2>3. QED BY <1>1, <1>f, <2>1, <2>2 DEF TypeOK, built, unpacked
<1>8. Packed'
    <2>1. /\ Len(raw') = packed_len' /\ raw'[1] = header_size'
        BY <1>1, <1>4, <1>5, <1>f DEF Packed, packed_len, built
    <2>2. \A i \in 1 .. Len(values') : HeaderPacked(i)'
        <3>1. \A i \in 1 .. Len(values) : HeaderPacked(i)
            BY <1>1, <1>f DEF Packed
        <3>2. values' = values /\ heads' = heads
            BY <1>1 DEF built
        <3>3. QED BY <1>5, <3>1, <3>2 DEF HeaderPacked
    <2>3. \A j \in 1 .. Len(data') : raw'[header_size' + j] = data'[j]
        BY <1>1, <1>5, <1>f DEF Packed, built
    <2>4. QED BY <1>1, <2>1, <2>2, <2>3 DEF Packed
<1>9. Unpacked'
    <2>1. uTypes' = <<>> /\ uOffsets' = <<>> /\ offset' = 0
        BY <1>1, <1>f DEF Unpacked, unpacked
    <2>2. Len(uTypes') = 0 /\ Len(uOffsets') = 0 /\ 0 + 1 = 1
        BY <2>1
    <2>3. HeadOf(1)' = 1
        BY <1>6 DEF Built
    <2>4. HeadOf(Len(uTypes) + 1)' = 1
        BY <2>2, <2>3
    <2>5. Len(values') \in Nat
        BY <1>7 DEF TypeOK
    <2>6. QED BY <1>1, <2>1, <2>2, <2>4, <2>5, SMT DEF Unpacked
<1>10. QED BY <1>6, <1>7, <1>8, <1>9 DEF IInv

(* In the loop over the header, the position is where the type of the next *)
(* field lies, or the end.                                                 *)
LEMMA HeaderPosition ==
    ASSUME IInv, phase = "types"
    PROVE  /\ Len(uTypes) \in Nat /\ Len(uTypes) <= Len(values) /\ Len(values) \in Nat
           /\ raw[1] = header_size /\ header_size \in 1 .. 255
           /\ Len(raw) = packed_len /\ packed_len = header_size + Len(data) /\ Len(data) \in Nat
           /\ header_pos \in Nat
           /\ header_pos >= header_size => Len(uTypes) = Len(values)
           /\ header_pos < header_size =>
                /\ Len(uTypes) + 1 \in 1 .. Len(values)
                /\ header_pos = heads[Len(uTypes) + 1]
<1>f. /\ TypeOK /\ Built /\ Packed /\ Unpacked
    BY DEF IInv
<1>1. PICK k \in Nat : k = Len(uTypes) + 1
    BY <1>f DEF TypeOK
<1>2. /\ header_pos = HeadOf(k) /\ k - 1 <= Len(values) /\ Len(uTypes) = k - 1
      /\ Len(uTypes) \in Nat /\ Len(uTypes) <= Len(values) /\ header_pos \in Nat
    <2>1. /\ Len(uTypes) \in Nat /\ Len(uTypes) <= Len(values) /\ header_pos \in Nat
          /\ Len(values) \in Nat
        <3>1. header_pos \in 0 .. 255 /\ uTypes \in Seq(Nat) /\ values \in Seq(Values)
            BY <1>f DEF TypeOK, Byte
        <3>2. Len(uTypes) <= Len(values)
            BY <1>f DEF Unpacked
        <3>3. header_pos \in Nat
            BY <3>1, SMT
        <3>4. QED BY <3>1, <3>2, <3>3
    <2>2. header_pos = HeadOf(k)
        BY <1>1, <1>f DEF Unpacked
    <2>3. k - 1 = Len(uTypes)
        BY <1>1, <2>1, SMT
    <2>4. QED BY <2>1, <2>2, <2>3
<1>3. /\ Len(values) \in Nat /\ raw[1] = header_size /\ header_size \in 1 .. 255
      /\ Len(raw) = packed_len /\ packed_len = header_size + Len(data) /\ Len(data) \in Nat
      /\ HeadOf(Len(values) + 1) = header_size
    BY <1>f, BuiltFacts DEF Packed
<1>4. CASE k = Len(values) + 1
    <2>1. header_pos = header_size
        BY <1>2, <1>3, <1>4
    <2>2. Len(uTypes) = Len(values)
        BY <1>2, <1>3, <1>4, SMT
    <2>3. ~(header_pos < header_size)
        BY <2>1, <1>3, SMT
    <2>4. QED BY <1>2, <1>3, <2>2, <2>3
<1>5. CASE k \in 1 .. Len(values)
    <2>1. /\ HeadOf(k) = heads[k] /\ heads[k] + HeaderBytes(values[k]) <= header_size
          /\ HeaderBytes(values[k]) \in {1, 4} /\ heads[k] \in Nat
        BY <1>5, <1>f, BuiltFacts
    <2>2. ~(header_pos >= header_size)
        BY <1>2, <1>3, <2>1, SMT
    <2>3. QED BY <1>1, <1>2, <1>3, <1>5, <2>1, <2>2
<1>6. QED BY <1>1, <1>2, <1>3, <1>4, <1>5, SMT

(* The type of the next field is read where it was packed.                 *)
LEMMA TypeRead ==
    ASSUME IInv, phase = "types", NEW k \in 1 .. Len(values), header_pos = heads[k]
    PROVE  /\ header_pos + HeaderBytes(values[k]) <= Len(raw)
           /\ IsVarint(raw[header_pos + 1]) <=> HeaderBytes(values[k]) = 4
           /\ IsVarint(raw[header_pos + 1]) => GetVarint(raw, header_pos) = TypeOf(values[k])
           /\ ~IsVarint(raw[header_pos + 1]) => raw[header_pos + 1] = TypeOf(values[k])
<1>f. /\ TypeOK /\ Built /\ Packed /\ Unpacked
    BY DEF IInv
<1> DEFINE v == values[k]
           o == header_pos
<1>1. /\ v \in Values /\ o \in Nat /\ HeaderBytes(v) \in {1, 4}
      /\ o + HeaderBytes(v) <= header_size
    BY <1>f, BuiltFacts
<1>2. \A j \in 1 .. HeaderBytes(v) : raw[o + j] = TypeBytes(v)[j]
    BY <1>f DEF Packed, HeaderPacked
<1>3. header_size \in 1 .. 255 /\ Len(raw) = header_size + Len(data) /\ Len(data) \in Nat
    BY HeaderPosition
<1> HIDE DEF v, o
<1>4. o + HeaderBytes(v) <= Len(raw)
    BY <1>1, <1>3, SMT
<1>5. CASE v.kind = "text"
    <2>1. HeaderBytes(v) = 4 /\ TypeOf(v) \in Nat /\ TypeOf(v) \div 16384 < 16384
        BY <1>1, <1>5, ValueFacts, TextType
    <2> DEFINE b == PutVarint(TypeOf(v))
    <2>2. TypeBytes(v) = b
        BY <1>5 DEF TypeBytes
    <2>3. raw[o + 1] = b[1] /\ raw[o + 2] = b[2] /\ raw[o + 3] = b[3] /\ raw[o + 4] = b[4]
        BY <1>2, <2>1, <2>2
    <2>4. b[1] >= 128 /\ GetVarint(raw, o) = TypeOf(v)
        BY <2>1, <2>3, VarintBytes DEF GetVarint
    <2>5. QED BY <1>4, <2>1, <2>3, <2>4 DEF IsVarint, v, o
<1>6. CASE v.kind # "text"
    <2>1. HeaderBytes(v) = 1 /\ TypeOf(v) \in 0 .. 4
        BY <1>1, <1>6, ValueFacts, SMT
    <2>2. TypeBytes(v) = <<TypeOf(v)>>
        BY <1>6 DEF TypeBytes
    <2>3. raw[o + 1] = TypeOf(v)
        BY <1>2, <2>1, <2>2
    <2>4. ~IsVarint(raw[o + 1])
        BY <2>1, <2>3, SMT DEF IsVarint
    <2>5. QED BY <1>4, <2>1, <2>3, <2>4 DEF v, o
<1>7. QED BY <1>5, <1>6

(* Reading the type of the next field keeps the invariant.               *)
LEMMA UnpackTypeInv == IInv /\ unpackType => IInv'
<1> SUFFICES ASSUME IInv, unpackType PROVE IInv'
    OBVIOUS
<1>f. /\ TypeOK /\ Built /\ Packed /\ Unpacked
    BY DEF IInv
<1>1. /\ phase = "types" /\ phase' = "types" /\ header_pos < raw[1]
      /\ uTypes' = Append(uTypes, IF IsVarint(raw[header_pos + 1])
                                  THEN GetVarint(raw, header_pos) ELSE raw[header_pos + 1])
      /\ header_pos' = Word8(header_pos + (IF IsVarint(raw[header_pos + 1]) THEN 4 ELSE 1))
      /\ UNCHANGED <<built, packing, uOffsets, offset, uData>>
    BY DEF unpackType
<1>k. PICK k \in Nat : k = Len(uTypes) + 1
    BY HeaderPosition, <1>1
<1>2. /\ k \in 1 .. Len(values) /\ header_pos = heads[k] /\ header_pos \in Nat
      /\ header_size \in 1 .. 255 /\ Len(values) \in Nat
    BY <1>1, <1>k, HeaderPosition
<1>3. /\ values[k] \in Values /\ types[k] = TypeOf(values[k])
      /\ HeadOf(k + 1) = heads[k] + HeaderBytes(values[k])
      /\ heads[k] + HeaderBytes(values[k]) <= header_size
      /\ HeaderBytes(values[k]) \in {1, 4}
    BY <1>2, <1>f, BuiltFacts
<1>4. /\ uTypes' = Append(uTypes, types[k])
      /\ header_pos' = Word8(header_pos + HeaderBytes(values[k]))
    BY <1>1, <1>2, <1>3, TypeRead
<1>5. header_pos' = HeadOf(k + 1) /\ header_pos' \in Byte
    <2>1. PICK p \in Nat : p = heads[k] + HeaderBytes(values[k])
        BY <1>2, <1>3
    <2>2. p <= header_size
        BY <1>3, <2>1
    <2>3. p % 256 = p /\ p \in 0 .. 255
        <3>1. p \in 0 .. 255
            BY <1>2, <2>2, SMT
        <3>2. \A m \in 0 .. 255 : m % 256 = m
            BY SMT
        <3>3. QED BY <3>1, <3>2
    <2>4. header_pos' = p % 256
        BY <1>2, <1>4, <2>1 DEF Word8
    <2>5. QED BY <1>3, <2>1, <2>3, <2>4 DEF Byte
<1>6. /\ uTypes' \in Seq(Nat) /\ Len(uTypes') = k
      /\ uTypes'[k] = types[k] /\ \A i \in 1 .. Len(uTypes) : uTypes'[i] = uTypes[i]
    <2>1. uTypes \in Seq(Nat) /\ types[k] \in Nat
        BY <1>3, <1>f, ValueFacts DEF TypeOK
    <2>2. QED BY <2>1, <1>4, <1>k, Appended
<1>7. Built' /\ Room'
    BY <1>1, BuiltStays
<1>8. TypeOK'
    BY <1>1, <1>5, <1>6 DEF IInv, TypeOK, built, packing
<1>9. Packed'
    BY <1>1, <1>f DEF Packed, HeaderPacked, packed_len, built, packing
<1>10. Unpacked'
    <2>1. values' = values /\ types' = types /\ header_size' = header_size /\ heads' = heads
          /\ starts' = starts /\ uOffsets' = <<>> /\ offset' = 0 /\ Len(uOffsets') = 0
        BY <1>1, <1>f DEF built, Unpacked
    <2>2. \A i \in 1 .. Len(uTypes') : uTypes'[i] = types'[i]
        <3> SUFFICES ASSUME NEW i \in 1 .. k PROVE uTypes'[i] = types[i]
            BY <1>6, <2>1
        <3>1. CASE i = k
            BY <3>1, <1>6
        <3>2. CASE i # k
            <4>1. i \in 1 .. Len(uTypes)
                BY <3>2, <1>k, HeaderPosition, <1>1, SMT
            <4>2. QED BY <4>1, <1>6, <1>f DEF Unpacked
        <3>3. QED BY <3>1, <3>2
    <2>3. header_pos' = HeadOf(Len(uTypes) + 1)'
        BY <1>5, <1>6, <2>1 DEF HeadOf
    <2>4. Len(uTypes') <= Len(values') /\ Len(uOffsets') <= Len(values')
        BY <1>2, <1>6, <2>1, SMT
    <2>5. \A i \in 1 .. Len(uOffsets') : uOffsets'[i] = starts'[i]
        BY <2>1, SMT
    <2>6. QED BY <1>1, <2>1, <2>2, <2>3, <2>4, <2>5 DEF Unpacked
<1>11. QED BY <1>7, <1>8, <1>9, <1>10 DEF IInv

(* When the header is read, the types are those of all fields.           *)
LEMMA TypesReadInv == IInv /\ typesRead => IInv'
<1> SUFFICES ASSUME IInv, typesRead PROVE IInv'
    OBVIOUS
<1>f. /\ TypeOK /\ Built /\ Packed /\ Unpacked
    BY DEF IInv
<1>1. /\ phase = "types" /\ phase' = "offsets" /\ header_pos >= raw[1]
      /\ UNCHANGED <<built, packing, header_pos, unpacked>>
    BY DEF typesRead
<1>2. Len(uTypes) = Len(values) /\ Len(values) \in Nat
    BY <1>1, HeaderPosition
<1>3. Built' /\ Room'
    BY <1>1, BuiltStays
<1>4. TypeOK'
    BY <1>1, <1>f DEF TypeOK, built, packing, unpacked
<1>5. Packed'
    BY <1>1, <1>f DEF Packed, HeaderPacked, packed_len, built, packing
<1>6. Unpacked'
    <2>1. /\ values' = values /\ types' = types /\ starts' = starts /\ uTypes' = uTypes
          /\ uOffsets' = <<>> /\ offset' = 0 /\ Len(uOffsets') = 0 /\ 0 + 1 = 1
        BY <1>1, <1>f DEF built, unpacked, Unpacked
    <2>2. StartOf(1)' = 0
        BY <1>3 DEF Built
    <2>3. offset' = StartOf(Len(uOffsets) + 1)'
        BY <2>1, <2>2
    <2>4. \A i \in 1 .. Len(uTypes') : uTypes'[i] = types'[i]
        BY <2>1, <1>f DEF Unpacked
    <2>5. \A i \in 1 .. Len(uOffsets') : uOffsets'[i] = starts'[i]
        BY <2>1, SMT
    <2>6. QED BY <1>1, <1>2, <2>1, <2>3, <2>4, <2>5, SMT DEF Unpacked
<1>7. QED BY <1>3, <1>4, <1>5, <1>6 DEF IInv

(* Adding up the offset of the next field keeps the invariant.           *)
LEMMA UnpackOffsetInv == IInv /\ unpackOffset => IInv'
<1> SUFFICES ASSUME IInv, unpackOffset PROVE IInv'
    OBVIOUS
<1>f. /\ TypeOK /\ Built /\ Packed /\ Unpacked
    BY DEF IInv
<1>1. /\ phase = "offsets" /\ phase' = "offsets" /\ Len(uOffsets) < Len(uTypes)
      /\ uOffsets' = Append(uOffsets, offset)
      /\ offset' = offset + WidthOf(uTypes[Len(uOffsets) + 1])
      /\ UNCHANGED <<built, packing, header_pos, uTypes, uData>>
    BY DEF unpackOffset
<1>k. PICK k \in Nat : k = Len(uOffsets) + 1
    BY <1>f DEF TypeOK
<1>2. /\ Len(uTypes) = Len(values) /\ \A i \in 1 .. Len(uTypes) : uTypes[i] = types[i]
      /\ offset = StartOf(k) /\ Len(uOffsets) \in Nat /\ Len(values) \in Nat
    BY <1>1, <1>k, <1>f DEF Unpacked, TypeOK
<1>3. k \in 1 .. Len(values)
    BY <1>1, <1>2, <1>k, SMT
<1>4. /\ values[k] \in Values /\ types[k] = TypeOf(values[k]) /\ starts[k] \in Nat
      /\ StartOf(k) = starts[k] /\ StartOf(k + 1) = starts[k] + Len(DataOf(values[k]))
    BY <1>3, <1>f, BuiltFacts
<1>5. offset' = StartOf(k + 1) /\ offset' \in Nat
    <2>1. WidthOf(types[k]) = Len(DataOf(values[k])) /\ Len(DataOf(values[k])) \in Nat
        BY <1>4, ValueFacts
    <2>2. uTypes[k] = types[k]
        BY <1>2, <1>3
    <2>3. QED BY <1>1, <1>2, <1>4, <1>k, <2>1, <2>2
<1>6. /\ uOffsets' \in Seq(Nat) /\ Len(uOffsets') = k
      /\ uOffsets'[k] = starts[k] /\ \A i \in 1 .. Len(uOffsets) : uOffsets'[i] = uOffsets[i]
    <2>1. uOffsets \in Seq(Nat) /\ offset \in Nat /\ offset = starts[k]
        BY <1>2, <1>4, <1>f DEF TypeOK
    <2>2. QED BY <2>1, <1>1, <1>k, Appended
<1>7. Built' /\ Room'
    BY <1>1, BuiltStays
<1>8. TypeOK'
    BY <1>1, <1>5, <1>6, <1>f DEF TypeOK, built, packing
<1>9. Packed'
    BY <1>1, <1>f DEF Packed, HeaderPacked, packed_len, built, packing
<1>10. Unpacked'
    <2>1. values' = values /\ types' = types /\ starts' = starts /\ data' = data /\ uTypes' = uTypes
        BY <1>1 DEF built
    <2>2. \A i \in 1 .. Len(uOffsets') : uOffsets'[i] = starts'[i]
        <3> SUFFICES ASSUME NEW i \in 1 .. k PROVE uOffsets'[i] = starts[i]
            BY <1>6, <2>1
        <3>1. CASE i = k
            BY <3>1, <1>6
        <3>2. CASE i # k
            <4>1. i \in 1 .. Len(uOffsets)
                BY <3>2, <1>k, <1>2, SMT
            <4>2. QED BY <4>1, <1>6, <1>f DEF Unpacked
        <3>3. QED BY <3>1, <3>2
    <2>3. offset' = StartOf(Len(uOffsets) + 1)'
        BY <1>5, <1>6, <2>1 DEF StartOf
    <2>4. Len(uOffsets') <= Len(values')
        BY <1>3, <1>6, <2>1, SMT
    <2>5. Len(uTypes') <= Len(values') /\ Len(uTypes') = Len(values')
        BY <1>2, <2>1
    <2>6. \A i \in 1 .. Len(uTypes') : uTypes'[i] = types'[i]
        BY <1>2, <2>1
    <2>7. QED BY <1>1, <2>2, <2>3, <2>4, <2>5, <2>6 DEF Unpacked
<1>11. QED BY <1>7, <1>8, <1>9, <1>10 DEF IInv

(* What the invariant says when the offsets of all fields are known.       *)
LEMMA OffsetsRead ==
    ASSUME IInv, phase = "offsets", Len(uOffsets) = Len(uTypes)
    PROVE  /\ Len(uOffsets) = Len(values) /\ offset = Len(data) /\ raw[1] = header_size
           /\ Len(raw) = header_size + Len(data)
           /\ Len(data) \in Nat /\ header_size \in 1 .. 255
<1>f. /\ TypeOK /\ Built /\ Packed /\ Unpacked
    BY DEF IInv
<1>1. Len(uOffsets) = Len(values) /\ offset = StartOf(Len(values) + 1)
    BY <1>f DEF Unpacked
<1>2. QED BY <1>1, <1>f, BuiltFacts DEF Packed

(* Copying the data out of the cell keeps the invariant.                 *)
LEMMA UnpackDataInv == IInv /\ unpackData => IInv'
<1> SUFFICES ASSUME IInv, unpackData PROVE IInv'
    OBVIOUS
<1>f. /\ TypeOK /\ Built /\ Packed /\ Unpacked
    BY DEF IInv
<1>1. /\ phase = "offsets" /\ phase' = "done" /\ Len(uOffsets) = Len(uTypes)
      /\ uData' = SubSeq(raw, raw[1] + 1, raw[1] + offset)
      /\ UNCHANGED <<built, packing, header_pos, uTypes, uOffsets, offset>>
    BY DEF unpackData, Copied
<1>2. /\ Len(uOffsets) = Len(values) /\ offset = Len(data) /\ raw[1] = header_size
      /\ Len(raw) = header_size + Len(data)
      /\ Len(data) \in Nat /\ header_size \in 1 .. 255
    BY <1>1, OffsetsRead
<1>3. /\ data \in Seq(Byte) /\ raw \in Seq(Byte \cup {Junk})
      /\ \A j \in 1 .. Len(data) : raw[header_size + j] = data[j]
    BY <1>1, <1>f DEF TypeOK, Packed
<1>4. Len(uData') = Len(data) /\ \A j \in 1 .. Len(data) : uData'[j] = data[j]
    <2>1. uData' = SubSeq(raw, header_size + 1, header_size + Len(data))
        BY <1>1, <1>2
    <2>2. uData' = [j \in 1 .. (header_size + Len(data)) - (header_size + 1) + 1 |->
                      raw[j + (header_size + 1) - 1]]
        BY <2>1, <1>2
    <2>3. /\ (header_size + Len(data)) - (header_size + 1) + 1 = Len(data)
          /\ \A j \in 1 .. Len(data) : j + (header_size + 1) - 1 = header_size + j
        BY <1>2, SMT
    <2>4. uData' = [j \in 1 .. Len(data) |-> raw[header_size + j]]
        BY <2>2, <2>3
    <2>5. QED BY <2>4, <1>2, <1>3
<1>5. uData' \in Seq(Byte)
    <2>2. uData' = [j \in 1 .. Len(data) |-> raw[header_size + j]]
        BY <1>1, <1>2, <1>3, SMT
    <2>3. \A j \in 1 .. Len(data) : data[j] \in Byte /\ raw[header_size + j] = data[j]
        BY <1>3
    <2>4. QED BY <2>2, <2>3, <1>2
<1>6. Built' /\ Room'
    BY <1>1, BuiltStays
<1>7. TypeOK'
    BY <1>1, <1>5, <1>f DEF TypeOK, built, packing
<1>8. Packed'
    BY <1>1, <1>f DEF Packed, HeaderPacked, packed_len, built, packing
<1>9. Unpacked'
    <2>1. values' = values /\ types' = types /\ starts' = starts /\ data' = data
        BY <1>1 DEF built
    <2>2. offset' = StartOf(Len(uOffsets) + 1)'
        BY <1>1, <1>f, <2>1 DEF Unpacked, StartOf
    <2>3. QED BY <1>1, <1>2, <1>4, <1>f, <2>1, <2>2 DEF Unpacked
<1>10. QED BY <1>6, <1>7, <1>8, <1>9 DEF IInv
-----------------------------------------------------------------------------
(* The theorems.                                                           *)

(* The appends, the packing and the reading of a record keep the inductive *)
(* invariant, for all values and all sizes.                                *)
THEOREM Inductive == Spec => []IInv
<1>1. IInv /\ [Next]_vars => IInv'
    <2> SUFFICES ASSUME IInv, [Next]_vars PROVE IInv'
        OBVIOUS
    <2>1. CASE AppendField
        <3>1. PICK v \in Values : appendInt(v) \/ appendNull(v) \/ appendString(v)
            BY <2>1 DEF AppendField
        <3>2. Len(data) \in Nat
            BY DEF IInv, TypeOK
        <3>3. CASE appendNull(v)
            BY <3>3, AppendInv DEF appendNull
        <3>4. CASE appendInt(v) \/ appendString(v)
            <4>1. AppendValue(v, Len(data)) /\ v.kind # "null"
                BY <3>4 DEF appendInt, appendString
            <4>2. QED BY <4>1, <3>2, AppendInv
        <3>5. QED BY <3>1, <3>3, <3>4
    <2>2. CASE finalize
        BY <2>2, FinalizeInv
    <2>3. CASE packField
        BY <2>3, PackFieldInv
    <2>4. CASE packData
        BY <2>4, PackDataInv
    <2>5. CASE Insert
        BY <2>5, InsertInv
    <2>6. CASE unpackType
        BY <2>6, UnpackTypeInv
    <2>7. CASE typesRead
        BY <2>7, TypesReadInv
    <2>8. CASE unpackOffset
        BY <2>8, UnpackOffsetInv
    <2>9. CASE unpackData
        BY <2>9, UnpackDataInv
    <2>10. CASE UNCHANGED vars
        <3>1. /\ UNCHANGED <<built, packing, unpacked>> /\ phase' = phase
              /\ header_pos' = header_pos
            BY <2>10 DEF vars
        <3>2. Built' /\ Room'
            BY <3>1, BuiltStays
        <3>3. TypeOK'
            BY <3>1 DEF IInv, TypeOK, built, packing, unpacked
        <3>4. Packed'
            BY <3>1 DEF IInv, Packed, HeaderPacked, HeadOf, packed_len, built, packing
        <3>5. Unpacked'
            BY <3>1 DEF IInv, Unpacked, StartOf, HeadOf, built, unpacked
        <3>6. QED BY <3>2, <3>3, <3>4, <3>5 DEF IInv
    <2>11. QED BY <2>1, <2>2, <2>3, <2>4, <2>5, <2>6, <2>7, <2>8, <2>9, <2>10 DEF Next
<1>2. QED BY InitInv, <1>1, PTL DEF Spec

(* Every append finds room in the buffer.                                  *)
THEOREM BufferIsLargeEnough == Spec => []DataFitsBuffer
<1>1. IInv => DataFitsBuffer
    BY DEF IInv, Room, DataFitsBuffer
<1>2. QED BY <1>1, Inductive, PTL

(* chidb_DBRecord_unpack reads no byte behind the record.                  *)
THEOREM ReadsAreInside == Spec => []ReadsStayInRecord
<1>1. IInv => ReadsStayInRecord
    <2> SUFFICES ASSUME IInv PROVE ReadsStayInRecord
        OBVIOUS
    <2>1. ASSUME phase = "types", header_pos < raw[1]
          PROVE  /\ header_pos < Len(raw)
                 /\ IsVarint(raw[header_pos + 1]) => header_pos + 4 <= Len(raw)
        <3>1. PICK k \in 1 .. Len(values) : header_pos = heads[k]
            BY <2>1, HeaderPosition
        <3>2. /\ header_pos + HeaderBytes(values[k]) <= Len(raw)
              /\ IsVarint(raw[header_pos + 1]) => HeaderBytes(values[k]) = 4
            BY <2>1, <3>1, TypeRead
        <3>3. header_pos \in Nat /\ raw[1] \in Nat /\ Len(raw) \in Nat /\ raw[1] <= Len(raw)
            <4>1. /\ header_pos \in Nat /\ raw[1] = header_size /\ header_size \in 1 .. 255
                  /\ Len(raw) = header_size + Len(data) /\ Len(data) \in Nat
                BY <2>1, HeaderPosition
            <4>2. QED BY <4>1, SMT
        <3>4. header_pos < Len(raw)
            BY <2>1, <3>3, SMT
        <3>5. QED BY <3>2, <3>4
    <2>2. ASSUME phase = "offsets", Len(uOffsets) = Len(uTypes)
          PROVE  raw[1] + offset <= Len(raw)
        BY <2>2, OffsetsRead, SMT
    <2>3. QED BY <2>1, <2>2 DEF ReadsStayInRecord
<1>2. QED BY <1>1, Inductive, PTL

(* What was appended is what is read, for every number of fields and every *)
(* value of the five types.                                                *)
THEOREM RecordsRoundTrip == Spec => []RoundTrip
<1>1. IInv => RoundTrip
    <2> SUFFICES ASSUME IInv, phase = "done" PROVE RoundTrip
        BY DEF RoundTrip
    <2>f. /\ TypeOK /\ Built /\ Packed /\ Unpacked
        BY DEF IInv
    <2>1. /\ Len(uTypes) = Len(values) /\ Len(types) = Len(values) /\ Len(uOffsets) = Len(values)
          /\ \A i \in 1 .. Len(values) : uTypes[i] = types[i] /\ uOffsets[i] = starts[i]
          /\ \A j \in 1 .. Len(data) : uData[j] = data[j]
        BY <2>f DEF Unpacked, Built, Lengths
    <2>2. ASSUME NEW i \in 1 .. Len(values)
          PROVE  /\ FieldAt(uData, uOffsets[i], uTypes[i]) = values[i]
                 /\ FieldAt(data, offsets[i], types[i]) = values[i]
        <3> DEFINE v == values[i]
        <3>1. /\ v \in Values /\ types[i] = TypeOf(v) /\ starts[i] \in Nat
              /\ StartOf(i + 1) = starts[i] + Len(DataOf(v))
            BY <2>f, BuiltFacts
        <3>2. FieldBuilt(i) /\ Adjacent(i)
            BY <2>f DEF Built
        <3>3. Len(DataOf(v)) \in Nat /\ Len(data) \in Nat
            BY <3>1, <2>f, ValueFacts, BuiltFacts
        <3>4. \A j \in 1 .. Len(DataOf(v)) : starts[i] + j \in 1 .. Len(data)
            BY <3>1, <3>2, <3>3, SMT DEF Adjacent
        <3>5. \A j \in 1 .. Len(DataOf(v)) : data[starts[i] + j] = DataOf(v)[j]
            BY <3>2 DEF FieldBuilt
        <3>6. \A j \in 1 .. Len(DataOf(v)) : uData[starts[i] + j] = DataOf(v)[j]
            BY <2>1, <3>4, <3>5
        <3>7. FieldAt(uData, starts[i], TypeOf(v)) = v
            BY <3>1, <3>6, FieldOfData
        <3>8. FieldAt(data, offsets[i], TypeOf(v)) = v
            <4>1. CASE v.kind = "null"
                <5>1. offsets[i] = 0
                    BY <4>1, <3>2 DEF FieldBuilt
                <5>2. QED BY <4>1, <5>1, <3>1, FieldOfData
            <4>2. CASE v.kind # "null"
                <5>1. offsets[i] = starts[i]
                    BY <4>2, <3>2 DEF FieldBuilt
                <5>2. FieldAt(data, starts[i], TypeOf(v)) = v
                    BY <3>1, <3>5, FieldOfData
                <5>3. QED BY <5>1, <5>2
            <4>3. QED BY <4>1, <4>2
        <3>9. QED BY <2>1, <3>1, <3>7, <3>8
    <2>3. QED BY <2>1, <2>2 DEF RoundTrip
<1>2. QED BY <1>1, Inductive, PTL
=============================================================================
