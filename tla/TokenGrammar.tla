------------------------------ MODULE TokenGrammar ------------------------------
(* What the token parsers of tedious read.  A parser is written in callbacks:    *)
(* it asks the stream for a number of bytes and its callback, given them, asks   *)
(* for the next ones.  Here such a request is a step, a record of the number n   *)
(* of bytes it needs and of what its callback does with them (to), and Then      *)
(* gives the steps the callback asks for.  The bytes that no later step depends  *)
(* on are "raw": what they are made into (strings, numbers, dates) is left out.  *)
EXTENDS Integers, Sequences, SequencesExt

Number(bytes) == FoldRight(LAMBDA b, n : b + 256 * n, bytes, 0)

(******************************* stream-parser.ts ********************************)

Step(to, n) == [to |-> to, n |-> n]
Raw(n) == << Step("raw", n) >>
\* A length of w bytes and as many units of u bytes.
Prefixed(w, u) == << [to |-> "prefix", n |-> w, unit |-> u] >>
BVarChar == Prefixed(1, 2)
UsVarChar == Prefixed(2, 2)
BVarByte == Prefixed(1, 1)
UsVarByte == Prefixed(2, 1)
Throw == << Step("throw", 0) >>
Times(n, steps) == FlattenSeq([i \in 1 .. n |-> steps])

(********************************* data-type.ts **********************************)

\* TYPE, from the id of a data type to its name.
TypeIds == [Null |-> 31, TinyInt |-> 48, Bit |-> 50, SmallInt |-> 52, Int |-> 56, SmallDateTime |-> 58,
  Real |-> 59, Money |-> 60, DateTime |-> 61, Float |-> 62, Decimal |-> 55, Numeric |-> 63,
  SmallMoney |-> 122, BigInt |-> 127, Image |-> 34, Text |-> 35, UniqueIdentifier |-> 36, IntN |-> 38,
  NText |-> 99, BitN |-> 104, DecimalN |-> 106, NumericN |-> 108, FloatN |-> 109, MoneyN |-> 110,
  DateTimeN |-> 111, VarBinary |-> 165, VarChar |-> 167, Binary |-> 173, Char |-> 175, NVarChar |-> 231,
  NChar |-> 239, Xml |-> 241, Time |-> 41, Date |-> 40, DateTime2 |-> 42, DateTimeOffset |-> 43,
  UDT |-> 240, TVP |-> 243, Variant |-> 98]

\* The type with this id, "unknown" when there is none.
TypeOf(id) == IF \E name \in DOMAIN TypeIds : TypeIds[name] = id
              THEN CHOOSE name \in DOMAIN TypeIds : TypeIds[name] = id
              ELSE "unknown"

\* How the values of the types of fixed width are read, one number per read.
Fixed == [Null |-> <<>>, TinyInt |-> <<1>>, SmallInt |-> <<2>>, Int |-> <<4>>, BigInt |-> <<8>>, Real |-> <<4>>,
          Float |-> <<8>>, SmallMoney |-> <<4>>, Money |-> <<4, 4>>, Bit |-> <<1>>, SmallDateTime |-> <<2, 2>>,
          DateTime |-> <<4, 4>>]

\* How a value that comes with its length may be read: the lengths of the reads
\* add up to that length, and a length no layout has is an error, of a number only
\* after its sign is read.
Layouts == [IntN |-> {<<1>>, <<2>>, <<4>>, <<8>>}, FloatN |-> {<<4>>, <<8>>}, MoneyN |-> {<<4>>, <<4, 4>>},
            BitN |-> {<<1>>}, DateTimeN |-> {<<2, 2>>, <<4, 4>>}, UniqueIdentifier |-> {<<16>>},
            Time |-> {<<3>>, <<4>>, <<5>>}, DateTime2 |-> {<<3, 3>>, <<4, 3>>, <<5, 3>>},
            DateTimeOffset |-> {<<3, 3, 2>>, <<4, 3, 2>>, <<5, 3, 2>>},
            NumericN |-> {<<1, 4>>, <<1, 8>>, <<1, 12>>, <<1, 16>>},
            DecimalN |-> {<<1, 4>>, <<1, 8>>, <<1, 12>>, <<1, 16>>}]

Reads(layout) == [i \in DOMAIN layout |-> Step("raw", layout[i])]
Total(layout) == FoldLeft(LAMBDA a, n : a + n, 0, layout)
Laid(type, length) ==
  IF \E layout \in Layouts[type] : Total(layout) = length
  THEN Reads(CHOOSE layout \in Layouts[type] : Total(layout) = length)
  ELSE (IF type \in {"NumericN", "DecimalN"} THEN Raw(1) ELSE <<>>) \o Throw

Chars == {"VarChar", "Char", "NVarChar", "NChar"}
Bytes == {"VarBinary", "Binary"}
Pointed == {"Text", "NText", "Image"}

(******************************* metadata-parser.ts ******************************)

\* The user type, the flags and the type byte; "for" is what the metadata is read for.
Metadata(for, old) == Raw(IF old THEN 2 ELSE 4) \o Raw(2) \o << [to |-> "type", n |-> 1, for |-> for] >>

\* What is read between the type byte and the name of a type.
Shape(type) ==
  CASE type \in DOMAIN Fixed \cup {"Date"} -> <<>>
    [] type \in {"IntN", "FloatN", "MoneyN", "BitN", "UniqueIdentifier", "DateTimeN"} -> Raw(1)
    [] type \in {"Time", "DateTime2", "DateTimeOffset"} -> Raw(1)
    [] type \in {"NumericN", "DecimalN"} -> Times(3, Raw(1))
    [] type \in {"Variant", "Image"} -> Raw(4)
    [] type \in {"Text", "NText"} -> Raw(4) \o Raw(5)
    [] type = "Xml" -> << Step("schema", 1) >>
    [] type = "UDT" -> Raw(2) \o Times(3, BVarChar) \o UsVarChar

(*************************** colmetadata-token-parser.ts *************************)

TableName(type, old) ==
  IF type \notin Pointed THEN <<>> ELSE IF old THEN UsVarChar ELSE << Step("parts", 1) >>

(******************************** value-parser.ts ********************************)

Value(col) ==
  LET type == col.type IN
  CASE type \in DOMAIN Fixed -> Reads(Fixed[type])
    [] type \in DOMAIN Layouts \cup {"Date"} -> << [to |-> "length", n |-> 1, type |-> type] >>
    [] type \in Chars \cup Bytes -> IF col.max THEN << Step("max", 8) >> ELSE << Step("short", 2) >>
    [] type \in Pointed -> << Step("pointer", 1) >>
    [] type \in {"Xml", "UDT"} -> << Step("max", 8) >>
    [] type = "Variant" -> << Step("variant", 4) >>

\* A value of a variant, of the length that is left for it.
VariantValue(type, length) ==
  CASE type \in DOMAIN Fixed \ {"Null"} -> Reads(Fixed[type])
    [] type = "UniqueIdentifier" -> Raw(16)
    [] type = "Date" -> Raw(3)
    [] type \in {"Time", "DateTime2", "DateTimeOffset"} -> Raw(1) \o Laid(type, length)
    [] type \in {"NumericN", "DecimalN"} -> Times(2, Raw(1)) \o Laid(type, length)
    [] type \in Bytes -> Raw(2) \o Raw(length)
    [] type \in Chars -> Raw(2) \o Raw(5) \o Raw(length)
    [] OTHER -> Throw

\* The metadata of col has been read.
Known(for, col, old) ==
  IF for = "value" THEN Value(col)
  ELSE TableName(col.type, old) \o BVarChar \o << [to |-> "column", n |-> 0, col |-> col] >>

Chunk(got, total) == << [to |-> "chunk", n |-> 4, got |-> got, total |-> total] >>

(******************************* the token parsers *******************************)

Type == [COLMETADATA |-> 129, DONE |-> 253, DONEPROC |-> 254, DONEINPROC |-> 255, ENVCHANGE |-> 227, ERROR |-> 170,
         FEATUREEXTACK |-> 174, FEDAUTHINFO |-> 238, INFO |-> 171, LOGINACK |-> 173, NBCROW |-> 210,
         ORDER |-> 169, RETURNSTATUS |-> 121, RETURNVALUE |-> 172, ROW |-> 209, SSPI |-> 237]

\* What a parser reads after the type byte of its token, before TDS 7.2 (old) and since.
ColMetadata == << Step("columns", 2) >>
Row(cols) == FlattenSeq([i \in DOMAIN cols |-> Value(cols[i])])
NbcRow(cols) == << Step("bitmap", (Len(cols) + 7) \div 8) >>
Done(old) == Times(2, Raw(2)) \o Raw(IF old THEN 4 ELSE 8)
EnvChangeToken == << Step("envLength", 2) >>
InfoError(old) == Raw(2) \o Raw(4) \o Times(2, Raw(1)) \o UsVarChar \o Times(2, BVarChar) \o Raw(IF old THEN 2 ELSE 4)
LoginAck == Raw(2) \o Raw(1) \o Raw(4) \o BVarChar \o Times(4, Raw(1))
Order == << Step("order", 2) >>
ReturnStatus == Raw(4)
ReturnValue(old) == Raw(2) \o BVarChar \o Raw(1) \o Metadata("value", old)
Sspi == << Step("sspi", 2) >>
FedAuthInfo == << Step("fedAuth", 4) >>
FeatureExtAck == << Step("feature", 1) >>

TokenSteps(type, old, cols) ==
  CASE type = Type.COLMETADATA -> ColMetadata
    [] type = Type.ROW -> Row(cols)
    [] type = Type.NBCROW -> NbcRow(cols)
    [] type \in {Type.DONE, Type.DONEPROC, Type.DONEINPROC} -> Done(old)
    [] type = Type.ENVCHANGE -> EnvChangeToken
    [] type \in {Type.ERROR, Type.INFO} -> InfoError(old)
    [] type = Type.LOGINACK -> LoginAck
    [] type = Type.ORDER -> Order
    [] type = Type.RETURNSTATUS -> ReturnStatus
    [] type = Type.RETURNVALUE -> ReturnValue(old)
    [] type = Type.SSPI -> Sspi
    [] type = Type.FEDAUTHINFO -> FedAuthInfo
    [] type = Type.FEATUREEXTACK -> FeatureExtAck
    [] OTHER -> Throw

\* The values of the columns whose bit in the bitmap is not set.
NotNull(cols, bitmap) ==
  LET Null(i) == (bitmap[(i + 7) \div 8] \div 2 ^ ((i - 1) % 8)) % 2 = 1
  IN FlattenSeq([i \in DOMAIN cols |-> IF Null(i) THEN <<>> ELSE Value(cols[i])])

EnvChange(type, length) ==
  CASE type \in {1, 2, 3, 4, 13} -> Times(2, BVarChar)
    [] type \in {7, 8, 9, 10, 18} -> Times(2, BVarByte)
    [] type = 20 -> << Step("routing", 2) >>
    [] OTHER -> << Step("skip", length - 1) >>

\* What the callback of step s asks for, given the bytes it waited for: in metadata,
MetadataThen(s, bytes, old) ==
  CASE s.to = "type" ->
         LET type == TypeOf(bytes[1]) IN
         IF type \in {"unknown", "Decimal", "Numeric", "TVP"} THEN Throw
         ELSE IF type \in Chars \cup Bytes THEN << [to |-> "dataLength", n |-> 2, type |-> type, for |-> s.for] >>
         ELSE Shape(type) \o Known(s.for, [type |-> type, max |-> FALSE], old)
    [] s.to = "dataLength" -> (IF s.type \in Chars THEN Raw(5) ELSE <<>>)
                              \o Known(s.for, [type |-> s.type, max |-> bytes = <<255, 255>>], old)
    [] s.to = "schema" -> IF bytes = <<1>> THEN Times(2, BVarChar) \o UsVarChar ELSE <<>>
    [] s.to = "parts" -> Times(bytes[1], UsVarChar)
    [] s.to = "columns" -> Times(Number(bytes), Metadata("column", old))

\* in values,
ValueThen(s, bytes) ==
  CASE s.to = "length" -> IF bytes[1] = 0 THEN <<>> ELSE IF s.type = "Date" THEN Raw(3) ELSE Laid(s.type, bytes[1])
    [] s.to = "short" -> IF bytes = <<255, 255>> THEN <<>> ELSE Raw(Number(bytes))
    [] s.to = "pointer" -> IF bytes[1] = 0 THEN <<>> ELSE Raw(bytes[1]) \o Raw(8) \o Prefixed(4, 1)
    [] s.to = "variant" -> IF Number(bytes) = 0 THEN <<>>
                           ELSE << [to |-> "baseType", n |-> 1, length |-> Number(bytes)] >>
    [] s.to = "baseType" -> << [to |-> "propBytes", n |-> 1, type |-> TypeOf(bytes[1]), length |-> s.length] >>
    [] s.to = "propBytes" -> VariantValue(s.type, s.length - bytes[1] - 2)

\* in values of unlimited length, which come in chunks; those whose announced length
\* does not fit in 32 bits are longer than any message here, so no chunks make it up,
Unknown == -1
OutOfReach == -2
MaxThen(s, bytes) ==
  CASE s.to = "max" -> CASE bytes = [i \in 1 .. 8 |-> 255] -> <<>>
                         [] bytes = [i \in 1 .. 8 |-> IF i = 1 THEN 254 ELSE 255] -> Chunk(0, Unknown)
                         [] \E i \in 5 .. 8 : bytes[i] # 0 -> Chunk(0, OutOfReach)
                         [] OTHER -> Chunk(0, Number(SubSeq(bytes, 1, 4)))
    [] s.to = "chunk" -> IF Number(bytes) # 0 THEN Raw(Number(bytes)) \o Chunk(s.got + Number(bytes), s.total)
                         ELSE IF s.total \in {Unknown, s.got} THEN <<>> ELSE Throw

\* and in the other tokens.
RoutingThen(s, bytes) ==
  IF s.to = "routing" THEN << Step("route", Number(bytes)) >>
  ELSE IF Len(bytes) < 5 \/ bytes[1] # 0 THEN Throw ELSE UsVarByte

OrderThen(s, bytes) ==
  CASE s.to = "order" -> << [to |-> "orderColumns", n |-> 0, left |-> Number(bytes)] >>
    [] s.to = "orderColumns" -> IF s.left = 0 THEN <<>> ELSE Raw(2) \o << [s EXCEPT !.left = @ - 2] >>

SspiThen(s, bytes) ==
  CASE s.to = "sspi" -> << Step("challenge", Number(bytes)) >>
    [] s.to = "challenge" -> IF Len(bytes) < 48 THEN Throw ELSE <<>>

FedAuthThen(s, bytes) ==
  CASE s.to = "fedAuth" -> << Step("fedAuthInfo", Number(bytes)) >>
    [] s.to = "fedAuthInfo" ->
         IF Len(bytes) < 4 \/ Len(bytes) < 4 + 9 * Number(SubSeq(bytes, 1, 4)) THEN Throw ELSE <<>>

Then(s, bytes, old, cols) ==
  CASE s.to \in {"raw", "column", "skip", "throw"} -> <<>>
    [] s.to = "prefix" -> Raw(Number(bytes) * s.unit)
    [] s.to \in {"type", "dataLength", "schema", "parts", "columns"} -> MetadataThen(s, bytes, old)
    [] s.to \in {"length", "short", "pointer", "variant", "baseType", "propBytes"} -> ValueThen(s, bytes)
    [] s.to \in {"max", "chunk"} -> MaxThen(s, bytes)
    [] s.to = "bitmap" -> NotNull(cols, bytes)
    [] s.to = "envLength" -> << [to |-> "envType", n |-> 1, length |-> Number(bytes)] >>
    [] s.to = "envType" -> EnvChange(bytes[1], s.length)
    [] s.to \in {"routing", "route"} -> RoutingThen(s, bytes)
    [] s.to \in {"order", "orderColumns"} -> OrderThen(s, bytes)
    [] s.to \in {"sspi", "challenge"} -> SspiThen(s, bytes)
    [] s.to \in {"fedAuth", "fedAuthInfo"} -> FedAuthThen(s, bytes)
    [] s.to = "feature" -> IF bytes[1] = 255 THEN <<>> ELSE Prefixed(4, 1) \o << Step("feature", 1) >>
=================================================================================
