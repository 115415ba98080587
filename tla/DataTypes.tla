----------------------------- MODULE DataTypes -----------------------------
(***************************************************************************)
(* The parameters of a request on their way to the server: every data type *)
(* of src/data-types/ validates a JavaScript value, declares it and writes *)
(* it as TYPE_INFO, a length and bytes, and rpcrequest-payload.ts strings  *)
(* the parameters of a call together, piece by piece as the message stream *)
(* asks for them.  What the server makes of it is in ServerReading.        *)
(*                                                                         *)
(* Bytes are fields: [w, v] is w bytes that hold v.  A number is counted   *)
(* in halves of the smallest unit of its type (1, 0.0001 of a money, the   *)
(* last digit of a decimal), so that fractions are there to be lost; a     *)
(* numeric string is its number.  A string or a buffer is its length in    *)
(* characters and in bytes (of the collation's code page), a GUID its      *)
(* sixteen pairs of digits, and a Date is a day since 1900-01-01, the      *)
(* milliseconds of the day in UTC and its nanosecondDelta in units of      *)
(* 100ns.  Collations, names and the text of declarations are left out.    *)
(***************************************************************************)
EXTENDS Integers, Sequences, SequencesExt, FiniteSetsExt

CONSTANTS
    Byte,         \* values of a byte: 256, fewer to keep TLC's numbers small
    MaxSafe,      \* Number.MAX_SAFE_INTEGER
    MaxLength,    \* 8000: longest char, varchar, binary, varbinary in bytes
    Plus,         \* the local zone, in minutes east of UTC
    UseUTC,       \* options.useUTC
    HasHeaders,   \* options.tdsVersion >= '7_2'
    Lists,        \* the parameter lists requests are made with
    MaxRuns       \* how often the same request is executed

ASSUME WidthsAssumption ==
    /\ Byte \in Nat /\ Byte % 2 = 0 /\ Byte > 0
    /\ MaxSafe \in Nat /\ 2 * MaxSafe < Byte ^ 8
    /\ MaxLength \in Nat /\ MaxLength < Byte ^ 2 - 1
    /\ {UseUTC, HasHeaders} \subseteq BOOLEAN /\ MaxRuns \in Nat
    /\ \A w \in 1 .. 8 : Byte ^ w \in Nat

Types == {"TinyInt", "SmallInt", "Int", "BigInt", "SmallMoney", "Money", "Float", "Real",
          "Decimal", "Numeric", "Bit", "DateTime", "SmallDateTime", "Date", "Time", "DateTime2",
          "DateTimeOffset", "VarChar", "Char", "Text", "NVarChar", "NChar", "NText",
          "VarBinary", "Binary", "Image", "UniqueIdentifier", "TVP"}

ASSUME ListsAssumption ==
    \A list \in Lists : \A i \in DOMAIN list :
        LET p == list[i] IN
        /\ i \in Nat \ {0} /\ {"type", "value"} \subseteq DOMAIN p
        /\ p.type \in Types
        /\ p.value.kind = "number" => p.value \in [kind : {"number"}, n : Int]

VARIABLES
    params,   \* request.parameters: their values are replaced by validation
    stage,    \* what the generator yields next, or how the call ended
    at,       \* the parameter it is at
    wire,     \* the fields written so far
    given,    \* history: the parameters as the application gave them
    runs,     \* history: how often the request was executed
    before    \* history: what the previous execution wrote, and how it ended
callVars == <<params, stage, at, wire, given, runs, before>>

-----------------------------------------------------------------------------
\* Values, and what the Buffer methods do with numbers.
Null == [kind |-> "null"]
Invalid == [kind |-> "invalid"]
Unset == -9
Throws == << [w |-> -1, v |-> Null, is |-> "data"] >>
TooLong == Byte ^ 2 - 1      \* 0xFFFF: NULL of a short length, MAX of a type

IsNull(p) == p.value.kind = "null"
Field(w, v) == IF w = 0 THEN <<>> ELSE << [w |-> w, v |-> v, is |-> "data"] >>
Width(fs) == FoldLeft(LAMBDA n, f : n + f.w, 0, fs)
Thrown(fs) == fs # <<>> /\ Head(fs).w = -1
Pieces(s) == IF \E i \in DOMAIN s : Thrown(s[i]) THEN Throws ELSE FlattenSeq(s)
Trunc(h) == IF h < 0 THEN -((-h) \div 2) ELSE h \div 2
Unsigned(w, n) == IF n \in 0 .. Byte ^ w - 1 THEN Field(w, n) ELSE Throws
Signed(w, n) == IF 2 * n >= -(Byte ^ w) /\ 2 * n < Byte ^ w
                THEN Field(w, n % Byte ^ w) ELSE Throws
AsSigned(w, n) == IF 2 * n >= Byte ^ w THEN n - Byte ^ w ELSE n

MsPerDay == 86400000
\* An instant some minutes later, and the day and time of a Date in UTC or in
\* the local zone, as getUTCHours, getHours and the others show them.
Later(d, minutes) ==
    LET ms == d.ms + minutes * 60000
    IN  [day |-> d.day + ms \div MsPerDay, ms |-> ms % MsPerDay]
Shown(d) == Later(d, IF UseUTC THEN 0 ELSE Plus)
\* new Date(Date.UTC(...)) or new Date(...) of a shown day and time.
Meant(day, ms) == Later([day |-> day + ms \div MsPerDay, ms |-> ms % MsPerDay],
                        IF UseUTC THEN 0 ELSE -Plus)

-----------------------------------------------------------------------------
\* validate: what takes the place of the value, or Invalid where it throws.
Numeric(v) == IF v.kind \in {"null", "number"} THEN v ELSE Invalid
Within(lo, hi, v) ==
    IF Numeric(v).kind = "number" /\ (v.n < 2 * lo \/ v.n > 2 * hi) THEN Invalid
    ELSE Numeric(v)
Whole(lo, hi, v) ==
    LET u == Within(lo, hi, v)
    IN  IF u.kind = "number" THEN [u EXCEPT !.n = 2 * Trunc(u.n)] ELSE u
OfKind(kind, v) == IF v.kind \in {"null", kind} THEN v ELSE Invalid
\* iconv.encode: the string becomes a buffer.
CodePage(v) ==
    IF v.kind = "string" THEN [kind |-> "buffer", bytes |-> v.bytes]
    ELSE OfKind("null", v)

ValidTinyInt(v) == Whole(0, Byte - 1, v)
ValidSmallInt(v) == Whole(-(Byte ^ 2 \div 2), Byte ^ 2 \div 2 - 1, v)
ValidInt(v) == Whole(-(Byte ^ 4 \div 2), Byte ^ 4 \div 2 - 1, v)
ValidBigInt(v) == Within(-MaxSafe, MaxSafe, v)
ValidSmallMoney(v) == Within(-(Byte ^ 4 \div 2), Byte ^ 4 \div 2 - 1, v)
ValidMoney(v) == Numeric(v)
ValidFloat(v) == Numeric(v)
ValidReal(v) == Numeric(v)
ValidDecimal(v) == Numeric(v)
ValidNumeric(v) == Numeric(v)
ValidBit(v) ==
    IF v.kind = "null" THEN v
    ELSE [kind |-> "boolean", b |-> \/ v.kind \in {"date", "buffer", "guid", "table"}
                                    \/ v.kind = "boolean" /\ v.b
                                    \/ v.kind = "number" /\ v.n # 0
                                    \/ v.kind = "string" /\ v.chars # 0]
ValidDateTime(v) == OfKind("date", v)
ValidSmallDateTime(v) == OfKind("date", v)
ValidDate(v) == OfKind("date", v)
ValidTime(v) == OfKind("date", v)
ValidDateTime2(v) == OfKind("date", v)
ValidDateTimeOffset(v) == OfKind("date", v)
ValidVarChar(v) == CodePage(v)
ValidChar(v) == CodePage(v)
ValidText(v) == CodePage(v)
\* Mutant: the string is encoded when it is validated, as for VarChar.
ValidNVarCharEncodes(v) ==
    IF v.kind = "string" THEN [kind |-> "buffer", bytes |-> 2 * v.chars]
    ELSE OfKind("null", v)

ValidNVarChar(v) == OfKind("string", v)
ValidNChar(v) == OfKind("string", v)
ValidNText(v) == OfKind("string", v)
ValidVarBinary(v) == OfKind("buffer", v)
ValidBinary(v) == OfKind("buffer", v)
ValidImage(v) == OfKind("buffer", v)
ValidUniqueIdentifier(v) == OfKind("guid", v)
ValidTVP(v) == OfKind("table", v)

Validate(type, v) ==
    CASE type = "TinyInt" -> ValidTinyInt(v)
      [] type = "SmallInt" -> ValidSmallInt(v)
      [] type = "Int" -> ValidInt(v)
      [] type = "BigInt" -> ValidBigInt(v)
      [] type = "SmallMoney" -> ValidSmallMoney(v)
      [] type = "Money" -> ValidMoney(v)
      [] type = "Float" -> ValidFloat(v)
      [] type = "Real" -> ValidReal(v)
      [] type = "Decimal" -> ValidDecimal(v)
      [] type = "Numeric" -> ValidNumeric(v)
      [] type = "Bit" -> ValidBit(v)
      [] type = "DateTime" -> ValidDateTime(v)
      [] type = "SmallDateTime" -> ValidSmallDateTime(v)
      [] type = "Date" -> ValidDate(v)
      [] type = "Time" -> ValidTime(v)
      [] type = "DateTime2" -> ValidDateTime2(v)
      [] type = "DateTimeOffset" -> ValidDateTimeOffset(v)
      [] type = "VarChar" -> ValidVarChar(v)
      [] type = "Char" -> ValidChar(v)
      [] type = "Text" -> ValidText(v)
      [] type = "NVarChar" -> ValidNVarChar(v)
      [] type = "NChar" -> ValidNChar(v)
      [] type = "NText" -> ValidNText(v)
      [] type = "VarBinary" -> ValidVarBinary(v)
      [] type = "Binary" -> ValidBinary(v)
      [] type = "Image" -> ValidImage(v)
      [] type = "UniqueIdentifier" -> ValidUniqueIdentifier(v)
      [] type = "TVP" -> ValidTVP(v)

-----------------------------------------------------------------------------
\* generateTypeInfo, generateParameterLength and generateParameterData of each
\* type, of a validated value.  A TYPE_INFO is one field with what the server
\* reads in it.  Types of one size write a length of one byte, 0 for NULL.
Written(info, length, data) == [info |-> info, length |-> length, data |-> data]
Sized(p, info, size, data) ==
    Written(info, Field(1, IF IsNull(p) THEN 0 ELSE size), IF IsNull(p) THEN <<>> ELSE data)
InfoOf(w, id, max, scale) ==
    << [w |-> w, v |-> [id |-> id, max |-> max, scale |-> scale], is |-> "info"] >>
Info(w, id, max) == InfoOf(w, id, max, 0)

TinyInt(p) == Sized(p, Info(2, "IntN", 1), 1, Unsigned(1, Trunc(p.value.n)))
SmallInt(p) == Sized(p, Info(2, "IntN", 2), 2, Signed(2, Trunc(p.value.n)))
Integer(p) == Sized(p, Info(2, "IntN", 4), 4, Signed(4, Trunc(p.value.n)))
\* BigInt(value) throws on a fraction.
BigInt(p) == Sized(p, Info(2, "IntN", 8), 8,
                   IF p.value.n % 2 = 1 THEN Throws ELSE Signed(8, p.value.n \div 2))
Bit(p) == Sized(p, Info(2, "BitN", 1), 1, Field(1, IF p.value.b THEN 1 ELSE 0))
Float(p) == Sized(p, Info(2, "FloatN", 8), 8, Field(8, p.value.n))
\* A single is the nearest of fewer digits: here an even number of halves.
Real(p) == Sized(p, Info(2, "FloatN", 4), 4, Field(4, 2 * (p.value.n \div 2)))
SmallMoney(p) == Sized(p, Info(2, "MoneyN", 4), 4, Signed(4, Trunc(p.value.n)))
\* The high word is rounded down, the low one is cut off.
Money(p) ==
    Sized(p, Info(2, "MoneyN", 8), 8,
          Pieces(<< Signed(4, (p.value.n \div 2) \div Byte ^ 4),
                    Field(4, Trunc(p.value.n) % Byte ^ 4) >>))

\* A sign and 4, 8, 12 or 16 bytes, whatever the digits of the value.  Without a
\* scale the value is NaN: BigInt throws on it, writeUInt32LE writes zeros.
Magnitude(p) == IF p.value.n < 0 THEN (1 - p.value.n) \div 2 ELSE (p.value.n + 1) \div 2
Digits(p, size, zeros) ==
    LET number == IF p.scale = Unset THEN IF size = 4 THEN Field(4, 0) ELSE Throws
                  ELSE Unsigned(size, Magnitude(p))
        w == 1 + size + 4 * zeros
    IN  Sized(p, InfoOf(4, "DecimalN", w, p.scale), w,
              Pieces(<< Field(1, IF p.value.n < 0 THEN 0 ELSE 1), number >>
                     \o [i \in 1 .. zeros |-> Field(4, 0)]))
Decimal(p) ==
    CASE p.precision \in 0 .. 9 -> Digits(p, 4, 0)
      [] p.precision \in 10 .. 19 -> Digits(p, 8, 0)
      [] p.precision \in 20 .. 28 -> Digits(p, 8, 1)
      [] OTHER -> Digits(p, 8, 2)
NumericData(p) == Decimal(p)

\* Mutant: a full day of three-hundredths is left to the time.
DateTimeUncarried(p) ==
    LET shown == Shown(p.value)
    IN  Sized(p, Info(2, "DateTimeN", 8), 8,
              Field(4, shown.day) \o Field(4, (shown.ms * 3 + 5) \div 10))
\* Days since 1900 and three-hundredths of a second; 25920000 equals one day.
DateTime(p) ==
    LET shown == Shown(p.value)
        thirds == (shown.ms * 3 + 5) \div 10
        full == thirds = 25920000
    IN  Sized(p, Info(2, "DateTimeN", 8), 8,
              Field(4, IF full THEN shown.day + 1 ELSE shown.day)
              \o Field(4, IF full THEN 0 ELSE thirds))
\* Days and whole minutes of 1900 to 2079.
SmallDateTime(p) ==
    LET shown == Shown(p.value)
    IN  Sized(p, Info(2, "DateTimeN", 4), 4,
              IF shown.day \in 0 .. 65535
              THEN Field(2, shown.day) \o Field(2, shown.ms \div 60000) ELSE Throws)

\* Days since 0001-01-01 take three bytes; DateTime2 lets them wrap.
Days(day) == day + 693595
Date(p) ==
    LET days == Days(Shown(p.value).day)
    IN  Sized(p, Info(1, "Date", 3), 3,
              IF days \in 0 .. 16777215 THEN Field(3, days) ELSE Throws)
\* The time of the day, rounded to the scale, as <<seconds, units>>: it may
\* come to 86400 seconds, and nothing is carried to the date.
ScaleWidth(scale) == IF scale <= 2 THEN 3 ELSE IF scale <= 4 THEN 4 ELSE 5
Unit(scale) == 10 ^ (7 - scale)
Timestamp(scale, ms, delta) ==
    LET ticks == (ms % 1000) * 10000 + delta
        units == (ticks + Unit(scale) \div 2) \div Unit(scale)
    IN  Field(ScaleWidth(scale),
              << ms \div 1000 + units \div 10 ^ scale, units % 10 ^ scale >>)
Scaled(p, id, w, data) ==
    IF ~IsNull(p) /\ p.scale \notin 0 .. 7 THEN Written(<<>>, Throws, Throws)
    ELSE Sized(p, InfoOf(2, id, w, p.scale), w, data)
Time(p) ==
    Scaled(p, "Time", ScaleWidth(p.scale),
           Timestamp(p.scale, Shown(p.value).ms, p.value.delta))
DateTime2(p) ==
    Scaled(p, "DateTime2", ScaleWidth(p.scale) + 3,
           Timestamp(p.scale, Shown(p.value).ms, p.value.delta)
           \o Field(3, Days(Shown(p.value).day) % 16777216))
\* Always in UTC, with the zone's offset after it.
DateTimeOffset(p) ==
    Scaled(p, "DateTimeOffset", ScaleWidth(p.scale) + 5,
           Timestamp(p.scale, p.value.ms, p.value.delta)
           \o Field(3, Days(p.value.day) % 16777216) \o Field(2, Plus))

-----------------------------------------------------------------------------
\* Types of varying size: a length of two bytes, or chunks when more than the
\* type's maximum is declared.  Unknown and NULL lengths of chunks:
UnknownPlp == -2
NullPlp == -1

Fits(p, max) == p.length # Unset /\ p.length <= max
Varying(p, w, id, max, unit, bytes) ==
    Written(Info(w, id, IF Fits(p, max) THEN p.length * unit ELSE TooLong),
            CASE Fits(p, max) /\ IsNull(p) -> Field(2, TooLong)
              [] Fits(p, max) /\ ~IsNull(p) -> Unsigned(2, bytes)
              [] ~Fits(p, max) /\ IsNull(p) -> Field(8, NullPlp)
              [] OTHER -> Field(8, UnknownPlp),
            CASE IsNull(p) -> <<>>
              [] ~IsNull(p) /\ Fits(p, max) -> Field(bytes, bytes)
              [] OTHER -> (IF bytes > 0 THEN Field(4, bytes) \o Field(bytes, bytes)
                           ELSE <<>>) \o Field(4, 0))
\* The bytes of a string in ucs2, or of a buffer.
Ucs2(v) == IF v.kind = "buffer" THEN v.bytes ELSE 2 * v.chars
VarChar(p) == Varying(p, 8, "Short", MaxLength, 1, p.value.bytes)
NVarChar(p) == Varying(p, 8, "Short", MaxLength \div 2, 2, Ucs2(p.value))
VarBinary(p) == Varying(p, 3, "Short", MaxLength, 1, p.value.bytes)

Declared(p, w, max, length, bytes) ==
    Written(Info(w, "Short", max),
            IF IsNull(p) THEN Field(2, TooLong) ELSE Unsigned(2, length),
            IF IsNull(p) THEN <<>> ELSE Field(bytes, bytes))
Char(p) == Declared(p, 8, p.length, p.value.bytes, p.value.bytes)
NChar(p) == Declared(p, 8, 2 * p.length, Ucs2(p.value), Ucs2(p.value))
\* The declared length is announced, and at most that much of the value sent.
Binary(p) == Declared(p, 3, p.length, p.length,
                      Min({p.value.bytes, p.length, MaxLength}))

Long(p, w, bytes) ==
    Written(Info(w, "Long", p.length),
            IF IsNull(p) THEN Signed(4, -1) ELSE Signed(4, bytes),
            IF IsNull(p) THEN <<>> ELSE Field(bytes, bytes))
Text(p) == Long(p, 10, p.value.bytes)
NText(p) == Long(p, 10, 2 * p.value.chars)
Image(p) == Long(p, 5, p.value.bytes)

\* guidToArray: the first three groups are turned around.
GuidToArray(pairs) ==
    LET order == << 4, 3, 2, 1, 6, 5, 8, 7 >> \o [i \in 1 .. 8 |-> i + 8]
    IN  [i \in 1 .. 16 |-> pairs[order[i]]]
UniqueIdentifier(p) ==
    Sized(p, Info(2, "UniqueIdentifier", 16), 16, Field(16, GuidToArray(p.value.pairs)))

WriteScalar(p) ==
    CASE p.type = "TinyInt" -> TinyInt(p)
      [] p.type = "SmallInt" -> SmallInt(p)
      [] p.type = "Int" -> Integer(p)
      [] p.type = "BigInt" -> BigInt(p)
      [] p.type = "Bit" -> Bit(p)
      [] p.type = "Float" -> Float(p)
      [] p.type = "Real" -> Real(p)
      [] p.type = "SmallMoney" -> SmallMoney(p)
      [] p.type = "Money" -> Money(p)
      [] p.type = "Decimal" -> Decimal(p)
      [] p.type = "Numeric" -> NumericData(p)
      [] p.type = "DateTime" -> DateTime(p)
      [] p.type = "SmallDateTime" -> SmallDateTime(p)
      [] p.type = "Date" -> Date(p)
      [] p.type = "Time" -> Time(p)
      [] p.type = "DateTime2" -> DateTime2(p)
      [] p.type = "DateTimeOffset" -> DateTimeOffset(p)
      [] p.type = "VarChar" -> VarChar(p)
      [] p.type = "NVarChar" -> NVarChar(p)
      [] p.type = "VarBinary" -> VarBinary(p)
      [] p.type = "Char" -> Char(p)
      [] p.type = "NChar" -> NChar(p)
      [] p.type = "Binary" -> Binary(p)
      [] p.type = "Text" -> Text(p)
      [] p.type = "NText" -> NText(p)
      [] p.type = "Image" -> Image(p)
      [] p.type = "UniqueIdentifier" -> UniqueIdentifier(p)

\* A table: its columns, an end, its rows and an end.  The rows' values are only
\* validated now, and a row is written as long as it is, whatever the columns.
TVP(p) ==
    LET columns == p.value.columns
        rows == p.value.rows
        column(c) == Pieces(<< Field(6, 0), WriteScalar([c EXCEPT !.value = Null]).info,
                               Field(1, 0) >>)
        cell(c, v) ==
            LET value == Validate(c.type, v)
                q == [c EXCEPT !.value = value]
            IN  IF value = Invalid THEN Throws
                ELSE Pieces(<< WriteScalar(q).length, WriteScalar(q).data >>)
        row(r) ==
            IF Len(r) > Len(columns) THEN Throws
            ELSE Pieces(<< Field(1, 1) >> \o [k \in DOMAIN r |-> cell(columns[k], r[k])])
    IN  Written(Info(4, "TVP", 0),
                IF IsNull(p) THEN Field(2, TooLong) ELSE Unsigned(2, Len(columns)),
                IF IsNull(p) THEN Field(1, 0) \o Field(1, 0)
                ELSE Pieces([i \in DOMAIN columns |-> column(columns[i])]
                            \o << Field(1, 0) >>
                            \o [i \in DOMAIN rows |-> row(rows[i])] \o << Field(1, 0) >>))
Write(p) == IF p.type = "TVP" THEN TVP(p) ELSE WriteScalar(p)

-----------------------------------------------------------------------------
\* resolveLength, resolvePrecision and resolveScale, asked where an option is
\* not set, or is zero.
OrOne(n) == IF n = 0 THEN 1 ELSE n
ResolveLength(p) ==
    CASE p.type = "Binary" -> IF IsNull(p) THEN MaxLength ELSE p.value.bytes
      [] p.type \in {"Text", "Image"} -> IF IsNull(p) THEN -1 ELSE p.value.bytes
      [] p.type = "NText" -> IF IsNull(p) THEN -1 ELSE p.value.chars
      [] p.type = "UniqueIdentifier" -> 16
      [] OTHER ->
            IF p.length # Unset THEN p.length
            ELSE CASE p.type \in {"VarChar", "Char"} ->
                        IF IsNull(p) THEN MaxLength ELSE OrOne(p.value.bytes)
                   [] p.type \in {"NVarChar", "NChar"} ->
                        IF IsNull(p) THEN MaxLength \div 2 ELSE OrOne(Ucs2(p.value) \div 2)
                   [] p.type = "VarBinary" -> IF IsNull(p) THEN MaxLength ELSE p.value.bytes
                   [] OTHER -> Unset
ResolvePrecision(p) ==
    IF p.type \notin {"Decimal", "Numeric"} \/ p.precision # Unset THEN p.precision
    ELSE IF IsNull(p) THEN 1 ELSE 18
ResolveScale(p) ==
    IF p.scale # Unset THEN p.scale
    ELSE CASE p.type \in {"Time", "DateTime2", "DateTimeOffset"} -> IF IsNull(p) THEN 0 ELSE 7
           [] p.type \in {"Decimal", "Numeric"} -> 0
           [] OTHER -> Unset
Resolved(p) ==
    LET or(option, resolved) == IF option \in {Unset, 0} THEN resolved ELSE option
    IN  [p EXCEPT !.length = or(p.length, ResolveLength(p)),
                  !.precision = or(p.precision, ResolvePrecision(p)),
                  !.scale = or(p.scale, ResolveScale(p))]

\* writeToTrackingBuffer of all-headers.ts: the total length is written last.
Headers == Field(4, 22) \o Field(4, 18) \o Field(2, 2) \o Field(8, "txn") \o Field(4, 1)

-----------------------------------------------------------------------------
CallInit ==
    /\ params \in Lists
    /\ stage = "made" /\ at = 1 /\ wire = <<>>
    /\ given = params /\ runs = 0 /\ before = [stage |-> "none", wire |-> <<>>]

\* validateParameters: values are replaced one by one up to the first that is
\* refused.
Refusals(list) == {i \in DOMAIN list : Validate(list[i].type, list[i].value) = Invalid}
Replaced(list) ==
    [i \in DOMAIN list |->
        IF Refusals(list) \cap 1 .. i = {}
        THEN [list[i] EXCEPT !.value = Validate(list[i].type, list[i].value)]
        ELSE list[i]]

\* callProcedure: a request that is refused writes nothing.
ExecSql ==
    /\ stage = "made" /\ runs < MaxRuns
    /\ params' = Replaced(params)
    /\ stage' = IF Refusals(params) = {} THEN "call" ELSE "invalid"
    /\ at' = 1 /\ wire' = <<>> /\ runs' = runs + 1
    /\ UNCHANGED <<given, before>>

\* A piece is yielded, or the generator throws and the message breaks off.
YieldPiece(piece, next, param) ==
    /\ stage' = IF Thrown(piece) THEN "failed" ELSE next
    /\ wire' = IF Thrown(piece) THEN wire ELSE wire \o piece
    /\ at' = param
    /\ UNCHANGED <<params, given, runs, before>>
\* generateData: headers, the procedure's name, the option flags.
Call ==
    /\ stage = "call"
    /\ YieldPiece((IF HasHeaders THEN Headers ELSE <<>>) \o Field(2, 1) \o Field(2, "p")
                    \o Field(2, 0), IF params = <<>> THEN "sent" ELSE "name", 1)
\* generateParameterData: name and status, TYPE_INFO, length, data.
Name ==
    /\ stage = "name"
    /\ YieldPiece(Field(1, 2) \o Field(4, at) \o Field(1, IF params[at].output THEN 1 ELSE 0),
                  "info", at)
TypeInfo == stage = "info" /\ YieldPiece(Write(Resolved(params[at])).info, "length", at)
Length == stage = "length" /\ YieldPiece(Write(Resolved(params[at])).length, "data", at)
Data ==
    /\ stage = "data"
    /\ YieldPiece(Write(Resolved(params[at])).data,
                  IF at = Len(params) THEN "sent" ELSE "name", at + 1)

\* The application executes the same request once more.
Again ==
    /\ stage \in {"sent", "failed", "invalid"} /\ runs < MaxRuns
    /\ before' = [stage |-> stage, wire |-> wire]
    /\ stage' = "made" /\ at' = 1 /\ wire' = <<>>
    /\ UNCHANGED <<params, given, runs>>

CallNext == ExecSql \/ Call \/ Name \/ TypeInfo \/ Length \/ Data \/ Again
CallSpec == CallInit /\ [][CallNext]_callVars

-----------------------------------------------------------------------------
(* Properties. *)

\* A request that is executed again writes the same call again, or is refused
\* again, although validation has replaced its values; strings in a code page
\* are excepted, which validation has turned into buffers it then refuses.
ExecutesAlike ==
    /\ runs = 2 /\ stage \in {"sent", "failed", "invalid"}
    /\ \A i \in DOMAIN given :
          given[i].type \in {"VarChar", "Char", "Text"} => given[i].value.kind = "null"
    => before = [stage |-> stage, wire |-> wire]

=============================================================================
