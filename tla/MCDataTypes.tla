---------------------------- MODULE MCDataTypes ----------------------------
(***************************************************************************)
(* Instance of DataTypes for TLC.  A byte has four values, so that an int  *)
(* has 256 and every limit of the integers and of money is met with small  *)
(* numbers, and the longest varchar is 8 bytes.  Every type is given the   *)
(* values around its limits, alone and followed by another parameter.  The *)
(* zone is 5:30 hours east of UTC: its days end at 66600000 ms in UTC.     *)
(***************************************************************************)
EXTENDS ServerReading

MCByte == 4
MCMaxLength == 8

Param(type, value, length, precision, scale) ==
    [type |-> type, value |-> value, output |-> FALSE,
     length |-> length, precision |-> precision, scale |-> scale]
Plain(type, values) == {Param(type, v, Unset, Unset, Unset) : v \in values}

Num(h) == [kind |-> "number", n |-> h]
Str(chars, bytes) == [kind |-> "string", chars |-> chars, bytes |-> bytes]
Buf(bytes) == [kind |-> "buffer", bytes |-> bytes]
Day(day, ms, delta) == [kind |-> "date", day |-> day, ms |-> ms, delta |-> delta]
Guid == [kind |-> "guid", pairs |-> [i \in 1 .. 16 |-> i]]

Numbers == {Null, Str(1, 1)} \cup
    {Num(h) : h \in {-513, -512, -257, -256, -33, -32, -17, -3, -1, 0, 1, 2, 7, 8, 15, 30,
                     31, 32, 254, 255, 256, 511, 512, 513, 1025}}
NumberParams == UNION {Plain(t, Numbers) : t \in
    {"TinyInt", "SmallInt", "Int", "BigInt", "SmallMoney", "Money", "Float", "Real", "Bit"}}
DecimalParams == {Param(t, Num(h), Unset, p, s) :
    t \in {"Decimal", "Numeric"}, h \in {-3, -1, 0, 5, 510, 600},
    p \in {Unset, 0, 9, 10, 19, 20, 28, 29}, s \in {Unset, 0, 2}}

Dates == {Null, Num(1)} \cup {Day(d, ms, delta) :
    d \in {-693595, -1, 0, 40000, 65535},
    ms \in {0, 1, 43200003, 66599499, 66599999, 66600000, 86399500, 86399999},
    delta \in {0, 4000}} \cup {Day(-693596, 5, 0), Day(65536, 0, 0), Day(10, 7, 9999)}
DateParams == UNION {Plain(t, Dates) : t \in {"DateTime", "SmallDateTime", "Date"}}
ScaledParams == {Param(t, d, Unset, Unset, s) :
    t \in {"Time", "DateTime2", "DateTimeOffset"}, d \in Dates, s \in {Unset, 0, 2, 3, 5, 7, 8}}

Texts == {Null, Num(1), Buf(2), Str(0, 0), Str(1, 2), Str(4, 4), Str(5, 8), Str(5, 9), Str(9, 9)}
Bytes == {Null, Str(1, 1), Buf(0), Buf(1), Buf(4), Buf(8), Buf(9)}
TextParams == {Param(t, v, l, Unset, Unset) :
    t \in {"VarChar", "NVarChar", "Char", "NChar"}, v \in Texts, l \in {Unset, 0, 1, 4, 8, 9}}
ByteParams == {Param(t, v, l, Unset, Unset) :
    t \in {"VarBinary", "Binary"}, v \in Bytes, l \in {Unset, 0, 1, 4, 8, 9}}
LongParams == Plain("Text", Texts) \cup Plain("NText", Texts) \cup Plain("Image", Bytes)
GuidParams == Plain("UniqueIdentifier", {Null, Guid, Num(1)})

Col(type, length, precision, scale) == Param(type, Null, length, precision, scale)
Table(columns, rows) == [kind |-> "table", columns |-> columns, rows |-> rows]
Columns == << Col("Int", Unset, Unset, Unset), Col("VarChar", 4, Unset, Unset),
              Col("Decimal", Unset, 12, 1) >>
TableParams == Plain("TVP",
    {Null, Num(1), Table(<<>>, <<>>), Table(Columns, <<>>),
     Table(Columns, << << Num(4), Str(2, 3), Num(7) >>, << Null, Null, Null >> >>),
     Table(Columns, << << Num(4), Num(4), Num(7) >> >>),
     Table(Columns, << << Num(4), Str(2, 2) >>, << Num(4), Str(2, 2), Num(2) >> >>),
     Table(SubSeq(Columns, 1, 1), << << Num(4), Num(4) >> >>),
     Table(<< Col("NVarChar", Unset, Unset, Unset), Col("Time", Unset, Unset, 3) >>,
           << << Str(6, 6), Day(3, 43200003, 0) >> >>)})

\* The declared type of statement and parameters ends a call; an output
\* parameter is written like any other.
Followers == {Param("NVarChar", Str(2, 2), Unset, Unset, Unset),
              [Param("Int", Num(-5), Unset, Unset, Unset) EXCEPT !.output = TRUE],
              Param("VarBinary", Null, 9, Unset, Unset)}
All == UNION {NumberParams, DecimalParams, DateParams, ScaledParams, TextParams, ByteParams,
              LongParams, GuidParams, TableParams}
MCLists == {<<>>} \cup {<< p >> : p \in All}
           \cup {<< p, q >> : p \in All \ (DateParams \cup ScaledParams), q \in Followers}

=============================================================================
