--------------------------- MODULE ServerReading ---------------------------
(***************************************************************************)
(* What the server makes of a call that DataTypes wrote: it knows where a  *)
(* parameter ends only from what the type wrote before it, and the values  *)
(* are read here with the readers of value-parser.ts, which read the same  *)
(* bytes when they come in a result.                                       *)
(***************************************************************************)
EXTENDS DataTypes

\* Reading.  A reading is what is left of the wire and the value, which is
\* Misread when the fields are not where the lengths say they are.
Misread == [kind |-> "misread"]
Refused == [kind |-> "refused"]
Left(fs, n) == SubSeq(fs, n + 1, Len(fs))
Reading(value, rest) == [value |-> value, rest |-> rest]
Lost == Reading(Misread, <<>>)
\* The fields that make up the next n bytes, if a field ends there.
Holding(fs, n) == {k \in 0 .. Len(fs) : Width(SubSeq(fs, 1, k)) = n}

ReadBytes(fs, n, value(_)) ==
    IF Holding(fs, n) = {} THEN Lost
    ELSE LET k == Min(Holding(fs, n)) IN Reading(value(SubSeq(fs, 1, k)), Left(fs, k))
BufferOf(data) == [kind |-> "buffer", bytes |-> Width(data)]
ReadPlp(fs) ==
    IF fs = <<>> \/ Head(fs).w # 8 THEN Lost
    ELSE IF fs[1].v = NullPlp THEN Reading(Null, Left(fs, 1))
    ELSE IF Len(fs) > 1 /\ fs[2].w = 4 /\ fs[2].v = 0
         THEN Reading(BufferOf(<<>>), Left(fs, 2))
    ELSE IF Len(fs) > 3 /\ fs[2].w = 4 /\ fs[3].w = fs[2].v /\ fs[4].w = 4 /\ fs[4].v = 0
         THEN Reading(BufferOf(<< fs[3] >>), Left(fs, 4))
    ELSE Lost

\* readSmallInt to readMoney; a second number is the low word of the first.
NumberRead(data) ==
    [kind |-> "number",
     n |-> 2 * (IF Len(data) = 1 THEN IF data[1].w = 1 THEN data[1].v
                                      ELSE AsSigned(data[1].w, data[1].v)
                ELSE AsSigned(4, data[1].v) * Byte ^ 4 + data[2].v)]
FloatRead(data) == [kind |-> "number", n |-> data[1].v]
BitRead(data) == [kind |-> "boolean", b |-> data[1].v # 0]
DecimalRead(data) ==
    [kind |-> "number", n |-> 2 * (IF data[1].v = 1 THEN data[2].v ELSE -data[2].v)]
DateOf(instant, nanosecondsDelta) ==
    [kind |-> "date", day |-> instant.day, ms |-> instant.ms, delta |-> nanosecondsDelta]
SmallDateTimeRead(data) == DateOf(Meant(data[1].v, data[2].v * 60000), 0)
DateTimeRead(data) ==
    IF data[2].v >= 25920000 THEN Refused
    ELSE DateOf(Meant(data[1].v, (data[2].v * 20 + 3) \div 6), 0)
DateRead(data) ==
    IF data[1].v > 3652058 THEN Refused ELSE DateOf(Meant(data[1].v - 693595, 0), 0)
\* readTime: the units become 100ns, of which 10000 are a millisecond.
TimeRead(scale, data) ==
    LET ticks == data[1].v[2] * Unit(scale)
    IN  [ms |-> data[1].v[1] * 1000 + ticks \div 10000, delta |-> ticks % 10000]
ScaledRead(info, data) ==
    LET time == TimeRead(info.scale, data)
        day == IF info.id = "Time" THEN 25567 ELSE data[2].v - 693595
    IN  IF data[1].v[1] >= 86400 \/ day > 3652058 - 693595 THEN Refused
        ELSE DateOf(IF info.id = "DateTimeOffset" THEN [day |-> day, ms |-> time.ms]
                    ELSE Meant(day, time.ms), time.delta)
GuidRead(data) ==
    LET order == << 4, 3, 2, 1, 6, 5, 8, 7 >> \o [i \in 1 .. 8 |-> i + 8]
    IN  [kind |-> "guid", pairs |-> [i \in 1 .. 16 |-> data[1].v[order[i]]]]
ReadSized(info, data) ==
    CASE info.id = "IntN" \/ info.id = "MoneyN" -> NumberRead(data)
      [] info.id = "FloatN" -> FloatRead(data)
      [] info.id = "BitN" -> BitRead(data)
      [] info.id = "DecimalN" -> DecimalRead(data)
      [] info.id = "DateTimeN" /\ Width(data) = 4 -> SmallDateTimeRead(data)
      [] info.id = "DateTimeN" /\ Width(data) = 8 -> DateTimeRead(data)
      [] info.id = "Date" -> DateRead(data)
      [] info.id = "UniqueIdentifier" -> GuidRead(data)
      [] OTHER -> ScaledRead(info, data)
Starts(fs, w) == fs # <<>> /\ fs[1].w = w
ReadScalar(info, fs) ==
    CASE info.id = "Short" /\ info.max = TooLong -> ReadPlp(fs)
      [] info.id = "Short" /\ info.max # TooLong /\ Starts(fs, 2) ->
            IF fs[1].v = TooLong THEN Reading(Null, Left(fs, 1))
            ELSE IF fs[1].v > info.max \/ info.max > MaxLength THEN Reading(Refused, <<>>)
            ELSE ReadBytes(Left(fs, 1), fs[1].v, BufferOf)
      [] info.id = "Long" /\ Starts(fs, 4) ->
            IF fs[1].v = Byte ^ 4 - 1 THEN Reading(Null, Left(fs, 1))
            ELSE ReadBytes(Left(fs, 1), fs[1].v, BufferOf)
      [] info.id \notin {"Short", "Long"} /\ Starts(fs, 1) ->
            IF fs[1].v = 0 THEN Reading(Null, Left(fs, 1))
            ELSE IF fs[1].v # info.max THEN Lost
            ELSE ReadBytes(Left(fs, 1), fs[1].v, LAMBDA data : ReadSized(info, data))
      [] OTHER -> Lost

\* A table: n columns of three fields, and rows until the end.
RECURSIVE ReadRows(_, _)
RowBefore(values, others) ==
    IF others.value = Misread THEN Lost
    ELSE Reading([others.value EXCEPT !.rows = << values >> \o @], others.rest)
Cells(infos, fs) ==
    FoldLeft(LAMBDA r, info :
                LET cell == ReadScalar(info, r.rest)
                IN  [values |-> Append(r.values, cell.value), rest |-> cell.rest],
             [values |-> <<>>, rest |-> fs], infos)
ReadRow(infos, cells) == RowBefore(cells.values, ReadRows(infos, cells.rest))
ReadRows(infos, fs) ==
    IF fs = <<>> \/ Head(fs).w # 1 \/ Head(fs).v \notin {0, 1} THEN Lost
    ELSE IF Head(fs).v = 0 THEN Reading([kind |-> "table", rows |-> <<>>], Left(fs, 1))
    ELSE ReadRow(infos, Cells(infos, Left(fs, 1)))
ReadTable(fs) ==
    LET n == fs[1].v
        rows == ReadRows([i \in 1 .. n |-> fs[3 * i].v], Left(fs, 3 * n + 2))
    IN  IF n = TooLong THEN Reading(Null, Left(fs, 3))
        ELSE IF \E i \in 1 .. n : Len(fs) < 3 * i \/ fs[3 * i].is # "info" THEN Lost
        ELSE rows

\* The parameters of a call: name, status and TYPE_INFO, then the value.
RECURSIVE ReadParams(_)
AndOthers(one) ==
    << one.value >> \o IF one.value \in {Misread, Refused} THEN <<>> ELSE ReadParams(one.rest)
ReadParams(fs) ==
    IF fs = <<>> THEN <<>>
    ELSE IF Len(fs) < 5 \/ fs[4].is # "info" THEN << Misread >>
    ELSE AndOthers(IF fs[4].v.id = "TVP" THEN ReadTable(Left(fs, 4))
                   ELSE ReadScalar(fs[4].v, Left(fs, 4)))
ServerReads == ReadParams(Left(wire, IF HasHeaders THEN 8 ELSE 3))

-----------------------------------------------------------------------------
(* Properties. *)

\* What a type may lose of a value: a number its fraction (a decimal to the
\* nearest), a DateTime two milliseconds, a time of a scale half its unit.
Ticks(a, b) ==   \* from a to b in 100ns; at least a second counts as one
    LET ms == (b.day - a.day) * MsPerDay + (b.ms - a.ms)
    IN  IF b.day - a.day \in -1 .. 1 /\ ms \in -1000 .. 1000 THEN ms * 10000 + b.delta - a.delta ELSE 10000000
TimeOnly(d) ==
    LET local == Shown(d) IN Meant(25567, local.ms) @@ [delta |-> d.delta]
InUtc(d) == [day |-> d.day, ms |-> d.ms, delta |-> d.delta]
Kept(p, r) ==
    LET v == Validate(p.type, p.value)
        q == Resolved([p EXCEPT !.value = v])
        ticks(d) == LET t == Ticks(d, r) IN IF t < 0 THEN -t ELSE t
    IN  IF v.kind = "null" THEN r = Null ELSE
        CASE p.type \in {"TinyInt", "SmallInt", "Int", "BigInt", "Money", "SmallMoney"} ->
                r.n = 2 * Trunc(v.n)
          [] p.type \in {"Decimal", "Numeric"} -> r.n - v.n \in -1 .. 1
          [] p.type = "Real" -> v.n - r.n \in 0 .. 1
          [] p.type = "Float" -> r.n = v.n
          [] p.type = "Bit" -> r.b = v.b
          [] p.type = "SmallDateTime" ->
                /\ Shown(r).day = Shown(v).day
                /\ Shown(r).ms = Shown(v).ms - (Shown(v).ms % 60000)
          [] p.type = "DateTime" -> (r.day - v.day) * MsPerDay + (r.ms - v.ms) \in -2 .. 2
          [] p.type = "Date" -> Shown(r).day = Shown(v).day /\ Shown(r).ms = 0
          [] p.type = "Time" -> 2 * ticks(TimeOnly(v)) <= Unit(q.scale)
          [] p.type \in {"DateTime2", "DateTimeOffset"} ->
                2 * ticks(InUtc(v)) <= Unit(q.scale)
          [] p.type = "UniqueIdentifier" -> r = v
          [] p.type = "Binary" -> r.bytes = Min({v.bytes, q.length})
          [] p.type \in {"VarChar", "Char", "Text", "VarBinary", "Image"} -> r.bytes = v.bytes
          [] p.type \in {"NVarChar", "NChar", "NText"} -> r.bytes = Ucs2(v)
KeptTable(p, r) ==
    /\ p.value.kind = "null" => r = Null
    /\ p.value.kind # "null" =>
          /\ Len(r.rows) = Len(p.value.rows)
          /\ \A i \in DOMAIN r.rows : \A k \in DOMAIN p.value.columns :
                Kept([p.value.columns[k] EXCEPT !.value = p.value.rows[i][k]], r.rows[i][k])

\* What the code is known to get wrong: a Binary shorter than it is announced, a
\* value longer than it is declared, or than its type can be, a time that its scale rounds to the next
\* day, a date outside the years 1 to 9999, a negative money whose low word is
\* cut off to zero, a row of a table shorter than its columns.
Misfit(p) ==
    LET v == Validate(p.type, p.value)
        q == Resolved([p EXCEPT !.value = v])
        shown == IF p.type = "DateTimeOffset" THEN v ELSE Shown(v)
    IN  v.kind # "null" /\
        \/ p.type = "Binary" /\ Min({v.bytes, MaxLength}) < q.length
        \/ p.type \in {"VarChar", "Char", "VarBinary"} /\ v.bytes > q.length
        \/ p.type \in {"NVarChar", "NChar"} /\ Ucs2(v) > 2 * q.length
        \/ p.type = "Char" /\ q.length > MaxLength
        \/ p.type = "NChar" /\ 2 * q.length > MaxLength
        \/ /\ p.type \in {"Time", "DateTime2", "DateTimeOffset"}
           /\ Timestamp(q.scale, shown.ms, v.delta)[1].v[1] >= 86400
        \/ /\ p.type \in {"Date", "DateTime2", "DateTimeOffset"}
           /\ Days(shown.day) \notin 0 .. 3652058
        \/ p.type = "Money" /\ v.n < 0 /\ v.n % 2 = 1 /\ Trunc(v.n) % Byte ^ 4 = 0
        \/ /\ p.type = "TVP"
           /\ \E i \in DOMAIN v.rows : Len(v.rows[i]) < Len(v.columns)

\* The server finds every parameter of a call where the types' lengths say it
\* is, and reads the value that the application gave, as closely as the type can
\* hold it; the misfits above are all there is to except.
ServerReadsWhatWasGiven ==
    stage = "sent" /\ (\A i \in DOMAIN given : ~Misfit(given[i])) =>
        LET read == ServerReads
        IN  /\ Len(read) = Len(given)
            /\ \A i \in DOMAIN given :
                  /\ read[i] \notin {Misread, Refused}
                  /\ IF given[i].type = "TVP" THEN KeptTable(given[i], read[i])
                     ELSE Kept(given[i], read[i])

=============================================================================
