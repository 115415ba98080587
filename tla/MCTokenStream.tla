------------------------------ MODULE MCTokenStream -----------------------------
(* Messages of a server that between them take every branch of the grammar: each *)
(* kind of token, each kind of column metadata and of value, both widths of      *)
(* TDS, and malformed or unfinished data the parsers refuse.                     *)
EXTENDS TokenStream

Z(n) == [i \in 1 .. n |-> 0]
B(n) == [i \in 1 .. n |-> 7]     \* n bytes of a value
U(n) == <<n, 0>>
L(n) == <<n, 0, 0, 0>>
Plp(n) == L(n) \o Z(4)
PlpNull == [i \in 1 .. 8 |-> 255]
PlpUnknown == [PlpNull EXCEPT ![1] = 254]

Sent(type, body) == [type |-> type, body |-> body, quiet |-> FALSE]
Quiet(body) == [type |-> Type.ENVCHANGE, body |-> body, quiet |-> TRUE]
Col(type, shape) == Z(6) \o <<TypeIds[type]>> \o shape \o <<1>> \o B(2)
OldCol(type, shape) == Z(4) \o <<TypeIds[type]>> \o shape \o <<0>>
Meta(cols) == Sent(Type.COLMETADATA, U(Len(cols)) \o FlattenSeq(cols))
RowSent(values) == Sent(Type.ROW, FlattenSeq(values))
DoneSent == Sent(Type.DONE, Z(12))
Env(type, body) == <<Len(body) + 1, 0, type>> \o body
Encoding(toks) == FlattenSeq([i \in DOMAIN toks |-> <<toks[i].type>> \o toks[i].body])
Made(old, toks, rest) ==
  LET heard == SelectSeq(toks, LAMBDA t : ~t.quiet)
  IN [old |-> old, wire |-> Encoding(toks) \o rest, broken |-> rest # <<>>,
      sent |-> [i \in DOMAIN heard |-> Token(heard[i].type, heard[i].body)]]
Msg(toks) == Made(FALSE, toks, <<>>)
Bad(toks, rest) == Made(FALSE, toks, rest)

Select == Msg(<< Meta(<< Col("IntN", <<4>>), Col("NVarChar", <<8, 0>> \o B(5)) >>),
                 RowSent(<< <<4>>, B(4), U(2), B(2) >>), RowSent(<< <<0>>, <<255, 255>> >>),
                 Sent(Type.NBCROW, <<1>> \o U(2) \o B(2)), Sent(Type.ORDER, U(4) \o B(4)), DoneSent >>)
Long == Msg(<< Meta(<< Col("VarChar", <<255, 255>> \o B(5)), Col("VarBinary", <<255, 255>>) >>),
               RowSent(<< Plp(3), L(2), B(2), L(1), B(1), L(0), PlpUnknown, L(2), B(2), L(0) >>),
               RowSent(<< PlpNull, Plp(0), L(0) >>) >>)
Old == Made(TRUE,
        << Meta(<< OldCol("Text", Z(4) \o B(5) \o U(1) \o B(2)), OldCol("Bit", <<>>), OldCol("Money", <<>>) >>),
           RowSent(<< <<2>>, B(10), L(3), B(3), B(1), B(8) >>), RowSent(<< <<0>>, B(9) >>), Sent(Type.DONE, Z(8)) >>, <<>>)
Rich == Msg(<< Meta(<< Col("Xml", <<1, 0, 0>> \o U(1) \o B(2)), Col("UDT", U(9) \o <<1>> \o B(2) \o Z(4)),
                       Col("NText", Z(4) \o B(5) \o <<2>> \o U(1) \o B(2) \o U(0)) >>),
               RowSent(<< PlpNull, Plp(1), L(1), B(1), L(0), <<1>>, B(9), L(2), B(2) >>) >>)
Numbers == Msg(<< Meta(<< Col("NumericN", B(3)), Col("Date", <<>>), Col("Time", <<3>>), Col("DateTimeOffset", <<7>>),
                          Col("SmallDateTime", <<>>), Col("MoneyN", <<8>>) >>),
                  RowSent(<< <<5>>, B(5), <<3>>, B(3), <<4>>, B(4), <<10>>, B(10), B(4), <<8>>, B(8) >>),
                  RowSent(<< Z(4), B(4), Z(1) >>) >>)
Variants == Msg(<< Meta(<< Col("Variant", Z(4)) >>), RowSent(<< L(6), <<56, 0>>, B(4) >>),
                   RowSent(<< L(11), <<42, 1>>, B(9) >>), RowSent(<< L(9), <<108, 2>>, B(7) >>),
                   RowSent(<< L(11), <<231, 7>>, B(9) >>), RowSent(<< L(5), <<165, 2>>, B(3) >>), RowSent(<< L(0) >>) >>)
Procedure == Msg(<< Sent(Type.RETURNSTATUS, B(4)), Sent(Type.RETURNVALUE, U(1) \o <<1>> \o B(3) \o Z(6) \o <<38, 4, 4>> \o B(4)),
                    Sent(Type.RETURNVALUE, U(2) \o <<0>> \o B(1) \o Z(6) \o <<175>> \o U(9) \o B(5) \o U(1) \o B(1)),
                    Sent(Type.DONEPROC, Z(12)) >>)
Login == Msg(<< Sent(Type.ENVCHANGE, Env(1, <<1>> \o B(2) \o <<0>>)), Quiet(Env(15, B(3))),
                Sent(Type.ENVCHANGE, Env(8, <<2>> \o B(2) \o <<0>>)), Quiet(Env(17, B(1))),
                Sent(Type.ENVCHANGE, Env(20, U(7) \o Z(3) \o U(1) \o B(2) \o U(0))),
                Sent(Type.INFO, B(8) \o U(1) \o B(2) \o <<0, 1>> \o B(2) \o B(4)),
                Sent(Type.LOGINACK, B(7) \o <<1>> \o B(6)),
                Sent(Type.FEATUREEXTACK, <<10>> \o L(1) \o B(1) \o <<2>> \o L(0) \o <<255>>), DoneSent >>)
Federated == Made(TRUE,
              << Sent(Type.FEDAUTHINFO, L(15) \o L(1) \o B(11)), Sent(Type.ERROR, B(8) \o U(1) \o B(2) \o Z(2) \o B(2)),
                 Sent(Type.DONEINPROC, Z(8)) >>, <<>>)
Challenge == Msg(<< Sent(Type.SSPI, U(50) \o B(50)) >>)

MCMessages ==
  {Select, Long, Old, Rich, Numbers, Variants, Procedure, Login, Federated, Challenge,
   Bad(<<DoneSent>>, <<1>>), Bad(<<DoneSent>>, <<Type.SSPI>> \o U(2) \o B(2)), Bad(<<>>, <<Type.FEDAUTHINFO>> \o L(6) \o L(1) \o B(2)),
   Bad(<<>>, <<Type.ENVCHANGE>> \o Env(20, U(5) \o B(5))),
   Bad(<<>>, <<Type.COLMETADATA>> \o U(1) \o Z(6) \o <<55>>),
   Bad(<<Meta(<< Col("IntN", <<4>>) >>)>>, <<Type.ROW, 3>>),
   Bad(<<Meta(<< Col("IntN", <<4>>) >>)>>, <<Type.ROW, 4>> \o B(3)), Bad(<<DoneSent>>, <<Type.DONE>> \o Z(5)),
   Bad(<<Meta(<< Col("Xml", <<0>>) >>)>>, <<Type.ROW>> \o Plp(3) \o L(2) \o B(2) \o L(0)),
   Bad(<<Meta(<< Col("UDT", U(9) \o Z(5)) >>)>>, <<Type.ROW>> \o L(2) \o L(1) \o L(2) \o B(2) \o L(0)),
   Bad(<<Meta(<< Col("NumericN", B(3)) >>)>>, <<Type.ROW, 6>> \o B(6)),
   Bad(<<Meta(<< Col("Variant", Z(4)) >>)>>, <<Type.ROW>> \o L(4) \o <<241, 0>>)}

\* How they read: the states of the parser of a part, and the parts of a message.
RECURSIVE ReadOn(_, _, _)
ReadOn(m, part, reads) ==
  LET r == reads[Len(reads)] IN
  IF GoesOn(m, part, r) THEN ReadOn(m, part, Append(reads, NextRead(m, part, r))) ELSE reads

RECURSIVE Parts(_, _, _, _)
Parts(m, from, meta, heard) ==
  LET open == [from |-> from, to |-> Len(m.wire), meta |-> meta, heard |-> heard, reads |-> <<>>] IN
  IF from = Len(m.wire) THEN <<open>> ELSE
    LET reads == ReadOn(m, open, <<FirstRead(m, open)>>)
        r == reads[Len(reads)]
        part == [open EXCEPT !.reads = reads, !.to = IF r.todo = <<>> THEN r.at ELSE @]
    IN <<part>> \o
       IF r.todo # <<>> THEN <<>>
       ELSE Parts(m, r.at, IF TypeByte(m, part) = Type.COLMETADATA THEN r.columns ELSE meta,
                  IF Swallowed(TokenOf(m, part)) THEN heard ELSE heard + 1)

MCReadings == [m \in MCMessages |-> Parts(m, 0, <<>>, 0)]
=================================================================================
