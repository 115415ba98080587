------------------------------- MODULE WireProofs -------------------------------
(* What is read from the wire and what is written to it.                           *)
(*                                                                                 *)
(* The first part is about TokenStream, for every message and every way its bytes  *)
(* are cut into chunks: the tokens are those the server sent, and a message that   *)
(* ends in the midst of a row is not taken for a complete one.                     *)
(*                                                                                 *)
(* The second part is about DataTypes, for every list of parameters: a request     *)
(* that is executed a second time writes the same call.                            *)
EXTENDS TokenStream, DataTypes, SequenceTheorems, TLAPS

(******************************** the token stream *******************************)

\* The bytes of the message that the parser has read.
Consumed == arrived - Len(buffer) + position

\* The parts of the message, and which of them are tokens or what no parser accepts.
Parts == 1 .. Len(Readings[message])
Part(i) == Readings[message][i]
Filled(i) == i \in Parts /\ (i < Len(Readings[message]) \/ message.broken)

TokenSet == [type : Int, body : Seq(Nat)]

\* The buffer holds the last bytes that have arrived.
BufferInv ==
  /\ message \in Messages
  /\ arrived \in 0 .. Len(Wire)
  /\ buffer \in Seq(Nat) /\ Len(buffer) <= arrived
  /\ buffer = SubSeq(Wire, arrived - Len(buffer) + 1, arrived)
  /\ position \in 0 .. Len(buffer)

\* The tokens yielded are the first of those the server sent.
HeardInv ==
  /\ status \in {"parsing", "ended", "error"}
  /\ tokens \in Seq(TokenSet)
  /\ Len(tokens) <= Len(message.sent)
  /\ \A i \in 1 .. Len(tokens) : tokens[i] = message.sent[i]

\* The parser is before a part of the message, or at one of its reads.
Before(i) == current = None /\ todo = <<>> /\ Consumed = Part(i).from

At(i, k) ==
  /\ Filled(i) /\ k \in 1 .. Len(Part(i).reads)
  /\ current = Token(TypeByte(message, Part(i)), SubSeq(Wire, Part(i).from + 2, Consumed))
  /\ Part(i).reads[k].at = Consumed
  /\ Part(i).reads[k].todo = todo
  /\ Part(i).reads[k].columns = columns

Place(i) ==
  /\ Len(tokens) = Part(i).heard
  /\ colMetadata = Part(i).meta
  /\ Before(i) \/ \E k \in Nat : At(i, k)

\* Until an error it reads the message as it would if all of it were there.
PlaceInv == status # "error" => \E i \in Parts : Place(i)

\* It ended because the data did, with all that has arrived read, outside of rows.
EndedInv ==
  status = "ended" =>
    /\ position = Len(buffer)
    /\ current # None => /\ current.type \notin RowTypes
                         /\ todo # <<>> /\ ~Enough(Head(todo).n)

\* It fails at the end of a message only when the message is broken.
ErrorInv ==
  status = "error" /\ arrived = Len(Wire) =>
    message.broken /\ Len(tokens) = Len(message.sent)

TokenInv == BufferInv /\ HeardInv /\ PlaceInv /\ EndedInv /\ ErrorInv

(*********************************** readings ************************************)

\* What is known of a message and its parts.
LEMMA MessageIs ==
  ASSUME NEW m \in Messages
  PROVE  /\ m.wire \in Seq(Nat) /\ Len(m.wire) \in Nat /\ Len(m.sent) \in Nat /\ m.broken \in BOOLEAN
         /\ Len(Readings[m]) \in Nat \ {0}
<1>1. ReadsAs(m, Readings[m])
  BY MessagesAssumption
<1>2. m.wire \in Seq(Nat) /\ Len(m.sent) \in Nat /\ m.broken \in BOOLEAN
      /\ Len(Readings[m]) \in Nat \ {0}
  BY <1>1 DEF ReadsAs
<1> QED
  BY <1>2

LEMMA PartIs ==
  ASSUME message \in Messages, NEW i \in Parts
  PROVE  /\ Part(i).from \in 0 .. Len(Wire) /\ Part(i).to \in 0 .. Len(Wire)
         /\ Part(i).heard \in 0 .. Len(message.sent)
         /\ i < Len(Readings[message]) => /\ Follows(message, Part(i), Part(i + 1)) /\ i + 1 \in Parts
         /\ i = Len(Readings[message]) => /\ Part(i).to = Len(Wire) /\ Part(i).heard = Len(message.sent)
                                          /\ message.broken <=> Part(i).from < Part(i).to
                                          /\ message.broken => Refused(message, Part(i))
<1> DEFINE m == message
           parts == Readings[m]
<1>1. ReadsAs(m, parts)
  BY MessagesAssumption
<1>2. Len(parts) \in Nat \ {0} /\ i \in 1 .. Len(parts)
  BY MessageIs DEF Parts
<1>3. parts[i].from \in 0 .. Len(m.wire) /\ parts[i].to \in 0 .. Len(m.wire) /\ parts[i].heard \in 0 .. Len(m.sent)
  BY <1>1, <1>2 DEF ReadsAs
<1>4. ASSUME i < Len(parts)
      PROVE  Follows(m, parts[i], parts[i + 1]) /\ i + 1 \in 1 .. Len(parts)
  <2>1. i \in 1 .. Len(parts) - 1 /\ i + 1 \in 1 .. Len(parts)
    BY <1>2, <1>4
  <2> QED
    BY <1>1, <2>1 DEF ReadsAs
<1>5. ASSUME i = Len(parts)
      PROVE  /\ parts[i].to = Len(m.wire) /\ parts[i].heard = Len(m.sent)
             /\ m.broken <=> parts[i].from < parts[i].to
             /\ m.broken => Refused(m, parts[i])
  BY <1>1, <1>5 DEF ReadsAs
<1> QED
  BY <1>3, <1>4, <1>5 DEF Part, Parts, Wire

\* The first part is at the beginning, and no two overlap.
LEMMA PartsAre ==
  ASSUME message \in Messages
  PROVE  /\ 1 \in Parts /\ Part(1).from = 0 /\ Part(1).meta = <<>> /\ Part(1).heard = 0
         /\ \A i, j \in Parts : i < j => Part(i).to <= Part(j).from
<1>1. ReadsAs(message, Readings[message])
  BY MessagesAssumption
<1> QED
  BY <1>1 DEF ReadsAs, Part, Parts

\* A part with bytes is read in order.
LEMMA FilledIs ==
  ASSUME message \in Messages, NEW i, Filled(i)
  PROVE  /\ InOrder(message, Part(i))
         /\ i \in Parts /\ Part(i).from \in Nat /\ Part(i).to \in Nat
         /\ Part(i).from < Part(i).to /\ Part(i).to <= Len(Wire)
<1>1. i \in Parts /\ Part(i).from \in Nat /\ Part(i).to \in Nat /\ Part(i).to <= Len(Wire)
  <2>1. i \in Parts
    BY DEF Filled
  <2>2. Part(i).from \in 0 .. Len(Wire) /\ Part(i).to \in 0 .. Len(Wire)
    BY <2>1, PartIs
  <2>3. Len(Wire) \in Nat
    BY MessageIs DEF Wire
  <2> QED
    BY <2>1, <2>2, <2>3
<1>2. InOrder(message, Part(i))
  <2>1. CASE i < Len(Readings[message])
    BY <1>1, <2>1, PartIs DEF Follows
  <2>2. CASE i = Len(Readings[message])
    <3>1. message.broken
      BY <2>2, MessageIs DEF Filled
    <3> QED
      BY <1>1, <2>2, <3>1, PartIs DEF Refused
  <2> QED
    BY <1>1, <2>1, <2>2, MessageIs DEF Parts
<1>3. Part(i).from < Part(i).to
  BY <1>2 DEF InOrder
<1> QED
  BY <1>1, <1>2, <1>3

\* Only the last part may have no bytes.
LEMMA FilledOrLast ==
  ASSUME message \in Messages, NEW i \in Parts, ~Filled(i)
  PROVE  i = Len(Readings[message]) /\ ~message.broken /\ Part(i).from = Len(Wire)
<1>1. i = Len(Readings[message]) /\ ~message.broken
  BY MessageIs DEF Filled, Parts
<1>2. Part(i).to = Len(Wire) /\ ~(Part(i).from < Part(i).to) /\ Part(i).from \in 0 .. Len(Wire)
  BY <1>1, PartIs
<1>3. Len(Wire) \in Nat
  BY MessageIs DEF Wire
<1> QED
  BY <1>1, <1>2, <1>3

(*********************************** the buffer **********************************)

\* A piece of the bytes s, and a piece of a piece.
LEMMA PieceIs ==
  ASSUME NEW s \in Seq(Nat), NEW i \in 0 .. Len(s), NEW j \in i .. Len(s)
  PROVE  /\ SubSeq(s, i + 1, j) \in Seq(Nat) /\ Len(SubSeq(s, i + 1, j)) = j - i
         /\ \A k \in 1 .. j - i : SubSeq(s, i + 1, j)[k] = s[i + k]
<1> DEFINE u == SubSeq(s, i + 1, j)
<1>0. i \in Int /\ j \in Int /\ i <= j /\ j <= Len(s) /\ Len(s) \in Nat
  OBVIOUS
<1>1. \A k \in i + 1 .. j : s[k] \in Nat
  BY <1>0, ElementOfSeq
<1>2. /\ u \in Seq(Nat) /\ Len(u) = IF i + 1 <= j THEN j - (i + 1) + 1 ELSE 0
      /\ \A k \in 1 .. j - (i + 1) + 1 : u[k] = s[(i + 1) + k - 1]
  BY <1>0, <1>1, SubSeqProperties
<1> HIDE DEF u
<1>3. Len(u) = j - i
  BY <1>0, <1>2
<1>4. ASSUME NEW k \in 1 .. j - i
      PROVE  u[k] = s[i + k]
  <2>1. /\ i + 1 \in Int /\ k \in Int /\ (i + 1) + k - 1 = i + k
        /\ k \in 1 .. j - (i + 1) + 1
    BY <1>0
  <2> QED
    BY <1>2, <2>1
<1> QED
  BY <1>2, <1>3, <1>4 DEF u

LEMMA PieceOfPiece ==
  ASSUME NEW s \in Seq(Nat), NEW a \in 0 .. Len(s), NEW b \in a .. Len(s),
         NEW i \in 0 .. b - a, NEW j \in i .. b - a
  PROVE  SubSeq(SubSeq(s, a + 1, b), i + 1, j) = SubSeq(s, (a + i) + 1, a + j)
<1> DEFINE p == SubSeq(s, a + 1, b)
           u == SubSeq(p, i + 1, j)
           v == SubSeq(s, (a + i) + 1, a + j)
<1>0. Len(s) \in Nat /\ a \in Nat /\ b \in Nat /\ i \in Nat /\ j \in Nat /\ i <= j /\ a + j <= b /\ b <= Len(s)
  OBVIOUS
<1>1. p \in Seq(Nat) /\ Len(p) = b - a /\ \A k \in 1 .. b - a : p[k] = s[a + k]
  BY PieceIs
<1> HIDE DEF p
<1>2. u \in Seq(Nat) /\ Len(u) = j - i /\ \A k \in 1 .. j - i : u[k] = p[i + k]
  <2>1. p \in Seq(Nat) /\ i \in 0 .. Len(p) /\ j \in i .. Len(p)
    BY <1>1
  <2> QED
    BY <2>1, PieceIs
<1>3. v \in Seq(Nat) /\ Len(v) = j - i /\ \A k \in 1 .. j - i : v[k] = s[(a + i) + k]
  <2> DEFINE x == a + i
             y == a + j
  <2>1. x \in 0 .. Len(s) /\ y \in x .. Len(s) /\ y - x = j - i
    BY <1>0
  <2> HIDE DEF x, y
  <2>2. /\ SubSeq(s, x + 1, y) \in Seq(Nat) /\ Len(SubSeq(s, x + 1, y)) = y - x
        /\ \A k \in 1 .. y - x : SubSeq(s, x + 1, y)[k] = s[x + k]
    BY <2>1, PieceIs
  <2> QED
    BY <2>1, <2>2 DEF x, y
<1> HIDE DEF u, v
<1>4. ASSUME NEW k \in 1 .. j - i
      PROVE  u[k] = v[k]
  <2>1. i + k \in 1 .. b - a /\ a + (i + k) = (a + i) + k
    BY <1>0
  <2> QED
    BY <1>1, <1>2, <1>3, <2>1
<1>5. u = v
  BY <1>2, <1>3, <1>4, SeqEqual
<1> QED
  BY <1>5 DEF u, v, p

LEMMA PiecesJoin ==
  ASSUME NEW s \in Seq(Nat), NEW i \in 0 .. Len(s), NEW j \in i .. Len(s), NEW k \in j .. Len(s)
  PROVE  SubSeq(s, i + 1, j) \o SubSeq(s, j + 1, k) = SubSeq(s, i + 1, k)
<1> DEFINE m == i + 1
<1>1. m \in 1 .. Len(s) + 1 /\ j \in m - 1 .. Len(s) /\ k \in j .. Len(s)
  OBVIOUS
<1> HIDE DEF m
<1>2. SubSeq(s, m, j) \o SubSeq(s, j + 1, k) = SubSeq(s, m, k)
  BY <1>1, ConcatAdjacentSubSeq
<1> QED
  BY <1>2 DEF m

LEMMA ConsumedIs ==
  ASSUME BufferInv
  PROVE  /\ Wire \in Seq(Nat) /\ Len(Wire) \in Nat /\ arrived \in Nat /\ arrived <= Len(Wire)
         /\ Len(buffer) \in Nat /\ Len(buffer) <= arrived /\ position \in Nat /\ position <= Len(buffer)
         /\ Consumed \in 0 .. arrived
         /\ Consumed = arrived <=> position = Len(buffer)
         /\ \A n \in Nat : Enough(n) <=> Consumed + n <= arrived
<1>1. Wire \in Seq(Nat) /\ Len(Wire) \in Nat
  BY MessageIs DEF BufferInv, Wire
<1>2. Len(buffer) \in Nat /\ arrived \in Nat /\ arrived <= Len(Wire) /\ Len(buffer) <= arrived /\ position \in Nat
      /\ position <= Len(buffer)
  BY <1>1 DEF BufferInv
<1> QED
  BY <1>1, <1>2, SMTT(30) DEF Consumed, Enough

\* What is in the buffer is the message's.
LEMMA BufferIs ==
  ASSUME BufferInv, NEW n \in Nat, Enough(n)
  PROVE  SubSeq(buffer, position + 1, position + n) = SubSeq(Wire, Consumed + 1, Consumed + n)
<1> DEFINE l == Len(buffer)
           o == arrived - l
           q == position + n
<1>1. Wire \in Seq(Nat) /\ Len(Wire) \in Nat /\ l \in Nat /\ arrived \in Nat /\ arrived <= Len(Wire) /\ l <= arrived
      /\ position \in Nat /\ position + n <= l
  BY ConsumedIs DEF Enough
<1>2. buffer = SubSeq(Wire, o + 1, arrived)
  BY DEF BufferInv
<1>3. o \in 0 .. Len(Wire) /\ arrived \in o .. Len(Wire) /\ position \in 0 .. arrived - o /\ q \in position .. arrived - o
      /\ o + position = Consumed /\ o + q = Consumed + n
  BY <1>1 DEF Consumed
<1> HIDE DEF o, q
<1>4. SubSeq(SubSeq(Wire, o + 1, arrived), position + 1, q) = SubSeq(Wire, (o + position) + 1, o + q)
  BY <1>1, <1>3, PieceOfPiece
<1>5. SubSeq(buffer, position + 1, q) = SubSeq(Wire, Consumed + 1, Consumed + n)
  BY <1>2, <1>3, <1>4
<1> QED
  BY <1>5 DEF q

LEMMA NextByte ==
  ASSUME BufferInv, Enough(1)
  PROVE  buffer[position + 1] = Wire[Consumed + 1]
<1> DEFINE l == Len(buffer)
           o == arrived - l
<1>1. Wire \in Seq(Nat) /\ Len(Wire) \in Nat /\ l \in Nat /\ arrived \in Nat /\ arrived <= Len(Wire) /\ l <= arrived
      /\ position \in Nat /\ position + 1 <= l
  BY ConsumedIs DEF Enough
<1>2. buffer = SubSeq(Wire, o + 1, arrived)
  BY DEF BufferInv
<1>3. o \in 0 .. Len(Wire) /\ arrived \in o .. Len(Wire) /\ position + 1 \in 1 .. arrived - o
      /\ o + (position + 1) = Consumed + 1
  BY <1>1 DEF Consumed
<1> HIDE DEF o
<1>4. \A k \in 1 .. arrived - o : SubSeq(Wire, o + 1, arrived)[k] = Wire[o + k]
  BY <1>1, <1>3, PieceIs
<1> QED
  BY <1>2, <1>3, <1>4

(********************************** the states ***********************************)

\* A read of a part: the next one follows it, or the part ends with it.
LEMMA ReadIs ==
  ASSUME message \in Messages, NEW i, Filled(i), NEW k \in 1 .. Len(Part(i).reads)
  PROVE  LET r == Part(i).reads[k] IN
         /\ r.at \in Nat /\ Part(i).from < r.at /\ r.at <= Part(i).to
         /\ r.todo # <<>> => Head(r.todo).n \in Nat
         /\ k < Len(Part(i).reads) =>
              /\ GoesOn(message, Part(i), r) /\ k + 1 \in 1 .. Len(Part(i).reads)
              /\ Part(i).reads[k + 1] = NextRead(message, Part(i), r)
         /\ r.todo # <<>> /\ (k < Len(Part(i).reads) => r.at + Head(r.todo).n > Len(Wire)) =>
              /\ i = Len(Readings[message]) /\ message.broken
              /\ Part(i).to = Len(Wire) /\ Part(i).heard = Len(message.sent)
              /\ IF r.at + Head(r.todo).n <= Len(Wire) THEN Head(r.todo).to = "throw"
                 ELSE TypeByte(message, Part(i)) \in RowTypes \/ r.at < Len(Wire)
         /\ r.todo = <<>> =>
              /\ i < Len(Readings[message]) /\ r.at = Part(i).to
              /\ r = Part(i).reads[Len(Part(i).reads)]
<1> DEFINE p == Part(i)
           r == p.reads[k]
           l == Len(p.reads)
           last == p.reads[l]
<1>1. /\ InOrder(message, p) /\ i \in Parts /\ p.from \in Nat /\ p.to \in Nat /\ p.from < p.to
      /\ p.to <= Len(Wire) /\ Len(Wire) \in Nat
  BY FilledIs, MessageIs DEF Wire
<1>2. l \in Nat \ {0} /\ r.at \in p.from + 1 .. p.to
  BY <1>1 DEF InOrder
<1>3. ASSUME k < l
      PROVE  GoesOn(message, p, r) /\ k + 1 \in 1 .. l /\ p.reads[k + 1] = NextRead(message, p, r)
  <2>1. k \in 1 .. l - 1 /\ k + 1 \in 1 .. l
    BY <1>2, <1>3
  <2> QED
    BY <1>1, <2>1 DEF InOrder
<1>4. Len(Readings[message]) \in Nat \ {0} /\ (i < Len(Readings[message]) \/ i = Len(Readings[message]))
  BY <1>1, MessageIs DEF Parts
<1>5. CASE i < Len(Readings[message])
  <2>1. last.todo = <<>> /\ last.at = p.to
    BY <1>1, <1>5, PartIs DEF Follows
  <2>2. k < l \/ k = l
    BY <1>2
  <2>3. ASSUME k < l
        PROVE  r.todo # <<>> /\ Head(r.todo).n \in Nat /\ ~(r.at + Head(r.todo).n > Len(Wire))
    <3>1. r.todo # <<>> /\ Head(r.todo).n \in Nat /\ r.at + Head(r.todo).n <= p.to
      BY <1>3, <2>3 DEF GoesOn
    <3> QED
      BY <1>1, <1>2, <3>1, SMTT(30)
  <2> QED
    BY <1>1, <1>2, <1>3, <1>5, <2>1, <2>2, <2>3, SMTT(30)
<1>6. CASE i = Len(Readings[message])
  <2>1. message.broken
    BY <1>4, <1>6 DEF Filled
  <2>2. p.to = Len(Wire) /\ p.heard = Len(message.sent) /\ Refused(message, p)
    BY <1>1, <1>6, <2>1, PartIs
  <2>3. /\ last.todo # <<>> /\ Head(last.todo).n \in Nat
        /\ IF last.at + Head(last.todo).n <= p.to THEN Head(last.todo).to = "throw"
           ELSE TypeByte(message, p) \in RowTypes \/ last.at < p.to
    BY <2>2 DEF Refused
  <2>4. k < l \/ k = l
    BY <1>2
  <2>5. ASSUME k < l
        PROVE  r.todo # <<>> /\ Head(r.todo).n \in Nat /\ ~(r.at + Head(r.todo).n > Len(Wire))
    <3>1. r.todo # <<>> /\ Head(r.todo).n \in Nat /\ r.at + Head(r.todo).n <= p.to
      BY <1>3, <2>5 DEF GoesOn
    <3> QED
      BY <1>1, <1>2, <3>1
  <2> QED
    BY <1>1, <1>2, <1>3, <1>6, <2>1, <2>2, <2>3, <2>4, <2>5, SMTT(30)
<1> QED
  BY <1>4, <1>5, <1>6

\* A token is being parsed exactly when the parser is at a read of a part.
LEMMA PlaceIs ==
  ASSUME message \in Messages, NEW i \in Parts, Place(i)
  PROVE  /\ current = None => Consumed = Part(i).from /\ todo = <<>>
         /\ current # None => /\ Filled(i) /\ current.type = TypeByte(message, Part(i))
                              /\ \E k \in 1 .. Len(Part(i).reads) : At(i, k)
<1>1. ASSUME NEW k, At(i, k)
      PROVE  current # None /\ current.type = TypeByte(message, Part(i)) /\ Filled(i) /\ k \in 1 .. Len(Part(i).reads)
  <2>1. Filled(i) /\ k \in 1 .. Len(Part(i).reads) /\ current.type = TypeByte(message, Part(i))
    BY <1>1 DEF At, Token
  <2>2. /\ Part(i).from \in Nat /\ Part(i).to \in Nat /\ Part(i).from < Part(i).to /\ Part(i).to <= Len(Wire)
        /\ Wire \in Seq(Nat) /\ Len(Wire) \in Nat
    BY <2>1, FilledIs, MessageIs DEF Wire
  <2>3. Part(i).from + 1 \in 1 .. Len(Wire)
    BY <2>2
  <2>4. TypeByte(message, Part(i)) \in Nat
    BY <2>2, <2>3, ElementOfSeq DEF TypeByte, Wire
  <2>5. current.type # -1
    BY <2>1, <2>4
  <2> QED
    BY <2>1, <2>5 DEF None, Token
<1> QED
  BY <1>1 DEF Place, Before

LEMMA TokenInit == Init => TokenInv
<1> SUFFICES ASSUME Init PROVE TokenInv
  OBVIOUS
<1> USE DEF Init
<1>1. Wire \in Seq(Nat) /\ Len(Wire) \in Nat /\ Len(message.sent) \in Nat
  BY MessageIs DEF Wire
<1>2. BufferInv
  <2>1. Len(buffer) = 0 /\ buffer \in Seq(Nat)
    OBVIOUS
  <2>2. SubSeq(Wire, 1, 0) = <<>>
    BY SubSeqEmpty
  <2> QED
    BY <1>1, <2>1, <2>2 DEF BufferInv
<1>3. HeardInv
  BY <1>1 DEF HeardInv
<1>4. PlaceInv
  <2>1. Consumed = 0
    <3>1. Len(buffer) = 0 /\ arrived = 0 /\ position = 0
      OBVIOUS
    <3> QED
      BY ONLY <3>1 DEF Consumed
  <2>2. Place(1) /\ 1 \in Parts
    BY <2>1, PartsAre DEF Place, Before
  <2> QED
    BY <2>2 DEF PlaceInv
<1> QED
  BY <1>2, <1>3, <1>4 DEF TokenInv, EndedInv, ErrorInv

(*********************************** the steps ***********************************)

LEMMA TokenStutters ==
  ASSUME TokenInv, UNCHANGED vars
  PROVE  TokenInv'
BY DEF vars, TokenInv, BufferInv, HeardInv, PlaceInv, EndedInv, ErrorInv, Place, Before, At, Filled, Parts, Part,
       Consumed, Enough, Wire

\* A chunk goes behind what is left of the buffer, and no byte is lost.
LEMMA TokenWaitForChunk ==
  ASSUME TokenInv, NEW size \in ChunkSizes, WaitForChunk(size)
  PROVE  TokenInv'
<1> DEFINE upTo == IF arrived + size < Len(Wire) THEN arrived + size ELSE Len(Wire)
           l == Len(buffer)
           o == arrived - l
<1>1. /\ Wire \in Seq(Nat) /\ Len(Wire) \in Nat /\ arrived \in Nat /\ arrived <= Len(Wire) /\ l \in Nat /\ l <= arrived
      /\ position \in Nat /\ position <= l /\ message \in Messages
  BY ConsumedIs DEF TokenInv, BufferInv
<1>2. /\ arrived < Len(Wire) /\ position' = 0 /\ arrived' = upTo
      /\ buffer' = Refill(SubSeq(Wire, arrived + 1, upTo))
      /\ UNCHANGED <<message, current, todo, columns, colMetadata, tokens, status>>
      /\ status = "parsing"
  BY DEF WaitForChunk, Waiting
<1>3. upTo \in arrived .. Len(Wire) /\ upTo \in Nat
  <2>1. size \in Nat
    BY MessagesAssumption
  <2> QED
    BY <1>1, <2>1
<1>4. Consumed = o + position /\ Consumed \in 0 .. arrived
  BY <1>1 DEF Consumed
<1> HIDE DEF upTo
<1>5. buffer' = SubSeq(Wire, Consumed + 1, upTo)
  <2>1. CASE position = l
    <3>1. Consumed = arrived
      BY <1>1, <1>4, <2>1
    <3> QED
      BY <1>2, <2>1, <3>1 DEF Refill
  <2>2. CASE position # l
    <3>1. buffer = SubSeq(Wire, o + 1, arrived)
      BY DEF TokenInv, BufferInv
    <3>2. o \in 0 .. Len(Wire) /\ arrived \in o .. Len(Wire) /\ position \in 0 .. arrived - o /\ l \in position .. arrived - o
          /\ o + l = arrived
      BY <1>1
    <3> HIDE DEF o, l
    <3>3. SubSeq(SubSeq(Wire, o + 1, arrived), position + 1, l) = SubSeq(Wire, (o + position) + 1, o + l)
      BY <1>1, <3>2, PieceOfPiece
    <3>4. SubSeq(buffer, position + 1, l) = SubSeq(Wire, Consumed + 1, arrived)
      BY <1>4, <3>1, <3>2, <3>3
    <3>5. Consumed \in 0 .. Len(Wire) /\ arrived \in Consumed .. Len(Wire) /\ upTo \in arrived .. Len(Wire)
      BY <1>1, <1>3, <1>4
    <3>6. SubSeq(Wire, Consumed + 1, arrived) \o SubSeq(Wire, arrived + 1, upTo) = SubSeq(Wire, Consumed + 1, upTo)
      BY <1>1, <3>5, PiecesJoin
    <3> QED
      BY <1>2, <2>2, <3>4, <3>6 DEF Refill, l
  <2> QED
    BY <2>1, <2>2
<1>6. buffer' \in Seq(Nat) /\ Len(buffer') = upTo - Consumed
  <2>1. Consumed \in 0 .. Len(Wire) /\ upTo \in Consumed .. Len(Wire)
    BY <1>1, <1>3, <1>4
  <2> QED
    BY <1>1, <1>5, <2>1, PieceIs
<1>7. Consumed' = Consumed
  BY <1>1, <1>2, <1>3, <1>4, <1>6 DEF Consumed
<1>8. BufferInv'
  <2>1. Consumed = upTo - Len(buffer') /\ Len(buffer') \in Nat /\ Len(buffer') <= upTo
    BY <1>1, <1>3, <1>4, <1>6
  <2>2. Wire' = Wire
    BY <1>2 DEF Wire
  <2>3. arrived' \in 0 .. Len(Wire') /\ arrived' - Len(buffer') = Consumed
    <3>1. upTo \in 0 .. Len(Wire) /\ upTo - Len(buffer') = Consumed
      BY <1>1, <1>3, <2>1
    <3> QED
      BY <1>2, <2>2, <3>1
  <2>4. buffer' = SubSeq(Wire', arrived' - Len(buffer') + 1, arrived')
    BY <1>2, <1>5, <2>2, <2>3
  <2>5. Len(buffer') <= arrived' /\ position' \in 0 .. Len(buffer') /\ message' \in Messages
    BY <1>1, <1>2, <2>1
  <2> QED
    BY <1>6, <2>3, <2>4, <2>5 DEF BufferInv
<1>9. HeardInv'
  BY <1>2 DEF TokenInv, HeardInv
<1>10. PlaceInv'
  BY <1>2, <1>7 DEF TokenInv, PlaceInv, Place, Before, At, Filled, Parts, Part, Wire
<1>11. EndedInv' /\ ErrorInv'
  BY <1>2 DEF EndedInv, ErrorInv
<1> QED
  BY <1>8, <1>9, <1>10, <1>11 DEF TokenInv

LEMMA TokenEndOfData ==
  ASSUME TokenInv, EndOfData
  PROVE  TokenInv'
<1>1. /\ Waiting /\ status = "parsing"
      /\ UNCHANGED <<message, arrived, buffer, position, current, todo, columns, colMetadata, tokens>>
      /\ status' = IF ~Awaits(current.type) /\ position = Len(buffer) THEN "ended" ELSE "error"
  BY DEF EndOfData, Waiting
<1>2. BufferInv' /\ HeardInv'
  BY <1>1 DEF TokenInv, BufferInv, HeardInv, Wire
<1>3. PICK i \in Parts : Place(i)
  BY <1>1 DEF TokenInv, PlaceInv
<1>4. PlaceInv'
  <2>1. i \in Parts' /\ Place(i)'
    BY <1>1, <1>3 DEF Place, Before, At, Filled, Parts, Part, Wire, Consumed
  <2> QED
    BY <2>1 DEF PlaceInv
<1>5. EndedInv'
  <2> SUFFICES ASSUME status' = "ended"
               PROVE  /\ position = Len(buffer)
                      /\ current # None => current.type \notin RowTypes /\ todo # <<>> /\ ~Enough(Head(todo).n)
    BY <1>1 DEF EndedInv, Enough
  <2>1. ~Awaits(current.type) /\ position = Len(buffer)
    BY <1>1
  <2> QED
    BY <1>1, <2>1 DEF Waiting, Awaits, RowTypes
<1>6. ErrorInv'
  <2> SUFFICES ASSUME status' = "error", arrived = Len(Wire)
               PROVE  message.broken /\ Len(tokens) = Len(message.sent)
    BY <1>1 DEF ErrorInv, Wire
  <2>1. BufferInv /\ message \in Messages
    BY DEF TokenInv, BufferInv
  <2>2. /\ Consumed \in 0 .. arrived /\ arrived \in Nat /\ (Consumed = arrived <=> position = Len(buffer))
        /\ \A n \in Nat : Enough(n) <=> Consumed + n <= arrived
    BY <2>1, ConsumedIs
  <2>3. current # None
    <3> SUFFICES ASSUME current = None PROVE FALSE
      OBVIOUS
    <3>1. Consumed = arrived
      BY <1>1, <2>2 DEF Waiting
    <3>2. ~Awaits(current.type)
      BY DEF Awaits, None, Token, Type
    <3> QED
      BY <1>1, <2>2, <3>1, <3>2
  <2>4. PICK k \in 1 .. Len(Part(i).reads) : At(i, k)
    BY <1>3, <2>1, <2>3, PlaceIs
  <2>5. Filled(i) /\ Part(i).reads[k].at = Consumed /\ Part(i).reads[k].todo = todo
    BY <2>4 DEF At
  <2>6. todo # <<>> /\ ~Enough(Head(todo).n)
    BY <1>1, <2>3 DEF Waiting
  <2>7. Head(todo).n \in Nat
    BY <2>1, <2>5, <2>6, ReadIs
  <2>8. Consumed + Head(todo).n > Len(Wire)
    <3> DEFINE n == Head(todo).n
    <3>1. n \in Nat /\ ~Enough(n)
      BY <2>6, <2>7
    <3> HIDE DEF n
    <3>2. Consumed + n > arrived
      BY <2>2, <3>1
    <3> QED
      BY <3>2 DEF n
  <2>9. message.broken /\ Part(i).heard = Len(message.sent)
    BY <2>1, <2>5, <2>6, <2>8, ReadIs
  <2> QED
    BY <1>3, <2>9 DEF Place
<1> QED
  BY <1>2, <1>4, <1>5, <1>6 DEF TokenInv

LEMMA TokenStartToken ==
  ASSUME TokenInv, StartToken
  PROVE  TokenInv'
<1>1. /\ status = "parsing" /\ current = None /\ Enough(1)
      /\ current' = Token(buffer[position + 1], <<>>)
      /\ todo' = TokenSteps(buffer[position + 1], message.old, colMetadata)
      /\ position' = position + 1 /\ columns' = <<>>
      /\ UNCHANGED <<message, arrived, buffer, colMetadata, tokens, status>>
  BY DEF StartToken
<1>2. BufferInv /\ HeardInv /\ message \in Messages
  BY DEF TokenInv, BufferInv
<1>3. /\ Consumed \in Nat /\ arrived \in Nat /\ arrived <= Len(Wire) /\ Len(Wire) \in Nat /\ Wire \in Seq(Nat)
      /\ Consumed + 1 <= arrived /\ position \in Nat /\ Len(buffer) \in Nat /\ Len(buffer) <= arrived
  BY <1>1, <1>2, ConsumedIs
<1>4. PICK i \in Parts : Place(i)
  BY <1>1 DEF TokenInv, PlaceInv
<1>5. Consumed = Part(i).from /\ colMetadata = Part(i).meta
  BY <1>1, <1>2, <1>4, PlaceIs DEF Place
<1>6. Filled(i)
  BY <1>2, <1>3, <1>5, FilledOrLast
<1>7. /\ Part(i).reads[1] = FirstRead(message, Part(i)) /\ 1 \in 1 .. Len(Part(i).reads)
  BY <1>2, <1>6, FilledIs DEF InOrder
<1>8. buffer[position + 1] = TypeByte(message, Part(i))
  BY <1>1, <1>2, <1>5, NextByte DEF TypeByte, Wire
<1>9. Consumed' = Consumed + 1
  BY <1>1, <1>3 DEF Consumed
<1>10. BufferInv'
  BY <1>1, <1>2, <1>3, SMTT(30) DEF BufferInv, Wire, Enough
<1>11. HeardInv'
  BY <1>1, <1>2 DEF HeardInv
<1>12. At(i, 1)'
  <2>1. SubSeq(Wire, Part(i).from + 2, Consumed + 1) = <<>>
    BY <1>3, <1>5, SubSeqEmpty, SMTT(30)
  <2>2. Part(i).reads[1].at = Consumed + 1 /\ Part(i).reads[1].todo = todo' /\ Part(i).reads[1].columns = columns'
    BY <1>1, <1>5, <1>7, <1>8 DEF FirstRead
  <2>3. current' = Token(TypeByte(message, Part(i)), SubSeq(Wire, Part(i).from + 2, Consumed + 1))
    BY <1>1, <1>8, <2>1
  <2> QED
    BY <1>1, <1>6, <1>7, <1>9, <2>2, <2>3 DEF At, Filled, Parts, Part, Wire
<1>13. PlaceInv'
  <2>1. i \in Parts' /\ Place(i)'
    BY <1>1, <1>4, <1>12 DEF Place, Parts, Part
  <2> QED
    BY <2>1 DEF PlaceInv
<1>14. EndedInv' /\ ErrorInv'
  BY <1>1 DEF EndedInv, ErrorInv
<1> QED
  BY <1>10, <1>11, <1>13, <1>14 DEF TokenInv


\* The next read of a token, or the exception that ends it.
LEMMA TokenRead ==
  ASSUME TokenInv, Read
  PROVE  TokenInv'
<1> DEFINE s == Head(todo)
           bytes == SubSeq(buffer, position + 1, position + s.n)
<1>1. /\ status = "parsing" /\ todo # <<>> /\ Enough(s.n)
      /\ position' = position + s.n
      /\ current' = [current EXCEPT !.body = @ \o bytes]
      /\ todo' = Then(s, bytes, message.old, colMetadata) \o Tail(todo)
      /\ columns' = IF s.to = "column" THEN Append(columns, s.col) ELSE columns
      /\ status' = IF s.to = "throw" THEN "error" ELSE status
      /\ UNCHANGED <<message, arrived, buffer, colMetadata, tokens>>
  BY DEF Read
<1>2. BufferInv /\ HeardInv /\ message \in Messages
  BY DEF TokenInv, BufferInv
<1>3. /\ Consumed \in Nat /\ arrived \in Nat /\ arrived <= Len(Wire) /\ Len(Wire) \in Nat /\ Wire \in Seq(Nat)
      /\ position \in Nat /\ Len(buffer) \in Nat /\ Len(buffer) <= arrived
      /\ \A n \in Nat : Enough(n) <=> Consumed + n <= arrived
  BY <1>2, ConsumedIs
<1>4. PICK i \in Parts : Place(i)
  BY <1>1 DEF TokenInv, PlaceInv
<1>5. current # None
  BY <1>1, <1>2, <1>4, PlaceIs
<1>6. PICK k \in 1 .. Len(Part(i).reads) : At(i, k)
  BY <1>2, <1>4, <1>5, PlaceIs
<1> DEFINE p == Part(i)
           r == p.reads[k]
<1>7. /\ Filled(i) /\ current = Token(TypeByte(message, p), SubSeq(Wire, p.from + 2, Consumed))
      /\ r.at = Consumed /\ r.todo = todo /\ r.columns = columns
      /\ Len(tokens) = p.heard /\ colMetadata = p.meta
  BY <1>4, <1>6, SMTT(30) DEF At, Place
<1>8. s.n \in Nat /\ p.from < Consumed /\ p.from \in Nat
  BY <1>1, <1>2, <1>7, ReadIs, FilledIs
<1> DEFINE n == s.n
<1>a. n \in Nat /\ Enough(n) /\ position' = position + n /\ n = s.n
      /\ bytes = SubSeq(buffer, position + 1, position + n)
  BY <1>1, <1>8
<1> HIDE DEF n
<1>9. bytes = SubSeq(Wire, Consumed + 1, Consumed + n) /\ Consumed + n <= arrived
  BY <1>2, <1>3, <1>a, BufferIs
<1>10. Consumed' = Consumed + n
  BY <1>1, <1>3, <1>a, SMTT(30) DEF Consumed
<1>11. BufferInv'
  <2>1. position + n \in 0 .. Len(buffer)
    BY <1>3, <1>a, SMTT(30) DEF Enough
  <2> QED
    BY <1>1, <1>2, <1>a, <2>1 DEF BufferInv, Wire
<1>12. HeardInv'
  BY <1>1, <1>2 DEF HeardInv
<1>13. EndedInv'
  BY <1>1 DEF EndedInv
<1>14. ASSUME k < Len(p.reads)
       PROVE  PlaceInv' /\ ErrorInv'
  <2>1. /\ GoesOn(message, p, r) /\ k + 1 \in 1 .. Len(p.reads)
        /\ p.reads[k + 1] = NextRead(message, p, r)
    BY <1>2, <1>7, <1>14, ReadIs
  <2>2. status' = "parsing"
    BY <1>1, <1>7, <2>1 DEF GoesOn
  <2>3. /\ p.reads[k + 1].at = Consumed + n
        /\ p.reads[k + 1].todo = todo'
        /\ p.reads[k + 1].columns = columns'
    <3>1. /\ NextRead(message, p, r).at = r.at + Head(r.todo).n
          /\ NextRead(message, p, r).todo =
               Then(Head(r.todo), SubSeq(message.wire, r.at + 1, r.at + Head(r.todo).n), message.old, p.meta)
               \o Tail(r.todo)
          /\ NextRead(message, p, r).columns =
               IF Head(r.todo).to = "column" THEN Append(r.columns, Head(r.todo).col) ELSE r.columns
      BY DEF NextRead
    <3>2. p.reads[k + 1].at = Consumed + n
      BY <1>7, <1>a, <2>1, <3>1, SMTT(30)
    <3>3. p.reads[k + 1].columns = columns'
      BY <1>1, <1>7, <2>1, <3>1
    <3>4. p.reads[k + 1].todo = Then(s, SubSeq(Wire, Consumed + 1, Consumed + n), message.old, colMetadata) \o Tail(todo)
      BY <1>7, <1>a, <2>1, <3>1 DEF Wire
    <3> QED
      BY <1>1, <1>9, <3>2, <3>3, <3>4
  <2>4. current' = Token(TypeByte(message, p), SubSeq(Wire, p.from + 2, Consumed + n))
    <3> DEFINE f == p.from + 1
               q == Consumed + n
    <3>1. f \in 0 .. Len(Wire) /\ Consumed \in f .. Len(Wire) /\ q \in Consumed .. Len(Wire) /\ p.from + 2 = f + 1
      <4> DEFINE x == p.from
      <4>1. x \in Nat /\ x < Consumed
        BY <1>8
      <4>0. /\ n \in Nat /\ Consumed \in Nat /\ arrived \in Nat /\ Len(Wire) \in Nat
            /\ Consumed + n <= arrived /\ arrived <= Len(Wire)
        BY <1>3, <1>9, <1>a
      <4> HIDE DEF x
      <4>2. x + 1 \in 0 .. Len(Wire) /\ Consumed \in x + 1 .. Len(Wire) /\ x + 2 = (x + 1) + 1
            /\ Consumed + n \in Consumed .. Len(Wire)
        BY <4>0, <4>1
      <4> QED
        BY <4>2 DEF x
    <3> HIDE DEF f, q
    <3>2. SubSeq(Wire, f + 1, Consumed) \o SubSeq(Wire, Consumed + 1, q) = SubSeq(Wire, f + 1, q)
      BY <1>3, <3>1, PiecesJoin
    <3>3. current.body \o bytes = SubSeq(Wire, p.from + 2, q)
      BY <1>7, <1>9, <3>1, <3>2 DEF Token, q
    <3> HIDE DEF bytes
    <3> QED
      BY <1>1, <1>7, <3>3 DEF Token, q
  <2>5. At(i, k + 1)'
    BY <1>1, <1>7, <1>10, <2>1, <2>3, <2>4 DEF At, Filled, Parts, Part, Wire
  <2>6. i \in Parts' /\ Place(i)'
    <3>1. k + 1 \in Nat
      OBVIOUS
    <3>2. (\E l \in Nat : At(i, l))'
      BY <2>5, <3>1, Zenon
    <3>3. /\ message' = message
          /\ Len(tokens') = Part(i).heard /\ colMetadata' = Part(i).meta
      BY <1>1, <1>7, <2>1
    <3> QED
      BY <3>2, <3>3 DEF Place, Parts, Part
  <2> QED
    BY <2>2, <2>6 DEF PlaceInv, ErrorInv
<1>15. ASSUME ~(k < Len(p.reads))
       PROVE  PlaceInv' /\ ErrorInv'
  <2>1. Consumed + n <= Len(Wire)
    BY <1>3, <1>8, <1>9, <1>a, SMTT(30)
  <2>2. message.broken /\ p.heard = Len(message.sent) /\ s.to = "throw"
    BY <1>1, <1>2, <1>7, <1>15, <1>a, <2>1, ReadIs
  <2>3. status' = "error" /\ message'.broken /\ Len(tokens') = Len(message'.sent)
    BY <1>1, <1>7, <2>2
  <2> QED
    BY <2>3 DEF PlaceInv, ErrorInv
<1> QED
  BY <1>11, <1>12, <1>13, <1>14, <1>15 DEF TokenInv

\* The token the server sent, and before the next part of the message.
LEMMA TokenYield ==
  ASSUME TokenInv, Yield
  PROVE  TokenInv'
<1>1. /\ status = "parsing" /\ current # None /\ todo = <<>>
      /\ tokens' = IF Swallowed(current) THEN tokens ELSE Append(tokens, current)
      /\ colMetadata' = IF current.type = Type.COLMETADATA THEN columns ELSE colMetadata
      /\ current' = None
      /\ UNCHANGED <<message, arrived, buffer, position, todo, columns, status>>
  BY DEF Yield
<1>2. BufferInv /\ HeardInv /\ message \in Messages
  BY DEF TokenInv, BufferInv
<1>3. PICK i \in Parts : Place(i)
  BY <1>1 DEF TokenInv, PlaceInv
<1>4. PICK k \in 1 .. Len(Part(i).reads) : At(i, k)
  BY <1>1, <1>2, <1>3, PlaceIs
<1> DEFINE p == Part(i)
           r == p.reads[k]
           next == Part(i + 1)
<1>5. /\ Filled(i) /\ current = Token(TypeByte(message, p), SubSeq(Wire, p.from + 2, Consumed))
      /\ r.at = Consumed /\ r.todo = <<>> /\ r.columns = columns
      /\ Len(tokens) = p.heard /\ colMetadata = p.meta
  BY <1>1, <1>3, <1>4 DEF At, Place
<1>6. i < Len(Readings[message]) /\ Consumed = p.to /\ r = p.reads[Len(p.reads)]
  BY <1>2, <1>5, ReadIs
<1>7. Follows(message, p, next) /\ i + 1 \in Parts
  BY <1>2, <1>3, <1>6, PartIs
<1>8. current = TokenOf(message, p)
  BY <1>5, <1>6 DEF TokenOf, Wire
<1>9. /\ next.from = Consumed
      /\ next.meta = colMetadata'
      /\ IF Swallowed(current) THEN next.heard = Len(tokens)
         ELSE /\ next.heard = Len(tokens) + 1 /\ next.heard <= Len(message.sent)
              /\ message.sent[next.heard] = current
  <2>1. current.type = TypeByte(message, p)
    BY <1>5 DEF Token
  <2> QED
    BY <1>1, <1>5, <1>6, <1>7, <1>8, <2>1 DEF Follows
<1>10. BufferInv' /\ Consumed' = Consumed
  BY <1>1, <1>2 DEF BufferInv, Wire, Consumed
<1>11. EndedInv' /\ ErrorInv'
  BY <1>1 DEF EndedInv, ErrorInv
<1>12. HeardInv' /\ Len(tokens') = next.heard
  <2>1. CASE Swallowed(current)
    BY <1>1, <1>2, <1>9, <2>1 DEF HeardInv
  <2>2. CASE ~Swallowed(current)
    <3>1. current \in TokenSet
      <4>1. Wire \in Seq(Nat) /\ Len(Wire) \in Nat /\ p.from \in Nat /\ p.from < p.to /\ p.to \in Nat /\ p.to <= Len(Wire)
        BY <1>2, <1>5, FilledIs, MessageIs DEF Wire
      <4>2. TypeByte(message, p) \in Int
        <5>1. p.from + 1 \in 1 .. Len(Wire)
          BY <4>1
        <5> QED
          BY <4>1, <5>1, ElementOfSeq, SMTT(30) DEF TypeByte, Wire
      <4>3. SubSeq(Wire, p.from + 2, p.to) \in Seq(Nat)
        <5> DEFINE f == p.from + 1
        <5>1. f \in 0 .. Len(Wire) /\ p.to \in f .. Len(Wire) /\ p.from + 2 = f + 1
          BY <4>1, SMTT(30)
        <5> HIDE DEF f
        <5>2. SubSeq(Wire, f + 1, p.to) \in Seq(Nat)
          BY <4>1, <5>1, PieceIs
        <5> QED
          BY <5>1, <5>2
      <4> QED
        BY <1>5, <1>6, <4>2, <4>3 DEF Token, TokenSet
    <3>2. tokens \in Seq(TokenSet) /\ tokens' = Append(tokens, current)
      BY <1>1, <1>2, <2>2 DEF HeardInv
    <3>3. /\ tokens' \in Seq(TokenSet) /\ Len(tokens') = Len(tokens) + 1
          /\ \A j \in 1 .. Len(tokens) : tokens'[j] = tokens[j]
          /\ tokens'[Len(tokens) + 1] = current
      BY <3>1, <3>2, AppendProperties
    <3>4. Len(tokens) \in Nat
      BY <3>2
    <3>5. ASSUME NEW j \in 1 .. Len(tokens')
          PROVE  tokens'[j] = message'.sent[j]
      <4>1. CASE j \in 1 .. Len(tokens)
        BY <1>1, <1>2, <3>3, <4>1 DEF HeardInv
      <4>2. CASE j = Len(tokens) + 1
        BY <1>1, <1>9, <2>2, <3>3, <4>2
      <4> QED
        BY <3>3, <3>4, <4>1, <4>2
    <3> QED
      BY <1>1, <1>2, <1>9, <2>2, <3>3, <3>5 DEF HeardInv
  <2> QED
    BY <2>1, <2>2
<1>13. PlaceInv'
  <2>1. i + 1 \in Parts' /\ Place(i + 1)'
    BY <1>1, <1>7, <1>9, <1>10, <1>12 DEF Place, Before, Parts, Part
  <2> QED
    BY <2>1 DEF PlaceInv
<1> QED
  BY <1>10, <1>11, <1>12, <1>13 DEF TokenInv

\* However the message is cut into chunks, StreamBuffer holds the last bytes that have
\* come, and the parser is at a read it would be at if the whole message were there:
\* nothing is lost or read twice between two chunks, and the tokens yielded so far are
\* the first of those the server sent.
THEOREM TokenInvariant == Spec => []TokenInv
<1>1. TokenInv /\ [Next]_vars => TokenInv'
  <2> SUFFICES ASSUME TokenInv, [Next]_vars PROVE TokenInv'
    OBVIOUS
  <2>1. CASE UNCHANGED vars
    BY <2>1, TokenStutters
  <2>2. ASSUME NEW size \in ChunkSizes, WaitForChunk(size) PROVE TokenInv'
    BY <2>2, TokenWaitForChunk
  <2>3. CASE EndOfData
    BY <2>3, TokenEndOfData
  <2>4. CASE StartToken
    BY <2>4, TokenStartToken
  <2>5. CASE Read
    BY <2>5, TokenRead
  <2>6. CASE Yield
    BY <2>6, TokenYield
  <2> QED
    BY <2>1, <2>2, <2>3, <2>4, <2>5, <2>6 DEF Next
<1> QED
  BY <1>1, TokenInit, PTL DEF Spec

\* Where the data ended the parser had read all that arrived.
LEMMA WhereItEnded ==
  ASSUME TokenInv, status = "ended"
  PROVE  /\ Consumed = arrived /\ arrived \in Nat /\ Len(Wire) \in Nat /\ arrived <= Len(Wire) /\ message \in Messages
         /\ \E i \in Parts :
              /\ Len(tokens) = Part(i).heard
              /\ current = None => arrived = Part(i).from
              /\ current # None =>
                   /\ Filled(i) /\ TypeByte(message, Part(i)) \notin RowTypes
                   /\ Part(i).from < arrived /\ arrived <= Part(i).to /\ arrived < Len(Wire)
<1>1. BufferInv /\ message \in Messages
  BY DEF TokenInv, BufferInv
<1>2. /\ Consumed = arrived /\ arrived \in Nat /\ Len(Wire) \in Nat /\ arrived <= Len(Wire)
      /\ \A n \in Nat : Enough(n) <=> Consumed + n <= arrived
  <2>1. position = Len(buffer)
    BY DEF TokenInv, EndedInv
  <2> QED
    BY <1>1, <2>1, ConsumedIs
<1>3. PICK i \in Parts : Place(i)
  BY DEF TokenInv, PlaceInv
<1>4. current = None => arrived = Part(i).from
  BY <1>1, <1>2, <1>3, PlaceIs
<1>5. ASSUME current # None
      PROVE  /\ Filled(i) /\ TypeByte(message, Part(i)) \notin RowTypes
             /\ Part(i).from < arrived /\ arrived <= Part(i).to /\ arrived < Len(Wire)
  <2>1. Filled(i) /\ current.type = TypeByte(message, Part(i))
    BY <1>1, <1>3, <1>5, PlaceIs
  <2>2. PICK k \in 1 .. Len(Part(i).reads) : At(i, k)
    BY <1>1, <1>3, <1>5, PlaceIs
  <2> DEFINE r == Part(i).reads[k]
  <2>3. r.at = arrived /\ r.todo = todo
    BY <1>2, <2>2 DEF At
  <2>4. current.type \notin RowTypes /\ todo # <<>> /\ ~Enough(Head(todo).n)
    BY <1>5 DEF TokenInv, EndedInv
  <2>5. Part(i).from < arrived /\ arrived <= Part(i).to /\ Head(todo).n \in Nat
    BY <1>1, <2>1, <2>3, <2>4, ReadIs
  <2>6. ASSUME arrived = Len(Wire)
        PROVE  FALSE
    <3>1. ~(r.at + Head(r.todo).n <= Len(Wire))
      BY <1>2, <2>3, <2>4, <2>5, <2>6
    <3>2. r.at \in Nat /\ Head(r.todo).n \in Nat /\ r.todo # <<>>
      BY <1>2, <2>3, <2>4, <2>5
    <3>3. r.at + Head(r.todo).n > Len(Wire)
      BY <1>2, <3>1, <3>2
    <3>4. TypeByte(message, Part(i)) \in RowTypes \/ r.at < Len(Wire)
      BY <1>1, <2>1, <3>1, <3>2, <3>3, ReadIs
    <3> QED
      BY <1>2, <2>1, <2>3, <2>4, <2>6, <3>4
  <2> QED
    BY <1>2, <2>1, <2>4, <2>5, <2>6
<1> QED
  BY <1>1, <1>2, <1>3, <1>4, <1>5 DEF Place

\* The cuts do not show: StreamParser yields the tokens the server sent, in their
\* order, and all of them when the message has come; it fails exactly when what
\* follows them is nothing a parser accepts.
THEOREM TokensArriveAsSent == Spec => []TokensAsSent
<1>1. ASSUME TokenInv PROVE TokensAsSent
  <2>1. Len(tokens) <= Len(message.sent) /\ \A i \in DOMAIN tokens : tokens[i] = message.sent[i]
    <3>1. DOMAIN tokens = 1 .. Len(tokens)
      BY <1>1 DEF TokenInv, HeardInv
    <3> QED
      BY <1>1, <3>1 DEF TokenInv, HeardInv
  <2>2. message \in Messages /\ message.broken \in BOOLEAN
    BY <1>1, MessageIs DEF TokenInv, BufferInv
  <2>3. ASSUME arrived = Len(Wire), status = "error"
        PROVE  message.broken /\ Len(tokens) = Len(message.sent)
    BY <1>1, <2>3 DEF TokenInv, ErrorInv
  <2>4. ASSUME arrived = Len(Wire), status = "ended"
        PROVE  ~message.broken /\ Len(tokens) = Len(message.sent)
    <3>1. arrived \in Nat
      BY <1>1, <2>4, WhereItEnded
    <3>2. PICK i \in Parts : Len(tokens) = Part(i).heard /\ arrived = Part(i).from
      BY <1>1, <2>4, <3>1, WhereItEnded
    <3>3. ~Filled(i)
      <4> SUFFICES ASSUME Filled(i) PROVE FALSE
        OBVIOUS
      <4>1. Part(i).from < Part(i).to /\ Part(i).to <= Len(Wire) /\ Part(i).to \in Nat
        BY <2>2, FilledIs
      <4> QED
        BY <2>4, <3>1, <3>2, <4>1
    <3>4. i = Len(Readings[message]) /\ ~message.broken
      BY <2>2, <3>3, FilledOrLast
    <3> QED
      BY <2>2, <3>2, <3>4, PartIs
  <2>5. status \in {"parsing", "ended", "error"}
    BY <1>1 DEF TokenInv, HeardInv
  <2> QED
    BY <2>1, <2>2, <2>3, <2>4, <2>5 DEF TokensAsSent
<1> QED
  BY <1>1, TokenInvariant, PTL

\* A message that ends within a row or within column metadata, wherever the cut is,
\* is never parsed to an end as if it had been complete: the parser fails.
THEOREM CutRowsFail == Spec => []CutRowsAreNoticed
<1>1. ASSUME TokenInv PROVE CutRowsAreNoticed
  <2> SUFFICES ASSUME status = "ended", arrived < Len(Wire), NEW j \in Parts,
                      Part(j).from < Part(j).to, TypeByte(message, Part(j)) \in RowTypes
               PROVE  arrived <= Part(j).from \/ arrived >= Part(j).to
    BY DEF CutRowsAreNoticed, Parts, Part
  <2>1. /\ arrived \in Nat /\ Len(Wire) \in Nat /\ message \in Messages
    BY <1>1, WhereItEnded
  <2>2. PICK i \in Parts :
              /\ current = None => arrived = Part(i).from
              /\ current # None =>
                   /\ Filled(i) /\ TypeByte(message, Part(i)) \notin RowTypes
                   /\ Part(i).from < arrived /\ arrived <= Part(i).to
    BY <1>1, WhereItEnded
  <2>3. /\ Part(i).from \in Nat /\ Part(i).to \in Nat /\ Part(j).from \in Nat /\ Part(j).to \in Nat
    BY <2>1, PartIs
  <2>4. i \in Nat /\ j \in Nat /\ Len(Readings[message]) \in Nat /\ j <= Len(Readings[message])
    BY <2>1, MessageIs DEF Parts
  <2>5. CASE j < i
    <3>1. Part(j).to <= Part(i).from
      BY <2>1, <2>5, PartsAre
    <3> QED
      BY <2>1, <2>2, <2>3, <3>1
  <2>6. CASE i < j
    <3>1. Part(i).to <= Part(j).from
      BY <2>1, <2>6, PartsAre
    <3>2. Filled(i)
      BY <2>4, <2>6 DEF Filled
    <3>3. Part(i).from < Part(i).to
      BY <2>1, <3>2, FilledIs
    <3> QED
      BY <2>1, <2>2, <2>3, <3>1, <3>3
  <2>7. CASE i = j
    BY <2>1, <2>2, <2>3, <2>7
  <2> QED
    BY <2>4, <2>5, <2>6, <2>7
<1> QED
  BY <1>1, TokenInvariant, PTL

(*********************************** validation **********************************)

WholeTypes == {"TinyInt", "SmallInt", "Int"}
CodePageTypes == {"VarChar", "Char", "Text"}

\* A value validation can be given, of a parameter or of one it has replaced.
Valued(v) == v.kind = "number" => v \in [kind : {"number"}, n : Int]

LEMMA WholeAgain ==
  ASSUME NEW lo \in Int, NEW hi \in Int, NEW v, Valued(v), Whole(lo, hi, v) # Invalid
  PROVE  Whole(lo, hi, Whole(lo, hi, v)) = Whole(lo, hi, v)
<1>1. CASE v.kind = "number"
  <2>1. PICK n \in Int : v = [kind |-> "number", n |-> n]
    BY <1>1 DEF Valued
  <2>2. Numeric(v) = v /\ v.kind = "number" /\ v.n = n
    BY <2>1 DEF Numeric
  <2>3. Within(lo, hi, v) # Invalid
    BY DEF Whole, Invalid
  <2>4. ~(n < 2 * lo \/ n > 2 * hi) /\ Within(lo, hi, v) = v
    BY <2>2, <2>3 DEF Within
  <2> DEFINE m == 2 * Trunc(n)
             u == [kind |-> "number", n |-> m]
  <2>5. m \in Int /\ ~(m < 2 * lo \/ m > 2 * hi) /\ 2 * Trunc(m) = m
    BY <2>4 DEF Trunc
  <2>6. Whole(lo, hi, v) = u
    BY <2>1, <2>2, <2>4 DEF Whole
  <2> HIDE DEF m
  <2>7. Numeric(u) = u /\ u.kind = "number" /\ u.n = m
    BY DEF Numeric
  <2>8. Within(lo, hi, u) = u
    BY <2>5, <2>7 DEF Within
  <2>9. Whole(lo, hi, u) = u
    BY <2>5, <2>7, <2>8 DEF Whole
  <2> QED
    BY <2>6, <2>9
<1>2. CASE v.kind # "number"
  <2>1. Numeric(v) \in {v, Invalid}
    BY DEF Numeric
  <2>2. Numeric(v).kind # "number"
    BY <1>2, <2>1 DEF Invalid
  <2>3. Whole(lo, hi, v) = Numeric(v)
    BY <2>2 DEF Within, Whole
  <2> QED
    BY <2>1, <2>3
<1> QED
  BY <1>1, <1>2

LEMMA BitAgain ==
  ASSUME NEW v
  PROVE  ValidBit(ValidBit(v)) = ValidBit(v)
<1>1. CASE v.kind = "null"
  BY <1>1 DEF ValidBit
<1>2. CASE v.kind # "null"
  <2> DEFINE c == \/ v.kind \in {"date", "buffer", "guid", "table"}
                  \/ v.kind = "boolean" /\ v.b
                  \/ v.kind = "number" /\ v.n # 0
                  \/ v.kind = "string" /\ v.chars # 0
  <2>1. ValidBit(v) = [kind |-> "boolean", b |-> c]
    BY <1>2 DEF ValidBit
  <2>0. c \in BOOLEAN
    OBVIOUS
  <2> HIDE DEF c
  <2>2. CASE c
    <3>0. c = TRUE
      BY <2>0, <2>2
    <3>1. ValidBit(v) = [kind |-> "boolean", b |-> TRUE]
      BY <2>1, <3>0
    <3>2. ValidBit([kind |-> "boolean", b |-> TRUE]) = [kind |-> "boolean", b |-> TRUE]
      BY DEF ValidBit
    <3> QED
      BY <3>1, <3>2
  <2>3. CASE ~c
    <3>0. c = FALSE
      BY <2>0, <2>3
    <3>1. ValidBit(v) = [kind |-> "boolean", b |-> FALSE]
      BY <2>1, <3>0
    <3>2. ValidBit([kind |-> "boolean", b |-> FALSE]) = [kind |-> "boolean", b |-> FALSE]
      BY DEF ValidBit
    <3> QED
      BY <3>1, <3>2
  <2> QED
    BY <2>2, <2>3
<1> QED
  BY <1>1, <1>2

\* What validation makes of the types whose values it leaves as they are.
LEMMA LeftAlone ==
  ASSUME NEW type \in Types \ (WholeTypes \cup {"Bit"} \cup CodePageTypes), NEW v
  PROVE  Validate(type, v) \in {v, Invalid}
<1>1. CASE type \in {"BigInt", "SmallMoney", "Money", "Float", "Real", "Decimal", "Numeric"}
  BY <1>1 DEF Validate, ValidBigInt, ValidSmallMoney, ValidMoney, ValidFloat, ValidReal, ValidDecimal, ValidNumeric,
     Within, Numeric
<1>2. CASE type \in {"DateTime", "SmallDateTime", "Date", "Time", "DateTime2", "DateTimeOffset"}
  BY <1>2 DEF Validate, ValidDateTime, ValidSmallDateTime, ValidDate, ValidTime, ValidDateTime2, ValidDateTimeOffset,
     OfKind
<1>3. CASE type \in {"NVarChar", "NChar", "NText", "VarBinary", "Binary", "Image", "UniqueIdentifier", "TVP"}
  BY <1>3 DEF Validate, ValidNVarChar, ValidNChar, ValidNText, ValidVarBinary, ValidBinary, ValidImage,
     ValidUniqueIdentifier, ValidTVP, OfKind
<1> QED
  BY <1>1, <1>2, <1>3 DEF Types, WholeTypes, CodePageTypes

\* A value that was validated once is accepted as it is.
LEMMA ValidateAgain ==
  ASSUME NEW type \in Types, NEW v, Valued(v), Validate(type, v) # Invalid,
         type \in CodePageTypes => v.kind = "null"
  PROVE  Validate(type, Validate(type, v)) = Validate(type, v)
<1>1. CASE type \in WholeTypes
  <2>1. /\ Byte - 1 \in Int /\ -(Byte ^ 2 \div 2) \in Int /\ Byte ^ 2 \div 2 - 1 \in Int
        /\ -(Byte ^ 4 \div 2) \in Int /\ Byte ^ 4 \div 2 - 1 \in Int /\ 0 \in Int
    <3>1. Byte ^ 2 \in Nat /\ Byte ^ 4 \in Nat /\ Byte \in Nat
      BY WidthsAssumption
    <3> QED
      BY <3>1
  <2>2. PICK lo \in Int, hi \in Int : \A u : Validate(type, u) = Whole(lo, hi, u)
    <3>1. CASE type = "TinyInt"
      BY <2>1, <3>1 DEF Validate, ValidTinyInt
    <3>2. CASE type = "SmallInt"
      BY <2>1, <3>2 DEF Validate, ValidSmallInt
    <3>3. CASE type = "Int"
      BY <2>1, <3>3 DEF Validate, ValidInt
    <3> QED
      BY <1>1, <3>1, <3>2, <3>3 DEF WholeTypes
  <2>3. Whole(lo, hi, v) # Invalid
    BY <2>2
  <2>4. Whole(lo, hi, Whole(lo, hi, v)) = Whole(lo, hi, v)
    BY <2>3, WholeAgain
  <2> QED
    BY <2>2, <2>4
<1>2. CASE type = "Bit"
  <2>1. \A u : Validate(type, u) = ValidBit(u)
    BY <1>2 DEF Validate
  <2> QED
    BY <2>1, BitAgain
<1>3. CASE type \in CodePageTypes
  <2>1. \A u : Validate(type, u) = CodePage(u)
    BY <1>3 DEF CodePageTypes, Validate, ValidVarChar, ValidChar, ValidText
  <2>2. CodePage(v) = v
    BY <1>3 DEF CodePage, OfKind
  <2> QED
    BY <2>1, <2>2
<1>4. CASE type \in Types \ (WholeTypes \cup {"Bit"} \cup CodePageTypes)
  BY <1>4, LeftAlone
<1> QED
  BY <1>1, <1>2, <1>3, <1>4

\* A list without strings in a code page, of which ExecutesAlike speaks.
Unencoded(list) ==
  \A i \in DOMAIN list : list[i].type \in CodePageTypes => list[i].value.kind = "null"

\* Validation is done with a list when it has been through it once.
LEMMA ReplacedAgain ==
  ASSUME NEW list \in Lists, Unencoded(list)
  PROVE  /\ Refusals(Replaced(list)) = Refusals(list)
         /\ Replaced(Replaced(list)) = Replaced(list)
<1> DEFINE once == Replaced(list)
           clean(i) == Refusals(list) \cap 1 .. i = {}
           valid(i) == Validate(list[i].type, list[i].value)
<1>1. DOMAIN once = DOMAIN list
  BY DEF Replaced
<1>2. ASSUME NEW i \in DOMAIN list, clean(i)
      PROVE  /\ once[i] = [list[i] EXCEPT !.value = valid(i)]
             /\ once[i].type = list[i].type /\ once[i].value = valid(i)
             /\ Validate(once[i].type, once[i].value) = valid(i) /\ valid(i) # Invalid
  <2>1. once[i] = [list[i] EXCEPT !.value = valid(i)]
    BY <1>2 DEF Replaced
  <2>2. {"type", "value"} \subseteq DOMAIN list[i] /\ list[i].type \in Types /\ Valued(list[i].value) /\ i \in 1 .. i
    BY ListsAssumption DEF Valued
  <2>3. once[i].type = list[i].type /\ once[i].value = valid(i)
    BY <2>1, <2>2
  <2>4. valid(i) # Invalid
    BY <1>2, <2>2 DEF Refusals
  <2>5. Validate(list[i].type, valid(i)) = valid(i)
    BY <2>2, <2>4, ValidateAgain DEF Unencoded
  <2> QED
    BY <2>1, <2>3, <2>4, <2>5
<1>3. ASSUME NEW i \in DOMAIN list, ~clean(i)
      PROVE  once[i] = list[i]
  BY <1>3 DEF Replaced
<1> HIDE DEF once
<1>4. Refusals(once) = Refusals(list)
  <2>1. \A i \in DOMAIN list :
          Validate(once[i].type, once[i].value) = Invalid <=> valid(i) = Invalid
    BY <1>2, <1>3
  <2> QED
    BY <1>1, <2>1 DEF Refusals
<1>5. Replaced(once) = once
  <2> DEFINE again(i) == IF clean(i) THEN [once[i] EXCEPT !.value = Validate(once[i].type, once[i].value)] ELSE once[i]
  <2>1. Replaced(once) = [i \in DOMAIN list |-> again(i)]
    BY <1>1, <1>4 DEF Replaced
  <2>2. ASSUME NEW i \in DOMAIN list
        PROVE  again(i) = once[i]
    <3>1. CASE clean(i)
      <4> DEFINE p == list[i]
                 w == valid(i)
      <4>1. once[i] = [p EXCEPT !.value = w] /\ Validate(once[i].type, once[i].value) = w
        BY <1>2, <3>1
      <4> HIDE DEF p, w
      <4>2. [[p EXCEPT !.value = w] EXCEPT !.value = w] = [p EXCEPT !.value = w]
        OBVIOUS
      <4>3. again(i) = [once[i] EXCEPT !.value = w]
        BY <3>1, <4>1
      <4> QED
        BY <4>1, <4>2, <4>3
    <3>2. CASE ~clean(i)
      BY <3>2
    <3> QED
      BY <3>1, <3>2
  <2>3. once = [i \in DOMAIN list |-> once[i]]
    <3>1. once = [i \in DOMAIN list |-> IF clean(i) THEN [list[i] EXCEPT !.value = valid(i)] ELSE list[i]]
      BY DEF once, Replaced
    <3> QED
      BY <3>1
  <2> HIDE DEF again
  <2> QED
    BY <2>1, <2>2, <2>3
<1> QED
  BY <1>4, <1>5 DEF once

(************************************ the calls **********************************)

\* A call that is being written: what comes next, the parameter, what is written.
Here == [stage |-> stage, at |-> at, wire |-> wire]

\* The piece that comes next when the parameters are list, what follows it, and
\* the call after it.
Going == {"call", "name", "info", "length", "data"}
Over == {"sent", "failed", "invalid"}
Piece(list, t) ==
  CASE t.stage = "call" -> (IF HasHeaders THEN Headers ELSE <<>>) \o Field(2, 1) \o Field(2, "p") \o Field(2, 0)
    [] t.stage = "name" -> Field(1, 2) \o Field(4, t.at) \o Field(1, IF list[t.at].output THEN 1 ELSE 0)
    [] t.stage = "info" -> Write(Resolved(list[t.at])).info
    [] t.stage = "length" -> Write(Resolved(list[t.at])).length
    [] t.stage = "data" -> Write(Resolved(list[t.at])).data
Following(list, t) ==
  CASE t.stage = "call" -> IF list = <<>> THEN "sent" ELSE "name"
    [] t.stage = "name" -> "info"
    [] t.stage = "info" -> "length"
    [] t.stage = "length" -> "data"
    [] t.stage = "data" -> IF t.at = Len(list) THEN "sent" ELSE "name"
Param(t) == IF t.stage = "call" THEN 1 ELSE IF t.stage = "data" THEN t.at + 1 ELSE t.at
After(list, t) ==
  [stage |-> IF Thrown(Piece(list, t)) THEN "failed" ELSE Following(list, t),
   at |-> Param(t),
   wire |-> IF Thrown(Piece(list, t)) THEN t.wire ELSE t.wire \o Piece(list, t)]

\* How a call begins, and a way from there to its end: the only one there is.
Start(list) == [stage |-> IF Refusals(list) = {} THEN "call" ELSE "invalid", at |-> 1, wire |-> <<>>]
Way(list, way, end) ==
  /\ Start(list) \in way /\ end \in way
  /\ \A t \in way : t # end => t.stage \in Going /\ After(Replaced(list), t) \in way

\* One execution: the calls on its way so far.  The second is on the way of the first.
CallInv ==
  /\ given \in Lists
  /\ runs \in Nat /\ stage \in {"made"} \cup Going \cup Over
  /\ Unencoded(given) =>
       /\ params = IF runs = 0 THEN given ELSE Replaced(given)
       /\ runs = 0 => stage = "made"
       /\ runs = 1 /\ stage # "made" => \E way : Way(given, way, Here)
       /\ (runs = 1 /\ stage = "made") \/ (runs = 2 /\ stage # "made") =>
            \E way, end : /\ Way(given, way, end) /\ end.stage \in Over
                          /\ before = [stage |-> end.stage, wire |-> end.wire]
                          /\ runs = 2 => Here \in way

LEMMA CallInvInit == CallInit => CallInv
BY DEF CallInit, CallInv

\* A piece of a call.
Piecewise == Call \/ Name \/ TypeInfo \/ Length \/ Data

LEMMA PieceStep ==
  ASSUME Piecewise
  PROVE  /\ stage \in Going /\ Here' = After(params, Here) /\ stage' \in Going \cup Over
         /\ UNCHANGED <<params, given, runs, before>>
<1>1. CASE Call
  BY <1>1 DEF Call, YieldPiece, Here, After, Piece, Following, Param, Going, Over
<1>2. CASE Name
  BY <1>2 DEF Name, YieldPiece, Here, After, Piece, Following, Param, Going, Over
<1>3. CASE TypeInfo
  BY <1>3 DEF TypeInfo, YieldPiece, Here, After, Piece, Following, Param, Going, Over
<1>4. CASE Length
  BY <1>4 DEF Length, YieldPiece, Here, After, Piece, Following, Param, Going, Over
<1>5. CASE Data
  BY <1>5 DEF Data, YieldPiece, Here, After, Piece, Following, Param, Going, Over
<1> QED
  BY <1>1, <1>2, <1>3, <1>4, <1>5 DEF Piecewise

LEMMA PieceKeeps ==
  ASSUME CallInv, Piecewise
  PROVE  CallInv'
<1>1. /\ stage \in Going /\ Here' = After(params, Here) /\ stage' \in Going \cup Over
      /\ UNCHANGED <<params, given, runs, before>>
  BY PieceStep
<1>2. stage # "made" /\ stage' # "made" /\ stage \notin Over
  BY <1>1 DEF Going, Over
<1>3. given' \in Lists /\ runs' \in Nat /\ stage' \in {"made"} \cup Going \cup Over
  BY <1>1 DEF CallInv
<1>4. ASSUME Unencoded(given)
      PROVE  /\ params = IF runs = 0 THEN given ELSE Replaced(given)
             /\ runs # 0
             /\ runs = 1 => \E way : Way(given, way, Here')
             /\ runs = 2 => \E way, end : /\ Way(given, way, end) /\ end.stage \in Over
                                          /\ before = [stage |-> end.stage, wire |-> end.wire]
                                          /\ Here' \in way
  <2>1. params = Replaced(given) /\ runs # 0
    BY <1>2, <1>4 DEF CallInv
  <2>2. ASSUME runs = 1
        PROVE  \E way : Way(given, way, Here')
    <3>1. PICK way : Way(given, way, Here)
      BY <1>2, <1>4, <2>2 DEF CallInv
    <3> DEFINE more == way \cup {Here'}
    <3>2. Start(given) \in more /\ Here' \in more
      BY <3>1 DEF Way
    <3>3. Here.stage = stage
      BY DEF Here
    <3>4. ASSUME NEW t \in more, t # Here'
          PROVE  t.stage \in Going /\ After(Replaced(given), t) \in more
      <4>1. CASE t = Here
        BY <1>1, <2>1, <3>3, <4>1
      <4>2. CASE t # Here
        BY <3>1, <3>4, <4>2 DEF Way
      <4> QED
        BY <4>1, <4>2
    <3>5. Way(given, more, Here')
      BY <3>2, <3>4 DEF Way
    <3> QED
      BY <3>5
  <2>3. ASSUME runs = 2
        PROVE  \E way, end : /\ Way(given, way, end) /\ end.stage \in Over
                             /\ before = [stage |-> end.stage, wire |-> end.wire]
                             /\ Here' \in way
    <3>1. PICK way, end : /\ Way(given, way, end) /\ end.stage \in Over
                          /\ before = [stage |-> end.stage, wire |-> end.wire]
                          /\ Here \in way
      BY <1>2, <1>4, <2>3 DEF CallInv
    <3>2. Here # end
      BY <1>2, <3>1 DEF Here
    <3>3. After(Replaced(given), Here) \in way
      BY <3>1, <3>2 DEF Way
    <3> QED
      BY <1>1, <2>1, <3>1, <3>3
  <2> QED
    BY <2>1, <2>2, <2>3
<1> QED
  BY <1>1, <1>2, <1>3, <1>4 DEF CallInv

LEMMA ExecSqlKeeps ==
  ASSUME CallInv, ExecSql
  PROVE  CallInv'
<1>1. /\ stage = "made" /\ params' = Replaced(params) /\ given' = given /\ before' = before /\ runs' = runs + 1
      /\ stage' \in {"call", "invalid"} /\ Here' = Start(params)
  BY DEF ExecSql, Here, Start
<1>2. given' \in Lists /\ runs \in Nat /\ runs' \in Nat /\ runs' # 0 /\ stage' \in Going \cup Over /\ stage' # "made"
  BY <1>1 DEF CallInv, Going, Over
<1>3. ASSUME Unencoded(given)
      PROVE  /\ params' = Replaced(given)
             /\ runs' = 1 => \E way : Way(given, way, Here')
             /\ runs' = 2 => \E way, end : /\ Way(given, way, end) /\ end.stage \in Over
                                           /\ before = [stage |-> end.stage, wire |-> end.wire]
                                           /\ Here' \in way
  <2>1. given \in Lists /\ params = IF runs = 0 THEN given ELSE Replaced(given)
    BY <1>3 DEF CallInv
  <2>2. params' = Replaced(given) /\ Start(params) = Start(given)
    BY <1>1, <1>3, <2>1, ReplacedAgain DEF Start
  <2>3. Way(given, {Here'}, Here')
    BY <1>1, <2>2 DEF Way
  <2>4. ASSUME runs' = 2
        PROVE  \E way, end : /\ Way(given, way, end) /\ end.stage \in Over
                             /\ before = [stage |-> end.stage, wire |-> end.wire]
                             /\ Here' \in way
    <3>1. runs = 1
      BY <1>1, <1>2, <2>4
    <3>2. PICK way, end : /\ Way(given, way, end) /\ end.stage \in Over
                          /\ before = [stage |-> end.stage, wire |-> end.wire]
      BY <1>1, <1>3, <3>1 DEF CallInv
    <3> QED
      BY <1>1, <2>2, <3>2 DEF Way
  <2> QED
    BY <2>2, <2>3, <2>4
<1> QED
  BY <1>1, <1>2, <1>3 DEF CallInv

LEMMA AgainKeeps ==
  ASSUME CallInv, Again
  PROVE  CallInv'
<1>1. /\ stage \in Over /\ stage # "made" /\ stage' = "made" /\ before' = [stage |-> stage, wire |-> wire]
      /\ UNCHANGED <<params, given, runs>>
  BY DEF Again, Over
<1>2. given' \in Lists /\ runs' \in Nat
  BY <1>1 DEF CallInv
<1>3. ASSUME Unencoded(given)
      PROVE  /\ params = IF runs = 0 THEN given ELSE Replaced(given)
             /\ runs = 1 => \E way, end : /\ Way(given, way, end) /\ end.stage \in Over
                                          /\ before' = [stage |-> end.stage, wire |-> end.wire]
  <2>1. Here.stage = stage /\ Here.wire = wire
    BY DEF Here
  <2>2. runs = 1 => \E way : Way(given, way, Here)
    BY <1>1, <1>3 DEF CallInv
  <2> QED
    BY <1>1, <1>3, <2>1, <2>2 DEF CallInv
<1>4. given' = given /\ runs' = runs /\ stage' = "made" /\ params' = params
  BY <1>1
<1> QED
  BY <1>2, <1>3, <1>4 DEF CallInv

\* Whatever the lists of parameters: validation leaves its own results as they are, so
\* that the second execution of a request starts as the first did and takes the same
\* steps, each of which the parameters alone decide.
THEOREM CallInvariant == CallSpec => []CallInv
<1>1. CallInv /\ [CallNext]_callVars => CallInv'
  <2> SUFFICES ASSUME CallInv, [CallNext]_callVars PROVE CallInv'
    OBVIOUS
  <2>1. CASE UNCHANGED callVars
    BY <2>1 DEF callVars, CallInv, Here
  <2>2. CASE ExecSql
    BY <2>2, ExecSqlKeeps
  <2>3. CASE Piecewise
    BY <2>3, PieceKeeps
  <2>4. CASE Again
    BY <2>4, AgainKeeps
  <2> QED
    BY <2>1, <2>2, <2>3, <2>4 DEF CallNext, Piecewise
<1> QED
  BY <1>1, CallInvInit, PTL DEF CallSpec

\* A request executed again writes the same call to the server again, ends it in the
\* same way or is refused again, although validation has replaced its values
\* (Connection.execSql, Request.validateParameters).
THEOREM RequestsExecuteAlike == CallSpec => []ExecutesAlike
<1>1. ASSUME CallInv PROVE ExecutesAlike
  <2> SUFFICES ASSUME runs = 2, stage \in Over, Unencoded(given)
               PROVE  before = [stage |-> stage, wire |-> wire]
    BY DEF ExecutesAlike, Over, Unencoded, CodePageTypes
  <2>1. stage \notin Going /\ stage # "made"
    BY DEF Over, Going
  <2>2. PICK way, end : /\ Way(given, way, end)
                        /\ before = [stage |-> end.stage, wire |-> end.wire]
                        /\ Here \in way
    BY <1>1, <2>1 DEF CallInv
  <2>3. Here = end
    <3>1. Here.stage \notin Going
      BY <2>1 DEF Here
    <3> QED
      BY <2>2, <3>1 DEF Way
  <2> QED
    BY <2>2, <2>3 DEF Here
<1> QED
  BY <1>1, CallInvariant, PTL
================================================================================
