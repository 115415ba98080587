------------------------------- MODULE TokenStream ------------------------------
(* The parser that makes tokens of the data of one message, chunk by chunk, as   *)
(* the incoming stream hands them over: stream-parser.ts, with the grammar of    *)
(* TokenGrammar.  The parser is suspended wherever its buffer runs out and goes  *)
(* on from there; rows and column metadata wait for the next chunk themselves,   *)
(* the other tokens leave that to parseTokens.                                   *)
EXTENDS TokenGrammar

CONSTANTS
  Messages,    \* messages of a server: [old (before TDS 7.2), wire (the bytes), sent (the tokens to
               \* yield), broken (does it end in what no parser accepts?)]
  Readings,    \* of each message: how it reads when all of it lies before the parser
  ChunkSizes   \* how many bytes a chunk of the incoming stream may have

VARIABLES
  message,     \* the message that arrives
  arrived,     \* how many of its bytes have
  buffer,      \* StreamBuffer.buffer
  position,    \* StreamBuffer.position: the bytes of buffer that are read
  current,     \* the token being parsed: its type and the bytes read for it
  todo,        \* the reads its parser still asks for
  columns,     \* the columns of the COLMETADATA being parsed
  colMetadata, \* Parser.colMetadata
  tokens,      \* the tokens yielded
  status       \* "parsing", "ended" or "error"

vars == <<message, arrived, buffer, position, current, todo, columns, colMetadata, tokens, status>>

Wire == message.wire

\* A token on the wire is the byte of its type and its body.
Token(type, body) == [type |-> type, body |-> body]
None == Token(-1, <<>>)

\* Changes of the environment that nothing is made of.
Swallowed(token) ==
  token.type = Type.ENVCHANGE /\ token.body[3] \notin {1, 2, 3, 4, 7, 8, 9, 10, 13, 18, 20}

\* The tokens a result is made of.
RowTypes == {Type.COLMETADATA, Type.ROW, Type.NBCROW}

\* Mutant: only column metadata is awaited.
AwaitsMetadata(type) == type = Type.COLMETADATA

\* colMetadataParser, rowParser and nbcRowParser are async functions that await their chunks.
Awaits(type) == type \in {Type.COLMETADATA, Type.ROW, Type.NBCROW}

(**************************** a message in one piece *****************************)
(* A reading cuts a message into parts: the bytes of a token, after from and up  *)
(* to to, the column metadata it is read with (meta), how many tokens are        *)
(* yielded before it (heard), and the states of its parser (reads): how far it   *)
(* has read the message, the reads it still asks for, the columns.  The last     *)
(* part is what no parser accepts, and empty when there is none.                 *)

TypeByte(m, part) == m.wire[part.from + 1]
TokenOf(m, part) == Token(TypeByte(m, part), SubSeq(m.wire, part.from + 2, part.to))

FirstRead(m, part) ==
  [at |-> part.from + 1, todo |-> TokenSteps(TypeByte(m, part), m.old, part.meta), columns |-> <<>>]

NextRead(m, part, r) ==
  LET s == Head(r.todo) IN
  [at |-> r.at + s.n,
   todo |-> Then(s, SubSeq(m.wire, r.at + 1, r.at + s.n), m.old, part.meta) \o Tail(r.todo),
   columns |-> IF s.to = "column" THEN Append(r.columns, s.col) ELSE r.columns]

\* The next read has its bytes, and no exception ends the parser.
GoesOn(m, part, r) ==
  /\ r.todo # <<>> /\ Head(r.todo).n \in Nat /\ Head(r.todo).to # "throw"
  /\ r.at + Head(r.todo).n <= part.to

InOrder(m, part) ==
  /\ part.from < part.to /\ Len(part.reads) \in Nat \ {0}
  /\ part.reads[1] = FirstRead(m, part)
  /\ \A k \in 1 .. Len(part.reads) : part.reads[k].at \in part.from + 1 .. part.to
  /\ \A k \in 1 .. Len(part.reads) - 1 :
       GoesOn(m, part, part.reads[k]) /\ part.reads[k + 1] = NextRead(m, part, part.reads[k])

\* The part is a token, and the next part follows it.
Follows(m, part, next) ==
  LET r == part.reads[Len(part.reads)] IN
  /\ InOrder(m, part)
  /\ r.todo = <<>> /\ r.at = part.to
  /\ next.from = part.to
  /\ next.meta = IF TypeByte(m, part) = Type.COLMETADATA THEN r.columns ELSE part.meta
  /\ IF Swallowed(TokenOf(m, part)) THEN next.heard = part.heard
     ELSE /\ next.heard = part.heard + 1 /\ next.heard <= Len(m.sent)
          /\ m.sent[next.heard] = TokenOf(m, part)

\* The part is what no parser accepts: it throws, or has read a part of its token and
\* there are no more bytes.
Refused(m, part) ==
  LET r == part.reads[Len(part.reads)] IN
  /\ InOrder(m, part)
  /\ r.todo # <<>> /\ Head(r.todo).n \in Nat
  /\ IF r.at + Head(r.todo).n <= part.to THEN Head(r.todo).to = "throw"
     ELSE TypeByte(m, part) \in RowTypes \/ r.at < part.to

ReadsAs(m, parts) ==
  /\ m.wire \in Seq(Nat) /\ Len(m.sent) \in Nat /\ m.broken \in BOOLEAN
  /\ Len(parts) \in Nat \ {0}
  /\ \A i \in 1 .. Len(parts) : /\ parts[i].from \in 0 .. Len(m.wire) /\ parts[i].to \in 0 .. Len(m.wire)
                               /\ parts[i].heard \in 0 .. Len(m.sent)
  /\ parts[1].from = 0 /\ parts[1].meta = <<>> /\ parts[1].heard = 0
  /\ \A i, j \in 1 .. Len(parts) : i < j => parts[i].to <= parts[j].from
  /\ \A i \in 1 .. Len(parts) - 1 : Follows(m, parts[i], parts[i + 1])
  /\ LET last == parts[Len(parts)] IN
       /\ last.to = Len(m.wire) /\ last.heard = Len(m.sent)
       /\ m.broken <=> last.from < last.to
       /\ m.broken => Refused(m, last)

ASSUME MessagesAssumption ==
  /\ \A m \in Messages : ReadsAs(m, Readings[m])
  /\ ChunkSizes \subseteq Nat \ {0}

Init ==
  /\ message \in Messages
  /\ arrived = 0 /\ buffer = <<>> /\ position = 0
  /\ current = None /\ todo = <<>> /\ columns = <<>> /\ colMetadata = <<>>
  /\ tokens = <<>> /\ status = "parsing"

(********************************** StreamBuffer *********************************)

\* awaitData: a read goes on at once when its bytes are there.
Enough(n) == position + n <= Len(buffer)

\* The parser is suspended in a token, or the loop over the buffer is through.
Waiting ==
  /\ status = "parsing"
  /\ IF current = None THEN ~Enough(1) ELSE todo # <<>> /\ ~Enough(Head(todo).n)

\* Mutant: what is left of the buffer is dropped.
ReplaceBuffer(chunk) == chunk

\* waitForChunk: the new chunk behind what is left of the buffer.
Refill(chunk) == IF position = Len(buffer) THEN chunk ELSE SubSeq(buffer, position + 1, Len(buffer)) \o chunk

WaitForChunk(size) ==
  /\ Waiting
  /\ arrived < Len(Wire)
  /\ LET upTo == IF arrived + size < Len(Wire) THEN arrived + size ELSE Len(Wire) IN
       /\ arrived' = upTo
       /\ buffer' = Refill(SubSeq(Wire, arrived + 1, upTo))
  /\ position' = 0
  /\ UNCHANGED <<message, current, todo, columns, colMetadata, tokens, status>>

\* Mutant: a suspended parser is not told that there is no more data.
EndBetweenTokens ==
  /\ Waiting /\ current = None
  /\ status' = "ended"
  /\ UNCHANGED <<message, arrived, buffer, position, current, todo, columns, colMetadata, tokens>>

\* The message ends, whether or not all of its data has come: parseTokens returns
\* when all of the buffer is read; an awaiting parser always fails.
EndOfData ==
  /\ Waiting
  /\ status' = IF ~Awaits(current.type) /\ position = Len(buffer) THEN "ended" ELSE "error"
  /\ UNCHANGED <<message, arrived, buffer, position, current, todo, columns, colMetadata, tokens>>

(************************************ parseTokens ********************************)

StartToken ==
  /\ status = "parsing" /\ current = None /\ Enough(1)
  /\ LET type == buffer[position + 1] IN
       /\ current' = Token(type, <<>>)
       /\ todo' = TokenSteps(type, message.old, colMetadata)
  /\ position' = position + 1
  /\ columns' = <<>>
  /\ UNCHANGED <<message, arrived, buffer, colMetadata, tokens, status>>

\* A read that has its bytes calls back. An exception ends the generator.
Read ==
  /\ status = "parsing" /\ todo # <<>> /\ Enough(Head(todo).n)
  /\ LET s == Head(todo)
         bytes == SubSeq(buffer, position + 1, position + s.n)
     IN
       /\ position' = position + s.n
       /\ current' = [current EXCEPT !.body = @ \o bytes]
       /\ todo' = Then(s, bytes, message.old, colMetadata) \o Tail(todo)
       /\ columns' = IF s.to = "column" THEN Append(columns, s.col) ELSE columns
       /\ status' = IF s.to = "throw" THEN "error" ELSE status
       /\ UNCHANGED <<message, arrived, buffer, colMetadata, tokens>>

\* Every read of the token is done: it is yielded.
Yield ==
  /\ status = "parsing" /\ current # None /\ todo = <<>>
  /\ tokens' = IF Swallowed(current) THEN tokens ELSE Append(tokens, current)
  /\ colMetadata' = IF current.type = Type.COLMETADATA THEN columns ELSE colMetadata
  /\ current' = None
  /\ UNCHANGED <<message, arrived, buffer, position, todo, columns, status>>

Next ==
  \/ \E size \in ChunkSizes : WaitForChunk(size)
  \/ EndOfData
  \/ StartToken \/ Read \/ Yield

Spec == Init /\ [][Next]_vars /\ WF_vars(Next)

(*********************************** properties **********************************)

\* However the message is cut into chunks, the parser yields the tokens the server
\* sent, in their order, nothing else and nothing changed; once all of the message
\* has come it has yielded all of them, and it fails exactly when what follows them
\* is nothing a parser accepts.
TokensAsSent ==
  /\ Len(tokens) <= Len(message.sent)
  /\ \A i \in DOMAIN tokens : tokens[i] = message.sent[i]
  /\ arrived = Len(Wire) /\ status # "parsing" =>
       /\ Len(tokens) = Len(message.sent)
       /\ status = (IF message.broken THEN "error" ELSE "ended")

\* When the data ends in a row or in column metadata, wherever in it, the request is
\* not told a complete result: the parser fails. (Between two reads of any other
\* token the parser ends as if the token had never begun.)
CutRowsAreNoticed ==
  status = "ended" /\ arrived < Len(Wire) =>
    \A i \in 1 .. Len(Readings[message]) :
      LET part == Readings[message][i] IN
      part.from < part.to /\ TypeByte(message, part) \in RowTypes =>
        arrived <= part.from \/ arrived >= part.to

\* The parser always comes to an end, and never waits in a token for data that will not come.
AlwaysDecides == <>(status # "parsing")
=================================================================================
