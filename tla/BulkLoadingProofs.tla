---------------------------- MODULE BulkLoadingProofs ----------------------------
(* The bulk load stores all rows or none, whatever breaks, for every number of    *)
(* rows, columns and buffered chunks: the inductive invariant of BulkLoading.     *)
EXTENDS BulkLoading, SequenceTheorems, TLAPS

(*************************** what is sent, at every moment ************************)

Lead(n) == IF n = 0 THEN <<>> ELSE <<Chunk("colmetadata", columns)>>
Sending(n) == Lead(n) \o Image(n)

Chunks == [kind : {"colmetadata", "row", "values", "done"}, n : Nat]
Reasons == {"none", "ECANCEL", "ETIMEOUT", "EVALIDATE", "ESOURCE", "EREQUEST", "EINVALIDSTATE", "LOST"}
Outcomes == Reasons \cup {"ok"}

Sources == [rows : Nat, yielded : Nat, is : {"closed", "open", "ended", "destroyed"}]
Transforms == [chunks : Seq(Chunks), metadata : BOOLEAN, is : {"open", "ended", "EVALIDATE", "ESOURCE", "ECANCEL"}]
Messages == [chunks : Seq(Chunks), is : {"none", "open", "ended", "ignored"}]

TypeOK ==
  /\ phase \in {"new", "inserting", "loading", "over"}
  /\ columns \in Nat /\ declared \in Nat
  /\ canceled \in BOOLEAN /\ stopped \in {"no", "yes", "late"}
  /\ destroying \in BOOLEAN /\ finished \in BOOLEAN /\ waiting \in BOOLEAN
  /\ error \in Reasons
  /\ source \in Sources /\ transform \in Transforms /\ message \in Messages
  /\ table \in Seq(Nat)
  /\ answer \in {"none", "ok", "failed"}
  /\ told \in Seq(Outcomes)

\* Which request runs says what there can be of the rows, the message and the answer.
PhaseInv ==
  /\ Len(told) = IF phase = "over" THEN 1 ELSE 0
  /\ phase = "new" => source.is = "closed"
  /\ source.is = "closed" => phase = "new" /\ source.yielded = 0 /\ transform.is = "open"
  /\ phase # "new" => declared = columns
  /\ phase \in {"new", "inserting"} => message.is = "none" /\ error = "none"
  /\ phase = "loading" => message.is # "none"
  /\ message.is = "none" => message.chunks = <<>>
  /\ finished => message.is \in {"ended", "ignored"}
  /\ answer # "none" => finished

\* The bytes that were piped and those still buffered are together the rows yielded so far.
StreamInv ==
  /\ transform.metadata <=> source.yielded # 0
  /\ transform.is = "open" => message.chunks \o transform.chunks = Sending(source.yielded)
  /\ transform.is = "ended" => /\ source.yielded = source.rows
                               /\ message.chunks \o transform.chunks = Sending(source.rows) \o Done
  /\ message.is = "ended" => message.chunks = Sending(source.rows) \o Done
  /\ message.is = "ignored" /\ error = "none" /\ ~destroying => message.chunks = Sending(source.rows) \o Done

\* Why the second request failed, that a message with broken rows has the ignore bit, and that one
\* with the ignore bit but no error was cancelled.
ErrorInv ==
  /\ phase = "loading" => error \in {"none", "ECANCEL", "ETIMEOUT", "EVALIDATE", "ESOURCE"}
  /\ phase = "loading" /\ error \in {"EVALIDATE", "ESOURCE"} => message.is = "ignored"
  /\ message.is = "ignored" /\ error = "none" => canceled
  /\ destroying => message.is = "ignored"

\* The server stores a message once, whole, and only if it accepts it.
TableInv ==
  /\ table \in {<<>>, Numbers(source.rows)}
  /\ answer = "ok" /\ message.is = "ended" => table = Numbers(source.rows)
  /\ table # <<>> => answer = "ok" /\ message.is = "ended"

\* The callback's outcome against what the server was sent and said.
ToldInv ==
  told # <<>> =>
    /\ told[1] = "ok" => error = "none"
    /\ told[1] = "ok" /\ ~canceled => table = Numbers(source.rows)
    /\ told[1] = "ok" /\ canceled => message.is = "ignored"
    /\ told[1] \in {"EINVALIDSTATE", "EREQUEST", "EVALIDATE", "ESOURCE"} =>
         answer = "failed" \/ message.is \in {"none", "ignored"}

Inv == TypeOK /\ PhaseInv /\ StreamInv /\ ErrorInv /\ TableInv /\ ToldInv

-------------------------------------------------------------------------------
(* The sequences of chunks.                                                      *)

LEMMA ChunkType ==
  ASSUME NEW kind \in {"colmetadata", "row", "values", "done"}, NEW n \in Nat
  PROVE  Chunk(kind, n) \in Chunks
  BY DEF Chunk, Chunks

LEMMA DoneType == Done \in Seq(Chunks) /\ Len(Done) = 1
<1>1. Chunk("done", 0) \in Chunks
  BY ChunkType
<1> QED
  BY <1>1 DEF Done

\* The chunks of one row.
Pair(n) == <<Chunk("row", n), Chunk("values", n)>>

LEMMA PairType ==
  ASSUME NEW n \in Nat
  PROVE  /\ Pair(n) \in Seq(Chunks) /\ Len(Pair(n)) = 2
         /\ Pair(n)[1] = Chunk("row", n) /\ Pair(n)[2] = Chunk("values", n)
<1>1. Chunk("row", n) \in Chunks /\ Chunk("values", n) \in Chunks
  BY ChunkType
<1> QED
  BY <1>1 DEF Pair

LEMMA ImageType ==
  ASSUME NEW n \in Nat
  PROVE  /\ Image(n) \in Seq(Chunks) /\ Len(Image(n)) = 2 * n
         /\ \A i \in 1 .. 2 * n : Image(n)[i] = Chunk(IF i % 2 = 1 THEN "row" ELSE "values", (i + 1) \div 2)
<1>1. ASSUME NEW i \in 1 .. 2 * n
      PROVE  Chunk(IF i % 2 = 1 THEN "row" ELSE "values", (i + 1) \div 2) \in Chunks
  <2>1. (i + 1) \div 2 \in Nat
    OBVIOUS
  <2>2. (IF i % 2 = 1 THEN "row" ELSE "values") \in {"colmetadata", "row", "values", "done"}
    OBVIOUS
  <2> QED
    BY <2>1, <2>2, ChunkType
<1>2. Image(n) \in [1 .. 2 * n -> Chunks]
  BY <1>1 DEF Image
<1>3. 2 * n \in Nat
  OBVIOUS
<1>4. Image(n) \in Seq(Chunks) /\ Len(Image(n)) = 2 * n
  BY <1>2, <1>3
<1> QED
  BY <1>4 DEF Image

\* One row more.
LEMMA ImageNext ==
  ASSUME NEW n \in Nat
  PROVE  Image(n + 1) = Image(n) \o Pair(n + 1)
<1> DEFINE s == Image(n + 1)
           t == Image(n) \o Pair(n + 1)
<1>1. n + 1 \in Nat /\ 2 * (n + 1) = 2 * n + 2
  OBVIOUS
<1>2. /\ s \in Seq(Chunks) /\ Len(s) = 2 * n + 2
      /\ \A i \in 1 .. 2 * n + 2 : s[i] = Chunk(IF i % 2 = 1 THEN "row" ELSE "values", (i + 1) \div 2)
  BY <1>1, ImageType
<1>3. /\ t \in Seq(Chunks) /\ Len(t) = 2 * n + 2
      /\ \A i \in 1 .. 2 * n + 2 : t[i] = IF i <= 2 * n THEN Image(n)[i] ELSE Pair(n + 1)[i - 2 * n]
  <2>1. Image(n) \in Seq(Chunks) /\ Len(Image(n)) = 2 * n
    BY ImageType
  <2>2. Pair(n + 1) \in Seq(Chunks) /\ Len(Pair(n + 1)) = 2
    BY <1>1, PairType
  <2>3. /\ t \in Seq(Chunks) /\ Len(t) = Len(Image(n)) + Len(Pair(n + 1))
        /\ \A i \in 1 .. Len(Image(n)) + Len(Pair(n + 1)) :
             t[i] = IF i <= Len(Image(n)) THEN Image(n)[i] ELSE Pair(n + 1)[i - Len(Image(n))]
    BY <2>1, <2>2, ConcatProperties
  <2> HIDE DEF t
  <2> QED
    BY <2>1, <2>2, <2>3
<1>4. ASSUME NEW i \in 1 .. 2 * n + 2
      PROVE  s[i] = t[i]
  <2>1. CASE i <= 2 * n
    <3>1. i \in 1 .. 2 * n
      BY <2>1
    <3>2. t[i] = Image(n)[i]
      BY <1>3, <2>1
    <3> HIDE DEF s, t
    <3> QED
      BY <1>2, <3>1, <3>2, ImageType
  <2>2. CASE i = 2 * n + 1
    <3>1. i % 2 = 1 /\ (i + 1) \div 2 = n + 1 /\ i - 2 * n = 1 /\ ~(i <= 2 * n)
      BY <2>2
    <3> HIDE DEF s, t
    <3>2. s[i] = Chunk("row", n + 1)
      BY <1>2, <3>1
    <3>3. t[i] = Chunk("row", n + 1)
      BY <1>1, <1>3, <3>1, PairType
    <3> QED
      BY <3>2, <3>3
  <2>3. CASE i = 2 * n + 2
    <3>1. i % 2 = 0 /\ (i + 1) \div 2 = n + 1 /\ i - 2 * n = 2 /\ ~(i <= 2 * n)
      BY <2>3
    <3> HIDE DEF s, t
    <3>2. s[i] = Chunk("values", n + 1)
      BY <1>2, <3>1
    <3>3. t[i] = Chunk("values", n + 1)
      BY <1>1, <1>3, <3>1, PairType
    <3> QED
      BY <3>2, <3>3
  <2>4. i <= 2 * n \/ i = 2 * n + 1 \/ i = 2 * n + 2
    OBVIOUS
  <2> QED
    BY <2>1, <2>2, <2>3, <2>4, Zenon
<1> HIDE DEF s, t
<1>5. s = t
  BY <1>2, <1>3, <1>4, SeqEqual
<1> QED
  BY <1>5 DEF s, t

LEMMA LeadType ==
  ASSUME TypeOK, NEW n \in Nat
  PROVE  /\ Lead(n) \in Seq(Chunks) /\ Len(Lead(n)) = IF n = 0 THEN 0 ELSE 1
         /\ Sending(n) \in Seq(Chunks) /\ Len(Sending(n)) = IF n = 0 THEN 0 ELSE 2 * n + 1
<1>1. Chunk("colmetadata", columns) \in Chunks
  BY ChunkType DEF TypeOK
<1>2. Lead(n) \in Seq(Chunks) /\ Len(Lead(n)) = IF n = 0 THEN 0 ELSE 1
  BY <1>1 DEF Lead
<1>3. Image(n) \in Seq(Chunks) /\ Len(Image(n)) = 2 * n
  BY ImageType
<1>4. n = 0 => 2 * n = 0
  OBVIOUS
<1>5. Sending(n) \in Seq(Chunks) /\ Len(Sending(n)) = Len(Lead(n)) + Len(Image(n))
  BY <1>2, <1>3, ConcatProperties DEF Sending
<1> HIDE DEF Sending
<1> QED
  BY <1>2, <1>3, <1>4, <1>5

\* What a row adds to what is sent.
LEMMA SendingNext ==
  ASSUME TypeOK, StreamInv
  PROVE  /\ Metadata \o Pair(source.yielded + 1) \in Seq(Chunks)
         /\ Sending(source.yielded) \o (Metadata \o Pair(source.yielded + 1)) = Sending(source.yielded + 1)
<1> DEFINE n == source.yielded
<1>1. n \in Nat /\ n + 1 \in Nat
  BY DEF TypeOK, Sources
<1>2. Chunk("colmetadata", columns) \in Chunks
  BY ChunkType DEF TypeOK
<1> DEFINE m == <<Chunk("colmetadata", columns)>>
<1>3. m \in Seq(Chunks)
  BY <1>2
<1>4. Sending(n + 1) = m \o Image(n + 1)
  BY <1>1 DEF Sending, Lead
<1>5. /\ Image(n) \in Seq(Chunks) /\ Pair(n + 1) \in Seq(Chunks)
      /\ Image(n + 1) = Image(n) \o Pair(n + 1)
  BY <1>1, ImageType, PairType, ImageNext
<1> HIDE DEF m
<1>6. CASE n = 0
  <2>1. Metadata = m
    BY <1>6 DEF Metadata, StreamInv, m
  <2>2. Len(Image(n)) = 0
    BY <1>1, <1>6, ImageType
  <2>3. Image(n) = <<>>
    BY <1>5, <2>2, EmptySeq
  <2>4. Sending(n) = <<>>
    BY <1>6, <2>3 DEF Sending, Lead
  <2>5. m \o Pair(n + 1) \in Seq(Chunks) /\ Image(n + 1) = Pair(n + 1)
    BY <1>3, <1>5, <2>3, ConcatProperties, ConcatEmptySeq
  <2> QED
    BY <1>4, <2>1, <2>4, <2>5, ConcatEmptySeq
<1>7. CASE n # 0
  <2>1. Metadata = <<>>
    BY <1>7 DEF Metadata, StreamInv
  <2>2. Sending(n) = m \o Image(n)
    BY <1>7 DEF Sending, Lead, m
  <2>3. Metadata \o Pair(n + 1) = Pair(n + 1)
    BY <1>5, <2>1, ConcatEmptySeq
  <2>4. (m \o Image(n)) \o Pair(n + 1) = m \o (Image(n) \o Pair(n + 1))
    BY <1>3, <1>5, ConcatAssociative
  <2> QED
    BY <1>4, <1>5, <2>2, <2>3, <2>4
<1> QED
  BY <1>6, <1>7

\* Piping moves a chunk and changes nothing else.
LEMMA PipingKeepsTheWhole ==
  ASSUME NEW S, NEW m \in Seq(S), NEW t \in Seq(S), t # <<>>
  PROVE  /\ Append(m, Head(t)) \in Seq(S) /\ Tail(t) \in Seq(S)
         /\ Append(m, Head(t)) \o Tail(t) = m \o t
<1>1. Head(t) \in S /\ Tail(t) \in Seq(S) /\ Len(Tail(t)) = Len(t) - 1
  BY HeadTailProperties
<1>2. Append(m, Head(t)) = m \o <<Head(t)>> /\ <<Head(t)>> \in Seq(S)
  BY <1>1, AppendIsConcat
<1>3. <<Head(t)>> \o Tail(t) = t
  OBVIOUS
<1>4. (m \o <<Head(t)>>) \o Tail(t) = m \o (<<Head(t)>> \o Tail(t))
  BY <1>1, <1>2, ConcatAssociative
<1> QED
  BY <1>1, <1>2, <1>3, <1>4, AppendProperties

LEMMA Regrouping ==
  /\ \A s, t, u \in Seq(Chunks) : (s \o t) \o u = s \o (t \o u)
  /\ \A s, t \in Seq(Chunks) : t # <<>> => Append(s, Head(t)) \o Tail(t) = s \o t
  BY ConcatAssociative, PipingKeepsTheWhole

\* Messages of different numbers of rows differ.
LEMMA PayloadsDiffer ==
  ASSUME TypeOK, declared = columns, NEW m \in Nat, NEW n \in Nat
  PROVE  /\ Payload(n) = Sending(n) \o Done
         /\ Payload(m) = Payload(n) => m = n
<1>1. \A k \in Nat : Payload(k) = Sending(k) \o Done
  BY DEF Payload, Sending, Lead
<1>2. ASSUME NEW k \in Nat
      PROVE  Len(Payload(k)) = IF k = 0 THEN 1 ELSE 2 * k + 2
  <2>1. Sending(k) \in Seq(Chunks) /\ Len(Sending(k)) = IF k = 0 THEN 0 ELSE 2 * k + 1
    BY LeadType
  <2>2. Len(Sending(k) \o Done) = Len(Sending(k)) + Len(Done)
    BY <2>1, DoneType, ConcatProperties
  <2>3. Len(Payload(k)) = Len(Sending(k)) + 1
    BY <1>1, <2>2, DoneType
  <2> QED
    BY <2>1, <2>3
<1>3. Payload(m) = Payload(n) => Len(Payload(m)) = Len(Payload(n))
  OBVIOUS
<1>4. /\ Len(Payload(m)) = IF m = 0 THEN 1 ELSE 2 * m + 2
      /\ Len(Payload(n)) = IF n = 0 THEN 1 ELSE 2 * n + 2
  BY <1>2
<1>5. Payload(m) = Payload(n) => m = n
  BY <1>3, <1>4
<1> QED
  BY <1>1, <1>5

-------------------------------------------------------------------------------
(* Every step keeps the types.                                                   *)

LEMMA TellType ==
  ASSUME TypeOK, NEW outcome \in Outcomes, Tell(outcome)
  PROVE  phase' = "over" /\ told' \in Seq(Outcomes) /\ Len(told') = Len(told) + 1
                         /\ (told = <<>> => told'[1] = outcome)
  BY AppendProperties DEF Tell, TypeOK

LEMMA NumbersType == ASSUME NEW n \in Nat PROVE Numbers(n) \in Seq(Nat) /\ Len(Numbers(n)) = n
<1>1. Numbers(n) \in [1 .. n -> Nat]
  BY DEF Numbers
<1> HIDE DEF Numbers
<1> QED
  BY <1>1

LEMMA DestroyType ==
  ASSUME TypeOK, NEW err \in {"EVALIDATE", "ESOURCE", "ECANCEL"}, Destroy(err)
  PROVE  /\ transform' = [chunks |-> <<>>, metadata |-> transform.metadata, is |-> err]
         /\ transform' \in Transforms
         /\ source' = [rows |-> source.rows, yielded |-> source.yielded, is |-> "destroyed"]
         /\ source' \in Sources
<1>1. <<>> \in Seq(Chunks)
  OBVIOUS
<1> QED
  BY <1>1 DEF TypeOK, Destroy, Sources, Transforms

LEMMA TypesInit == Init => TypeOK
<1> SUFFICES ASSUME Init PROVE TypeOK
  OBVIOUS
<1>1. /\ <<>> \in Seq(Chunks) /\ <<>> \in Seq(Nat) /\ <<>> \in Seq(Outcomes)
  OBVIOUS
<1>2. source \in Sources
  BY BulkLoadingAssumption DEF Init, Sources
<1>3. transform \in Transforms
  BY <1>1 DEF Init, Transforms
<1>4. message \in Messages
  BY <1>1 DEF Init, Messages
<1> QED
  BY <1>1, <1>2, <1>3, <1>4 DEF Init, TypeOK, Reasons, Outcomes

LEMMA TypesNext ==
  ASSUME TypeOK, StreamInv, [Next]_vars
  PROVE  TypeOK'
<1> USE DEF TypeOK, stream, Reasons
<1>1. CASE InsertBulkFails
  <2>1. PICK e \in {"ECANCEL", "ETIMEOUT", "EREQUEST", "LOST"} : error' = e /\ Tell(e)
    BY <1>1 DEF InsertBulkFails, InsertErrors
  <2>2. e \in Outcomes
    BY DEF Outcomes
  <2> QED
    BY <1>1, <2>1, <2>2, TellType DEF InsertBulkFails
<1>2. CASE InsertBulkDone
  <2>1. "ECANCEL" \in Outcomes
    BY DEF Outcomes
  <2>0. message' \in Messages
    BY <1>2 DEF InsertBulkDone, Messages
  <2>2. CASE Tell("ECANCEL")
    BY <2>0, <1>2, <2>1, <2>2, TellType DEF InsertBulkDone
  <2>3. CASE ~Tell("ECANCEL")
    BY <1>2, <2>0, <2>3 DEF InsertBulkDone
  <2> QED
    BY <2>2, <2>3
<1>3. CASE Row
  <2>1. CASE Destroy("EVALIDATE")
    BY <1>3, <2>1, DestroyType DEF Row
  <2>2. CASE /\ Push(Metadata \o Pair(source.yielded + 1))
             /\ source' = [source EXCEPT !.yielded = @ + 1]
    <3>1. transform.chunks \o (Metadata \o Pair(source.yielded + 1)) \in Seq(Chunks)
      BY SendingNext, ConcatProperties DEF Transforms
    <3>2. transform' \in Transforms
      BY <2>2, <3>1 DEF Push, Transforms
    <3>3. source.yielded + 1 \in Nat
      BY DEF Sources
    <3>4. source' \in Sources
      BY <2>2, <3>3 DEF Sources
    <3> QED
      BY <1>3, <2>2, <3>2, <3>4 DEF Row
  <2> QED
    BY <1>3, <2>1, <2>2 DEF Row, Pair
<1>4. CASE RowsEnd
  <2>1. transform.chunks \o Done \in Seq(Chunks)
    BY DoneType, ConcatProperties DEF Transforms
  <2>2. source' \in Sources
    BY <1>4 DEF RowsEnd, Sources
  <2>3. transform' \in Transforms
    BY <1>4, <2>1 DEF RowsEnd, Transforms
  <2> QED
    BY <1>4, <2>2, <2>3 DEF RowsEnd
<1>5. CASE Pipe
  <2>1. Append(message.chunks, Head(transform.chunks)) \in Seq(Chunks) /\ Tail(transform.chunks) \in Seq(Chunks)
    BY <1>5, PipingKeepsTheWhole DEF Pipe, Messages, Transforms
  <2>2. transform' \in Transforms
    BY <1>5, <2>1 DEF Pipe, Transforms
  <2>3. message' \in Messages
    BY <1>5, <2>1 DEF Pipe, Messages
  <2> QED
    BY <1>5, <2>2, <2>3 DEF Pipe
<1>6. CASE PipeEnds
  BY <1>6 DEF PipeEnds, Messages
<1>7. CASE PayloadError
  <2>1. error' \in Reasons
    BY <1>7 DEF PayloadError, Failed, Transforms
  <2>2. message' \in Messages
    BY <1>7 DEF PayloadError, Messages
  <2> QED
    BY <1>7, <2>1, <2>2 DEF PayloadError
<1>8. CASE MessageFinished
  BY <1>8 DEF MessageFinished
<1>9. CASE Answered
  <2>1. error' \in Reasons
    BY <1>9 DEF Answered
  <2>2. PICK o \in Outcomes : Tell(o)
    BY <1>9, <2>1 DEF Answered, Outcomes
  <2> QED
    BY <1>9, <2>1, <2>2, TellType DEF Answered
<1>10. CASE AttentionAck
  <2>1. PICK o \in Outcomes : Tell(o)
    BY <1>10 DEF AttentionAck, Outcomes
  <2> QED
    BY <1>10, <2>1, TellType DEF AttentionAck
<1>11. CASE Stores
  <2>1. table' \in Seq(Nat)
    BY <1>11, NumbersType DEF Stores
  <2>2. answer' \in {"none", "ok", "failed"} /\ waiting' \in BOOLEAN
    BY <1>11 DEF Stores
  <2> QED
    BY <1>11, <2>1, <2>2 DEF Stores
<1>12. CASE AddColumn
  BY <1>12 DEF AddColumn
<1>13. CASE ExecBulkLoad
  <2>0. source' \in Sources
    BY <1>13 DEF ExecBulkLoad, Sources
  <2>1. "EINVALIDSTATE" \in Outcomes
    BY DEF Outcomes
  <2>2. CASE Tell("EINVALIDSTATE") /\ error' = "EINVALIDSTATE"
    BY <1>13, <2>0, <2>1, <2>2, TellType DEF ExecBulkLoad
  <2>3. CASE phase' = "inserting" /\ UNCHANGED <<error, told>>
    BY <1>13, <2>0, <2>3 DEF ExecBulkLoad
  <2> QED
    BY <1>13, <2>2, <2>3 DEF ExecBulkLoad
<1>14. CASE Cancel \/ StopInsert
  <2>1. stopped' \in {"no", "yes", "late"}
    BY <1>14 DEF Cancel, StopInsert, Stop
  <2> QED
    BY <1>14, <2>1 DEF Cancel, StopInsert
<1>15. CASE RowsFail
  BY <1>15, DestroyType DEF RowsFail
<1>16. CASE Lost
  <2>1. "LOST" \in Outcomes
    BY DEF Outcomes
  <2> QED
    BY <1>16, <2>1, TellType DEF Lost
<1>17. ASSUME NEW t \in BOOLEAN, CancelSending(t)
       PROVE  TypeOK'
  BY <1>17 DEF CancelSending, Messages
<1>18. ASSUME NEW t \in BOOLEAN, CancelSent(t)
       PROVE  TypeOK'
  BY <1>18 DEF CancelSent
<1>19. CASE UNCHANGED vars
  BY <1>19 DEF vars
<1>20. CASE TimeoutOfCanceled
  BY <1>20 DEF TimeoutOfCanceled
<1>21. CASE PayloadDestroyed
  <2>1. PICK e \in {"ECANCEL"} \cup (IF Failed THEN {transform.is} ELSE {}) :
          error' = IF error = "none" THEN e ELSE error
    BY <1>21 DEF PayloadDestroyed
  <2>2. e \in Reasons
    BY <2>1 DEF Failed, Transforms
  <2>3. error' \in Reasons
    BY <2>1, <2>2
  <2>4. CASE Failed /\ UNCHANGED stream
    BY <1>21, <2>3, <2>4 DEF PayloadDestroyed
  <2>5. CASE Destroy("ECANCEL")
    BY <1>21, <2>3, <2>5, DestroyType DEF PayloadDestroyed
  <2> QED
    BY <1>21, <2>4, <2>5 DEF PayloadDestroyed
<1> HIDE DEF TypeOK, stream, Reasons
<1> QED
  BY <1>1, <1>2, <1>3, <1>4, <1>5, <1>6, <1>7, <1>8, <1>9, <1>10, <1>11, <1>12, <1>13, <1>14,
     <1>15, <1>16, <1>17, <1>18, <1>19, <1>20, <1>21 DEF Next, Progress

-------------------------------------------------------------------------------
(* Every step keeps the other parts.                                             *)

\* The callback is called when it has not been.
LEMMA FirstCall ==
  ASSUME TypeOK, PhaseInv, phase # "over", NEW outcome \in Outcomes, Tell(outcome)
  PROVE  phase' = "over" /\ told' # <<>> /\ Len(told') = 1 /\ told'[1] = outcome
<1>1. told \in Seq(Outcomes) /\ Len(told) = 0
  BY DEF TypeOK, PhaseInv
<1>2. told = <<>>
  BY <1>1, EmptySeq
<1>3. Len(told') = 1 /\ told' \in Seq(Outcomes)
  BY <1>1, TellType
<1>4. told' # <<>>
  BY <1>2, <1>3, AppendProperties DEF Tell
<1> QED
  BY <1>2, <1>3, <1>4, TellType

\* Who calls it, and with what.
LEMMA WhoTells ==
  ASSUME TypeOK, PhaseInv,
         \/ InsertBulkFails \/ Answered \/ AttentionAck \/ Lost
         \/ InsertBulkDone /\ Tell("ECANCEL")
         \/ ExecBulkLoad /\ Tell("EINVALIDSTATE")
  PROVE  /\ phase # "over" /\ phase' = "over" /\ Len(told') = 1 /\ told' # <<>>
         /\ InsertBulkFails => told'[1] \in {"ECANCEL", "ETIMEOUT", "EREQUEST", "LOST"}
         /\ Answered => told'[1] = IF error' = "none" THEN "ok" ELSE error'
         /\ AttentionAck => told'[1] \in {"ECANCEL", "ETIMEOUT"}
         /\ Lost => told'[1] = "LOST"
         /\ InsertBulkDone => told'[1] = "ECANCEL"
         /\ ExecBulkLoad => told'[1] = "EINVALIDSTATE"
<1>0. {"ECANCEL", "ETIMEOUT", "EREQUEST", "LOST", "EINVALIDSTATE", "ok"} \subseteq Outcomes
  BY DEF Outcomes, Reasons
<1>1. ASSUME InsertBulkFails
      PROVE  \E e \in {"ECANCEL", "ETIMEOUT", "EREQUEST", "LOST"} : Tell(e) /\ phase = "inserting"
  BY <1>1 DEF InsertBulkFails, InsertErrors, TypeOK
<1>2. ASSUME Answered
      PROVE  /\ phase = "loading" /\ Tell(IF error' = "none" THEN "ok" ELSE error')
             /\ (IF error' = "none" THEN "ok" ELSE error') \in Outcomes
  BY <1>2 DEF Answered, TypeOK, Outcomes, Reasons
<1>3. ASSUME AttentionAck
      PROVE  \E e \in {"ECANCEL", "ETIMEOUT"} : Tell(e) /\ phase = "loading"
  BY <1>3 DEF AttentionAck
<1>4. ASSUME Lost
      PROVE  phase = "loading" /\ Tell("LOST")
  BY <1>4 DEF Lost
<1>5. ASSUME InsertBulkDone
      PROVE  phase = "inserting"
  BY <1>5 DEF InsertBulkDone
<1>6. ASSUME ExecBulkLoad
      PROVE  phase = "new"
  BY <1>6 DEF ExecBulkLoad
<1>7. \E e \in Outcomes : Tell(e) /\ phase # "over"
  BY <1>0, <1>1, <1>2, <1>3, <1>4, <1>5, <1>6
<1>8. /\ phase # "over" /\ phase' = "over" /\ Len(told') = 1 /\ told' # <<>>
      /\ \A e \in Outcomes : Tell(e) => told'[1] = e
  BY <1>7, FirstCall
<1>9. InsertBulkFails => told'[1] \in {"ECANCEL", "ETIMEOUT", "EREQUEST", "LOST"}
  BY <1>0, <1>1, <1>8
<1>10. Answered => told'[1] = IF error' = "none" THEN "ok" ELSE error'
  BY <1>2, <1>8
<1>11. AttentionAck => told'[1] \in {"ECANCEL", "ETIMEOUT"}
  BY <1>0, <1>3, <1>8
<1>12. Lost => told'[1] = "LOST"
  BY <1>0, <1>4, <1>8
<1>13. InsertBulkDone => told'[1] = "ECANCEL"
  BY <1>0, <1>5, <1>8 DEF InsertBulkDone
<1>14. ExecBulkLoad => told'[1] = "EINVALIDSTATE"
  BY <1>0, <1>6, <1>8 DEF ExecBulkLoad
<1> QED
  BY <1>8, <1>9, <1>10, <1>11, <1>12, <1>13, <1>14

\* Who else acts, and the callback hears nothing.
Quiet ==
  \/ Row \/ RowsEnd \/ Pipe \/ PipeEnds \/ PayloadError \/ PayloadDestroyed \/ MessageFinished \/ Stores
  \/ AddColumn \/ Cancel \/ StopInsert \/ RowsFail \/ TimeoutOfCanceled
  \/ \E t \in BOOLEAN : CancelSending(t) \/ CancelSent(t)
  \/ UNCHANGED vars

LEMMA WhoIsQuiet ==
  ASSUME Quiet
  PROVE  UNCHANGED <<phase, told>>
  BY DEF Quiet, Row, RowsEnd, Pipe, PipeEnds, PayloadError, PayloadDestroyed, MessageFinished, Stores, AddColumn,
         Cancel, StopInsert, RowsFail, TimeoutOfCanceled, CancelSending, CancelSent, vars

LEMMA StepsAre ==
  ASSUME [Next]_vars
  PROVE  \/ Quiet
         \/ InsertBulkFails \/ Answered \/ AttentionAck \/ Lost
         \/ InsertBulkDone /\ Tell("ECANCEL")
         \/ ExecBulkLoad /\ Tell("EINVALIDSTATE")
         \/ InsertBulkDone /\ ~canceled /\ phase' = "loading" /\ UNCHANGED told
         \/ ExecBulkLoad /\ phase' = "inserting" /\ UNCHANGED <<error, told>>
<1>1. InsertBulkDone => \/ Tell("ECANCEL")
                        \/ ~canceled /\ phase' = "loading" /\ UNCHANGED told
  BY DEF InsertBulkDone
<1>2. ExecBulkLoad => \/ Tell("EINVALIDSTATE")
                      \/ phase' = "inserting" /\ UNCHANGED <<error, told>>
  BY DEF ExecBulkLoad
<1> QED
  BY <1>1, <1>2 DEF Next, Progress, Quiet

LEMMA PhasesNext ==
  ASSUME TypeOK, PhaseInv, [Next]_vars
  PROVE  PhaseInv'
<1> USE DEF PhaseInv
<1>0. Len(told)' = Len(told')
  OBVIOUS
<1>1. CASE Quiet
  <2>0. UNCHANGED <<phase, told>>
    BY <1>1, WhoIsQuiet
  <2>1. CASE Row
    <3>1. source.is = "open" /\ source'.is \in {"open", "destroyed"}
          /\ UNCHANGED <<columns, declared, error, message, finished, answer>>
      BY <2>1 DEF Row, Destroy, Push, TypeOK, Sources
    <3> QED
      BY <2>0, <3>1
  <2>2. CASE RowsEnd
    BY <2>0, <2>2 DEF RowsEnd, TypeOK, Sources
  <2>3. CASE Pipe
    BY <2>0, <2>3 DEF Pipe, TypeOK, Messages, Transforms
  <2>4. CASE PipeEnds \/ PayloadError
    BY <2>0, <2>4 DEF PipeEnds, PayloadError, TypeOK, Messages, stream
  <2>5. CASE MessageFinished
    BY <2>0, <2>5 DEF MessageFinished, stream
  <2>6. CASE Stores
    BY <2>0, <2>6 DEF Stores, stream
  <2>7. CASE AddColumn \/ Cancel \/ StopInsert
    BY <2>0, <2>7 DEF AddColumn, Cancel, StopInsert, stream
  <2>8. CASE RowsFail
    BY <2>0, <2>8, DestroyType DEF RowsFail
  <2>9. ASSUME NEW t \in BOOLEAN, CancelSending(t)
        PROVE  PhaseInv'
    <3>1. /\ phase = "loading" /\ message'.is = "ignored" /\ ~finished
          /\ UNCHANGED <<columns, declared, source, transform, finished, answer>>
      BY <2>9 DEF CancelSending, TypeOK, Messages, stream
    <3> QED
      BY <2>0, <3>1
  <2>10. ASSUME NEW t \in BOOLEAN, CancelSent(t)
         PROVE  PhaseInv'
    BY <2>0, <2>10 DEF CancelSent, stream
  <2>11. CASE UNCHANGED vars
    BY <2>11 DEF vars, stream
  <2>12. CASE PayloadDestroyed
    <3>1. /\ phase = "loading" /\ source'.is \in {"destroyed", source.is}
          /\ UNCHANGED <<columns, declared, message, finished, answer>>
      BY <2>12, DestroyType DEF PayloadDestroyed, stream
    <3>2. source.is # "closed" /\ source'.is # "closed"
      BY <3>1
    <3> QED
      BY <2>0, <3>1, <3>2
  <2>13. CASE TimeoutOfCanceled
    BY <2>0, <2>13 DEF TimeoutOfCanceled, stream
  <2> QED
    BY <1>1, <2>1, <2>2, <2>3, <2>4, <2>5, <2>6, <2>7, <2>8, <2>9, <2>10, <2>11, <2>12, <2>13 DEF Quiet
<1>2. CASE InsertBulkFails
  BY <1>2, WhoTells DEF InsertBulkFails, stream
<1>3. CASE Answered \/ AttentionAck \/ Lost
  BY <1>3, WhoTells DEF Answered, AttentionAck, Lost, stream
<1>4. CASE InsertBulkDone /\ Tell("ECANCEL")
  <2>1. UNCHANGED message
    BY <1>4 DEF InsertBulkDone, Tell
  <2> QED
    BY <1>4, <2>1, WhoTells DEF InsertBulkDone, stream
<1>5. CASE ExecBulkLoad /\ Tell("EINVALIDSTATE")
  BY <1>5, WhoTells DEF ExecBulkLoad, TypeOK, Sources
<1>6. CASE InsertBulkDone /\ ~canceled /\ phase' = "loading" /\ UNCHANGED told
  <2>1. message' = [message EXCEPT !.is = "open"] /\ message.is = "none" /\ phase = "inserting"
    BY <1>6 DEF InsertBulkDone, Tell
  <2> QED
    BY <1>6, <2>1 DEF InsertBulkDone, stream, TypeOK, Messages
<1>7. CASE ExecBulkLoad /\ phase' = "inserting" /\ UNCHANGED <<error, told>>
  BY <1>7 DEF ExecBulkLoad, TypeOK, Sources
<1> QED
  BY <1>1, <1>2, <1>3, <1>4, <1>5, <1>6, <1>7, StepsAre

\* A step that touches no stream, and no column once rows have been sent.
LEMMA StreamsKept ==
  ASSUME TypeOK, StreamInv, UNCHANGED <<source, transform>>,
         message'.chunks = message.chunks, message'.is = "ended" => message.is = "ended",
         (message.is = "ignored" /\ error = "none" /\ ~destroying)' =>
           message.is = "ended" \/ (message.is = "ignored" /\ error = "none" /\ ~destroying),
         UNCHANGED columns \/ (source.yielded = 0 /\ transform.is = "open" /\ message.is \notin {"ended", "ignored"})
  PROVE  StreamInv'
<1>1. CASE UNCHANGED columns
  BY <1>1 DEF StreamInv, Sending, Lead
<1>2. CASE source.yielded = 0 /\ transform.is = "open" /\ message.is \notin {"ended", "ignored"}
  <2>1. Sending(0)' = Sending(0)
    BY DEF Sending, Lead
  <2> QED
    BY <1>2, <2>1 DEF StreamInv
<1> QED
  BY <1>1, <1>2

\* A step that destroys the streams.
LEMMA StreamsDestroyed ==
  ASSUME TypeOK, StreamInv, NEW err \in {"EVALIDATE", "ESOURCE", "ECANCEL"}, Destroy(err),
         UNCHANGED columns, message'.chunks = message.chunks, message'.is = "ended" => message.is = "ended",
         (message.is = "ignored" /\ error = "none" /\ ~destroying)' =>
           message.is = "ignored" /\ error = "none" /\ ~destroying
  PROVE  StreamInv'
<1>1. /\ source'.rows = source.rows /\ source'.yielded = source.yielded
      /\ transform'.metadata = transform.metadata /\ transform'.is \notin {"open", "ended"}
  BY DestroyType
<1>2. Sending(source.rows)' = Sending(source.rows) /\ Done' = Done
  BY <1>1 DEF Sending, Lead
<1> QED
  BY <1>1, <1>2 DEF StreamInv

LEMMA StreamsNext ==
  ASSUME TypeOK, PhaseInv, StreamInv, ErrorInv, [Next]_vars
  PROVE  StreamInv'
<1> USE DEF stream
<1>1. CASE Row
  <2>1. CASE Destroy("EVALIDATE")
    BY <1>1, <2>1, StreamsDestroyed DEF Row
  <2>2. CASE /\ Push(Metadata \o Pair(source.yielded + 1))
             /\ source' = [source EXCEPT !.yielded = source.yielded + 1]
    <3> DEFINE n == source.yielded
    <3>1. /\ transform'.chunks = transform.chunks \o (Metadata \o Pair(n + 1)) /\ transform'.metadata = TRUE
          /\ transform'.is = "open" /\ transform.is = "open"
      BY <1>1, <2>2 DEF Row, Push, TypeOK, Transforms
    <3>2. source'.yielded = n + 1 /\ source'.rows = source.rows /\ n \in Nat /\ n + 1 # 0
      BY <2>2 DEF TypeOK, Sources
    <3>3. Metadata \o Pair(n + 1) \in Seq(Chunks) /\ Sending(n) \o (Metadata \o Pair(n + 1)) = Sending(n + 1)
      BY SendingNext
    <3>4. message.chunks \in Seq(Chunks) /\ transform.chunks \in Seq(Chunks)
      BY DEF TypeOK, Messages, Transforms
    <3>5. message.chunks \o transform'.chunks = (message.chunks \o transform.chunks) \o (Metadata \o Pair(n + 1))
      <4>1. (message.chunks \o transform.chunks) \o (Metadata \o Pair(n + 1)) =
              message.chunks \o (transform.chunks \o (Metadata \o Pair(n + 1)))
        BY <3>3, <3>4, Regrouping, Zenon
      <4> QED
        BY <3>1, <4>1
    <3>6. message.chunks \o transform.chunks = Sending(n)
      BY <3>1 DEF StreamInv
    <3>7. message.chunks \o transform'.chunks = Sending(n + 1)
      BY <3>3, <3>5, <3>6
    <3>8. message' = message /\ columns' = columns /\ error' = error /\ destroying' = destroying
      BY <1>1 DEF Row
    <3>9. (message.chunks \o transform.chunks)' = Sending(source.yielded)'
      BY <3>2, <3>7, <3>8 DEF Sending, Lead
    <3>10. Sending(source.rows)' = Sending(source.rows) /\ Done' = Done
      BY <3>2, <3>8 DEF Sending, Lead
    <3> QED
      BY <3>1, <3>2, <3>8, <3>9, <3>10 DEF StreamInv
  <2> QED
    BY <1>1, <2>1, <2>2 DEF Row, Pair
<1>2. CASE RowsEnd
  <2>1. /\ transform'.chunks = transform.chunks \o Done /\ transform'.metadata = transform.metadata
        /\ transform'.is = "ended" /\ transform.is = "open"
        /\ source'.yielded = source.yielded /\ source'.rows = source.rows /\ source.yielded = source.rows
        /\ UNCHANGED <<columns, message, error, destroying>>
    BY <1>2 DEF RowsEnd, TypeOK, Transforms, Sources
  <2>2. message.chunks \o transform.chunks = Sending(source.rows)
    BY <2>1 DEF StreamInv
  <2>3. message.chunks \in Seq(Chunks) /\ transform.chunks \in Seq(Chunks)
    BY DEF TypeOK, Messages, Transforms
  <2>4. message.chunks \o (transform.chunks \o Done) = (message.chunks \o transform.chunks) \o Done
    BY <2>3, DoneType, Regrouping, Zenon
  <2>5. Sending(source.rows)' = Sending(source.rows) /\ Done' = Done
    BY <2>1 DEF Sending, Lead
  <2> HIDE DEF stream
  <2> QED
    BY <2>1, <2>2, <2>4, <2>5 DEF StreamInv
<1>3. CASE Pipe
  <2>1. /\ message' = [message EXCEPT !.chunks = Append(@, Head(transform.chunks))]
        /\ transform' = [transform EXCEPT !.chunks = Tail(@)]
        /\ transform.chunks # <<>> /\ message.is = "open" /\ UNCHANGED <<columns, source>>
    BY <1>3 DEF Pipe
  <2>2. message.chunks \in Seq(Chunks) /\ transform.chunks \in Seq(Chunks)
    BY DEF TypeOK, Messages, Transforms
  <2>3. /\ message'.chunks = Append(message.chunks, Head(transform.chunks)) /\ message'.is = "open"
        /\ transform'.chunks = Tail(transform.chunks) /\ transform'.is = transform.is
        /\ transform'.metadata = transform.metadata
    BY <2>1 DEF TypeOK, Messages, Transforms
  <2>4. message'.chunks \o transform'.chunks = message.chunks \o transform.chunks
    BY <2>1, <2>2, <2>3, Regrouping, Zenon
  <2>5. /\ Sending(source.rows)' = Sending(source.rows) /\ Done' = Done
        /\ Sending(source.yielded)' = Sending(source.yielded)
    BY <2>1 DEF Sending, Lead
  <2> QED
    BY <2>1, <2>3, <2>4, <2>5 DEF StreamInv
<1>4. CASE PipeEnds
  <2>1. /\ message'.chunks = message.chunks /\ message'.is = "ended" /\ UNCHANGED <<columns, source, transform>>
        /\ transform.is = "ended" /\ transform.chunks = <<>>
    BY <1>4 DEF PipeEnds, TypeOK, Messages
  <2>2. message.chunks \in Seq(Chunks)
    BY DEF TypeOK, Messages
  <2>3. message.chunks \o <<>> = message.chunks
    BY <2>2, ConcatEmptySeq
  <2>4. message.chunks = Sending(source.rows) \o Done
    BY <2>1, <2>3 DEF StreamInv
  <2>5. /\ Sending(source.rows)' = Sending(source.rows) /\ Done' = Done
        /\ Sending(source.yielded)' = Sending(source.yielded)
    BY <2>1 DEF Sending, Lead
  <2> QED
    BY <2>1, <2>3, <2>4, <2>5 DEF StreamInv
<1>5. CASE AddColumn
  <2>1. source.yielded = 0 /\ transform.is = "open" /\ message.is = "none"
    BY <1>5 DEF AddColumn, PhaseInv
  <2> QED
    BY <1>5, <2>1, StreamsKept DEF AddColumn
<1>6. CASE ExecBulkLoad
  <2>1. /\ source'.rows = source.rows /\ source'.yielded = source.yielded
        /\ UNCHANGED <<columns, transform, message>> /\ message.is = "none"
    BY <1>6 DEF ExecBulkLoad, TypeOK, Sources, PhaseInv
  <2>2. /\ Sending(source.rows)' = Sending(source.rows) /\ Done' = Done
        /\ Sending(source.yielded)' = Sending(source.yielded)
    BY <2>1 DEF Sending, Lead
  <2> QED
    BY <2>1, <2>2 DEF StreamInv
<1>7. CASE RowsFail
  BY <1>7, StreamsDestroyed DEF RowsFail, TypeOK
<1>8. ASSUME NEW t \in BOOLEAN, CancelSending(t)
      PROVE  StreamInv'
  <2>1. /\ message'.chunks = message.chunks /\ message'.is = "ignored"
        /\ UNCHANGED <<columns, source, transform>>
    BY <1>8 DEF CancelSending, TypeOK, Messages
  <2>2. ASSUME error' = "none", ~destroying'
        PROVE  message.is = "ended" \/ (message.is = "ignored" /\ error = "none" /\ ~destroying)
    <3>1. error = "none" /\ message.is \in {"ended", "ignored"}
      BY <1>8, <2>2 DEF CancelSending, TypeOK, Messages, PhaseInv
    <3>2. ~(message.is = "ignored" /\ error = "none")
      BY <1>8 DEF CancelSending, ErrorInv
    <3> QED
      BY <3>1, <3>2
  <2> QED
    BY <2>1, <2>2, StreamsKept
<1>9. CASE InsertBulkDone
  <2>1. /\ message'.is # "ended" \/ message' = message
        /\ message'.chunks = message.chunks
        /\ UNCHANGED <<columns, source, transform>>
    BY <1>9 DEF InsertBulkDone, TypeOK, Messages
  <2>2. message'.is # "ignored"
    BY <1>9 DEF InsertBulkDone, TypeOK, Messages, PhaseInv
  <2> QED
    BY <2>1, <2>2, StreamsKept
<1>10. CASE PayloadError
  <2>1. /\ message'.chunks = message.chunks /\ message'.is = "ignored" /\ error' # "none"
        /\ UNCHANGED <<columns, source, transform>>
    BY <1>10 DEF PayloadError, Failed, TypeOK, Messages, Transforms
  <2> QED
    BY <2>1, StreamsKept
<1>11. CASE \/ InsertBulkFails \/ MessageFinished \/ Answered \/ AttentionAck \/ Stores
            \/ Cancel \/ StopInsert \/ Lost \/ TimeoutOfCanceled \/ UNCHANGED vars
            \/ \E t \in BOOLEAN : CancelSent(t)
  <2>1. /\ UNCHANGED <<columns, source, transform, message, destroying>>
        /\ error' = "none" => error = "none" \/ phase = "inserting"
    BY <1>11 DEF InsertBulkFails, MessageFinished, Answered, AttentionAck, Stores, Cancel, StopInsert,
                 Lost, TimeoutOfCanceled, vars, CancelSent
  <2>2. phase = "inserting" => message.is = "none"
    BY DEF PhaseInv
  <2> QED
    BY <2>1, <2>2, StreamsKept
<1>12. CASE PayloadDestroyed
  <2>1. /\ UNCHANGED <<columns, message>> /\ error' # "none"
    BY <1>12 DEF PayloadDestroyed, Failed, TypeOK, Transforms
  <2>2. CASE Destroy("ECANCEL")
    BY <2>1, <2>2, StreamsDestroyed
  <2>3. CASE UNCHANGED stream
    BY <2>1, <2>3, StreamsKept
  <2> QED
    BY <1>12, <2>2, <2>3 DEF PayloadDestroyed
<1> HIDE DEF stream
<1> QED
  BY <1>1, <1>2, <1>3, <1>4, <1>5, <1>6, <1>7, <1>8, <1>9, <1>10, <1>11, <1>12 DEF Next, Progress

LEMMA ErrorsNext ==
  ASSUME TypeOK, PhaseInv, ErrorInv, [Next]_vars
  PROVE  ErrorInv'
<1> USE DEF ErrorInv, stream
<1>1. CASE PayloadError
  <2>1. transform.is \in {"EVALIDATE", "ESOURCE", "ECANCEL"}
    BY <1>1 DEF PayloadError, Failed, TypeOK, Transforms
  <2>2. message'.is = "ignored" /\ phase = "loading" /\ phase' = phase
        /\ error' = IF error = "none" THEN transform.is ELSE error
    BY <1>1 DEF PayloadError, TypeOK, Messages
  <2> QED
    BY <2>1, <2>2
<1>2. ASSUME NEW t \in BOOLEAN, CancelSending(t)
      PROVE  ErrorInv'
  <2>1. message'.is = "ignored" /\ phase = "loading" /\ phase' = phase
    BY <1>2 DEF CancelSending, TypeOK, Messages
  <2>2. error' = (IF t THEN "ETIMEOUT" ELSE error) /\ canceled' = TRUE
    BY <1>2 DEF CancelSending
  <2> QED
    BY <2>1, <2>2
<1>3. ASSUME NEW t \in BOOLEAN, CancelSent(t)
      PROVE  ErrorInv'
  BY <1>3 DEF CancelSent
<1>4. CASE PipeEnds \/ Pipe
  <2>1. message'.is \in {"ended", "open"} /\ UNCHANGED <<error, phase, destroying>> /\ message.is = "open"
    BY <1>4 DEF PipeEnds, Pipe, TypeOK, Messages
  <2> QED
    BY <2>1
<1>5. CASE InsertBulkDone
  <2>1. error = "none" /\ error' = "none" /\ message.is = "none"
    BY <1>5 DEF InsertBulkDone, PhaseInv
  <2>2. message'.is # "ignored" /\ UNCHANGED destroying
    BY <1>5, <2>1 DEF InsertBulkDone, TypeOK, Messages
  <2> QED
    BY <2>1, <2>2
<1>6. CASE InsertBulkFails \/ ExecBulkLoad
  <2>1. UNCHANGED <<message, destroying>> /\ message.is = "none" /\ phase' # "loading"
    BY <1>6 DEF InsertBulkFails, ExecBulkLoad, PhaseInv, Tell
  <2> QED
    BY <2>1
<1>7. CASE Answered \/ AttentionAck \/ Lost
  <2>1. UNCHANGED <<message, canceled, destroying>> /\ phase' = "over" /\ (error' = error \/ error' = "EREQUEST")
    BY <1>7 DEF Answered, AttentionAck, Lost, Tell
  <2> QED
    BY <2>1
<1>8. CASE \/ Row \/ RowsEnd \/ MessageFinished \/ Stores \/ AddColumn \/ Cancel \/ StopInsert
           \/ RowsFail \/ UNCHANGED vars
  <2>1. UNCHANGED <<message, phase, error, destroying>> /\ (canceled => canceled')
    BY <1>8 DEF Row, RowsEnd, MessageFinished, Stores, AddColumn, Cancel, StopInsert, RowsFail, vars
  <2> QED
    BY <2>1
<1>9. CASE PayloadDestroyed
  <2>1. /\ UNCHANGED <<message, phase, canceled>> /\ destroying /\ ~destroying' /\ error' # "none"
    BY <1>9 DEF PayloadDestroyed, Failed, TypeOK, Transforms
  <2>2. phase = "loading" => error' \in {"none", "ECANCEL", "ETIMEOUT", "EVALIDATE", "ESOURCE"}
    BY <1>9 DEF PayloadDestroyed, Failed, TypeOK, Transforms
  <2> QED
    BY <2>1, <2>2
<1>10. CASE TimeoutOfCanceled
  BY <1>10 DEF TimeoutOfCanceled
<1> HIDE DEF ErrorInv, stream
<1> QED
  BY <1>1, <1>2, <1>3, <1>4, <1>5, <1>6, <1>7, <1>8, <1>9, <1>10 DEF Next, Progress

\* The iterable's rows do not become more or fewer.
LEMMA RowsAreConstant == ASSUME TypeOK, [Next]_vars PROVE source'.rows = source.rows
<1>1. CASE UNCHANGED source
  BY <1>1
<1>2. CASE Row \/ RowsEnd \/ ExecBulkLoad
  BY <1>2 DEF Row, RowsEnd, ExecBulkLoad, Destroy, TypeOK, Sources
<1>3. CASE RowsFail \/ PayloadDestroyed
  BY <1>3, DestroyType DEF RowsFail, PayloadDestroyed, stream
<1>4. [Next]_vars => \/ UNCHANGED source \/ Row \/ RowsEnd \/ ExecBulkLoad \/ RowsFail
                     \/ PayloadDestroyed
  BY DEF Next, Progress, InsertBulkFails, InsertBulkDone, Pipe, PipeEnds, PayloadError, MessageFinished,
         Answered, AttentionAck, Stores, AddColumn, Cancel, StopInsert, Lost, TimeoutOfCanceled, CancelSending,
         CancelSent, vars, stream
<1> QED
  BY <1>1, <1>2, <1>3, <1>4

\* What the server stores is what was sent: the rows, each of them, in order.
LEMMA StoresAll ==
  ASSUME TypeOK, PhaseInv, StreamInv, message.is = "ended",
         NEW n \in Nat, message.chunks = Payload(n)
  PROVE  n = source.rows
<1>1. source.rows \in Nat
  BY DEF TypeOK, Sources
<1>2. declared = columns
  BY DEF PhaseInv
<1>3. Payload(source.rows) = Sending(source.rows) \o Done
  BY <1>1, <1>2, PayloadsDiffer
<1>4. message.chunks = Payload(source.rows)
  BY <1>3 DEF StreamInv
<1> QED
  BY <1>1, <1>2, <1>4, PayloadsDiffer

LEMMA TablesNext ==
  ASSUME TypeOK, PhaseInv, StreamInv, TableInv, [Next]_vars
  PROVE  TableInv'
<1>0. Numbers(source.rows)' = Numbers(source.rows)
  BY RowsAreConstant DEF Numbers
<1>1. CASE Stores
  <2>1. answer = "none" /\ UNCHANGED message
    BY <1>1 DEF Stores
  <2>2. table = <<>>
    BY <2>1 DEF TableInv
  <2>3. CASE message.is = "ended" /\ answer' = "ok"
    <3>1. PICK n \in 0 .. Len(message.chunks) : message.chunks = Payload(n) /\ table' = Numbers(n)
      BY <1>1, <2>3 DEF Stores
    <3>2. n = source.rows
      BY <2>3, <3>1, StoresAll
    <3> QED
      BY <1>0, <2>1, <2>3, <3>1, <3>2 DEF TableInv
  <2>4. CASE table' = table /\ (answer' = "failed" \/ message.is = "ignored")
    BY <1>0, <2>1, <2>2, <2>4 DEF TableInv
  <2> QED
    BY <1>1, <2>3, <2>4 DEF Stores
<1>2. CASE UNCHANGED <<table, answer>> /\ (message'.is = "ended" <=> message.is = "ended")
  BY <1>0, <1>2 DEF TableInv
<1>3. CASE UNCHANGED <<table, answer>> /\ ~finished
  <2>1. answer = "none"
    BY <1>3 DEF PhaseInv
  <2> QED
    BY <1>0, <1>3, <2>1 DEF TableInv
<1>4. CASE \/ Pipe \/ PipeEnds \/ PayloadError \/ InsertBulkDone \/ \E t \in BOOLEAN : CancelSending(t)
  <2>1. UNCHANGED <<table, answer>>
    BY <1>4 DEF Pipe, PipeEnds, PayloadError, InsertBulkDone, CancelSending
  <2>2. ~finished
    BY <1>4 DEF Pipe, PipeEnds, PayloadError, InsertBulkDone, CancelSending, PhaseInv
  <2> QED
    BY <1>3, <2>1, <2>2
<1>5. CASE \/ Row \/ RowsEnd \/ MessageFinished \/ AddColumn \/ Cancel \/ StopInsert \/ RowsFail
           \/ InsertBulkFails \/ ExecBulkLoad \/ Answered \/ AttentionAck \/ Lost
           \/ PayloadDestroyed \/ TimeoutOfCanceled
           \/ (\E t \in BOOLEAN : CancelSent(t)) \/ UNCHANGED vars
  <2>1. UNCHANGED <<table, answer, message>>
    BY <1>5 DEF PayloadDestroyed, TimeoutOfCanceled, Row, RowsEnd, MessageFinished, AddColumn, Cancel, StopInsert, RowsFail, InsertBulkFails,
                ExecBulkLoad, Answered, AttentionAck, Lost, CancelSent, vars
  <2> QED
    BY <1>2, <2>1
<1> QED
  BY <1>1, <1>4, <1>5 DEF Next, Progress

LEMMA ToldNext ==
  ASSUME Inv, [Next]_vars
  PROVE  ToldInv'
<1> USE DEF Inv
<1>0. Numbers(source.rows)' = Numbers(source.rows)
  BY RowsAreConstant DEF Numbers
<1>1. CASE Quiet
  <2>0. UNCHANGED <<phase, told>>
    BY <1>1, WhoIsQuiet
  <2>1. SUFFICES ASSUME told # <<>> PROVE ToldInv'
    BY <2>0 DEF ToldInv
  <2>2. phase = "over"
    <3>1. told \in Seq(Outcomes) /\ (phase # "over" => Len(told) = 0)
      BY DEF TypeOK, PhaseInv
    <3> QED
      BY <2>1, <3>1, EmptySeq
  <2>3. UNCHANGED <<message, error, canceled>>
    BY <1>1, <2>2 DEF Quiet, PayloadDestroyed, TimeoutOfCanceled, Row, RowsEnd, Pipe, PipeEnds, PayloadError, MessageFinished, Stores,
       AddColumn, Cancel, StopInsert, RowsFail, CancelSending, CancelSent, vars, stream
  <2>4. CASE Stores
    <3>1. answer = "none"
      BY <2>4 DEF Stores
    <3>2. table = <<>>
      BY <3>1 DEF TableInv
    <3>3. TableInv' /\ (table' = table \/ (answer' = "ok" /\ message.is = "ended"))
      BY <2>4, TablesNext DEF Stores
    <3>4. told[1] = "ok" /\ ~canceled => table' = Numbers(source.rows)
      BY <1>0, <2>1, <2>3, <3>3 DEF ToldInv, TableInv
    <3> QED
      BY <1>0, <2>0, <2>1, <2>3, <3>1, <3>4 DEF ToldInv
  <2>5. CASE ~Stores
    <3>1. UNCHANGED <<table, answer>>
      BY <1>1, <2>5 DEF Quiet, PayloadDestroyed, TimeoutOfCanceled, Row, RowsEnd, Pipe, PipeEnds, PayloadError, MessageFinished,
         AddColumn, Cancel, StopInsert, RowsFail, CancelSending, CancelSent, vars, stream
    <3> QED
      BY <1>0, <2>0, <2>1, <2>3, <3>1 DEF ToldInv
  <2> QED
    BY <2>4, <2>5
<1>2. CASE InsertBulkFails
  <2>1. told'[1] \in {"ECANCEL", "ETIMEOUT", "EREQUEST", "LOST"}
    BY <1>2, WhoTells
  <2>2. message' = message /\ message.is = "none"
    BY <1>2 DEF InsertBulkFails, PhaseInv
  <2> QED
    BY <2>1, <2>2 DEF ToldInv
<1>3. CASE Answered
  <2>1. /\ told'[1] = IF error' = "none" THEN "ok" ELSE error'
        /\ error' = IF answer = "failed" /\ ~canceled THEN "EREQUEST" ELSE error
        /\ answer \in {"ok", "failed"} /\ (canceled => message.is = "ignored") /\ phase = "loading"
        /\ message.is \in {"ended", "ignored"}
        /\ UNCHANGED <<message, answer, table, canceled>>
    BY <1>3, WhoTells DEF Answered, TypeOK, PhaseInv
  <2>2. error \in {"none", "ECANCEL", "ETIMEOUT", "EVALIDATE", "ESOURCE"}
    BY <2>1 DEF ErrorInv
  <2>3. ASSUME told'[1] = "ok"
        PROVE  /\ error' = "none"
               /\ ~canceled => table' = Numbers(source.rows)
               /\ canceled => message.is = "ignored"
    <3>1. error' = "none" /\ error = "none" /\ ~(answer = "failed" /\ ~canceled)
      BY <2>1, <2>2, <2>3
    <3>2. ~canceled => message.is = "ended" /\ answer = "ok"
      BY <2>1, <3>1 DEF ErrorInv
    <3> QED
      BY <2>1, <3>1, <3>2 DEF TableInv
  <2>4. ASSUME told'[1] \in {"EINVALIDSTATE", "EREQUEST", "EVALIDATE", "ESOURCE"}
        PROVE  answer' = "failed" \/ message'.is \in {"none", "ignored"}
    <3>1. CASE answer = "failed"
      BY <2>1, <3>1
    <3>2. CASE answer # "failed"
      <4>1. error \in {"EVALIDATE", "ESOURCE"}
        BY <2>1, <2>2, <2>4, <3>2
      <4> QED
        BY <2>1, <4>1 DEF ErrorInv
    <3> QED
      BY <3>1, <3>2
  <2> QED
    BY <1>0, <2>1, <2>3, <2>4 DEF ToldInv
<1>4. CASE AttentionAck \/ Lost
  <2>1. told'[1] \in {"ECANCEL", "ETIMEOUT", "LOST"}
    BY <1>4, WhoTells
  <2> QED
    BY <2>1 DEF ToldInv
<1>5. CASE InsertBulkDone /\ Tell("ECANCEL")
  <2>1. told'[1] = "ECANCEL"
    BY <1>5, WhoTells
  <2> QED
    BY <2>1 DEF ToldInv
<1>6. CASE ExecBulkLoad /\ Tell("EINVALIDSTATE")
  <2>1. told'[1] = "EINVALIDSTATE" /\ message' = message /\ message.is = "none"
    BY <1>6, WhoTells DEF ExecBulkLoad, PhaseInv
  <2> QED
    BY <2>1 DEF ToldInv
<1>7. CASE UNCHANGED told /\ phase \in {"new", "inserting"}
  <2>1. told \in Seq(Outcomes) /\ Len(told) = 0
    BY <1>7 DEF TypeOK, PhaseInv
  <2>2. told' = <<>>
    BY <1>7, <2>1, EmptySeq
  <2> QED
    BY <2>2 DEF ToldInv
<1>8. InsertBulkDone \/ ExecBulkLoad => phase \in {"new", "inserting"}
  BY DEF InsertBulkDone, ExecBulkLoad
<1> QED
  BY <1>1, <1>2, <1>3, <1>4, <1>5, <1>6, <1>7, <1>8, StepsAre

-------------------------------------------------------------------------------
(* The theorems.                                                                 *)

LEMMA InvInit == Init => Inv
<1> SUFFICES ASSUME Init PROVE Inv
  OBVIOUS
<1>1. TypeOK
  BY TypesInit
<1>2. source.rows \in Nat /\ source.yielded = 0 /\ source.is = "closed"
  BY BulkLoadingAssumption DEF Init
<1>3. PhaseInv
  BY <1>2 DEF Init, PhaseInv
<1>4. StreamInv
  <2>1. Len(Image(0)) = 0 /\ Image(0) \in Seq(Chunks)
    BY ImageType
  <2>2. Image(0) = <<>>
    BY <2>1, EmptySeq
  <2>3. message.chunks \o transform.chunks = Sending(0)
    BY <2>2 DEF Init, Sending, Lead
  <2> QED
    BY <1>2, <2>3 DEF Init, StreamInv
<1>5. ErrorInv /\ TableInv /\ ToldInv
  BY DEF Init, ErrorInv, TableInv, ToldInv
<1> QED
  BY <1>1, <1>3, <1>4, <1>5 DEF Inv

LEMMA InvNext == Inv /\ [Next]_vars => Inv'
<1> SUFFICES ASSUME Inv, [Next]_vars PROVE Inv'
  OBVIOUS
<1> QED
  BY TypesNext, PhasesNext, StreamsNext, ErrorsNext, TablesNext, ToldNext DEF Inv

(* At every moment the chunks piped and the chunks still buffered are together    *)
(* the rows the iterable has yielded, under the columns of the statement; what    *)
(* ends without the ignore bit, or with it and without an error of a payload that *)
(* was not destroyed, is all of them; the server stores all or none; "ok" is told *)
(* of a stored load, or of a cancelled one that the server ignored.               *)
THEOREM BulkInvariant == Spec => []Inv
<1> QED
  BY InvInit, InvNext, PTL DEF Spec

(* A bulk load stores all rows or none, and the outcome the callback is told is   *)
(* true of the table, but for the load that is cancelled after its last row was    *)
(* piped or while its iterable stalls, which is told "ok" and stored nothing: for  *)
(* every number of rows and columns, and every buffer.                             *)
THEOREM LoadsAreExact == Spec => []LoadsExactly
<1>1. Inv => LoadsExactly
  <2> SUFFICES ASSUME Inv PROVE LoadsExactly
    OBVIOUS
  <2> USE DEF Inv
  <2>1. ASSUME message.is = "ended"
        PROVE  message.chunks = Payload(source.rows)
    <3>1. source.rows \in Nat /\ declared = columns
      BY <2>1 DEF TypeOK, Sources, PhaseInv
    <3> QED
      BY <2>1, <3>1, PayloadsDiffer DEF StreamInv
  <2>2. ASSUME NEW i \in DOMAIN told
        PROVE  told # <<>> /\ told[i] = told[1]
    <3>1. told \in Seq(Outcomes) /\ Len(told) \in {0, 1}
      BY DEF TypeOK, PhaseInv
    <3>2. i \in 1 .. Len(told)
      BY <2>2, <3>1
    <3>3. i = 1 /\ Len(told) = 1
      BY <3>1, <3>2
    <3> QED
      BY <3>1, <3>3, EmptySeq
  <2>3. answer = "failed" \/ message.is \in {"none", "ignored"} => table = <<>>
    BY DEF TableInv
  <2>4. ASSUME told # <<>>, told[1] = "ok", canceled
        PROVE  /\ table = <<>> /\ message.is = "ignored"
               /\ destroying \/ message.chunks = Payload(source.rows)
    <3>1. message.is = "ignored" /\ error = "none"
      BY <2>4 DEF ToldInv
    <3>2. table = <<>>
      BY <3>1 DEF TableInv
    <3>3. source.rows \in Nat /\ declared = columns
      BY <2>4 DEF TypeOK, Sources, PhaseInv
    <3> QED
      BY <3>1, <3>2, <3>3, PayloadsDiffer DEF StreamInv
  <2> QED
    BY <2>1, <2>2, <2>3, <2>4 DEF LoadsExactly, TableInv, ToldInv
<1> QED
  BY <1>1, BulkInvariant, PTL

(* The callback of the two requests is never called a second time: no order of    *)
(* errors, cancels, timers and answers calls it again (the safety half of          *)
(* AnsweredOnce; that it is called is checked by TLC).                             *)
THEOREM ToldAtMostOnce == Spec => [](Len(told) <= 1)
<1>1. Inv => Len(told) <= 1
  BY DEF Inv, PhaseInv
<1> QED
  BY <1>1, BulkInvariant, PTL
===================================================================================
