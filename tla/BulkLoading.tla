------------------------------- MODULE BulkLoading -------------------------------
(* execBulkLoad (connection.ts): the rows of the user's iterable are piped       *)
(* through the RowTransform (bulk-load.ts) while "insert bulk" is sent as a       *)
(* batch; only when that succeeded the buffered and remaining bytes follow as     *)
(* the payload of a second request, the BulkLoad itself.  One callback answers    *)
(* for both.  A row may be invalid, the iterable may throw, the user may cancel   *)
(* at any time, the timer of either request may fire and the connection may be    *)
(* lost.                                                                          *)
(*                                                                                *)
(* The first request is what ConnectionRequest makes of any: refused, answered    *)
(* or ended with an error, and told success unexecuted when it was cancelled      *)
(* between its payload and its 'finish'; of the second, sending is modelled chunk *)
(* by chunk.                                                                      *)
(* A row is its number; the bytes of its values are one chunk.                    *)
EXTENDS Naturals, Sequences

CONSTANTS
  MaxRows,      \* the most rows an iterable yields
  MaxColumns,   \* bound: calls of addColumn
  HighWater     \* chunks the RowTransform buffers before it stops taking rows

ASSUME BulkLoadingAssumption == MaxRows \in Nat /\ MaxColumns \in Nat /\ HighWater \in Nat \ {0}

VARIABLES
  phase,        \* new, inserting (the batch), loading (the BulkLoad), over
  columns,      \* columns added so far
  declared,     \* columns in the text of the "insert bulk" statement
  canceled, error,   \* of the BulkLoad
  stopped,      \* was the first request cancelled, by the user or its timer? no, yes, or late: unheard
  source,       \* rows the iterable yields, those it has yielded, and if it is open, ended or destroyed
  transform,    \* the RowTransform: chunks to be read, columnMetadataWritten, open, ended or destroyed
  message,      \* chunks written, and if it is none, open, ended, or ended with the ignore bit
  destroying,   \* has the payload been destroyed, and not yet said so?
  finished,     \* was the message's 'finish' emitted?
  waiting,      \* has the server accepted "insert bulk" and waits for rows? (external)
  table,        \* what the server has stored (external)
  answer,       \* the server's answer to the message: none, ok, failed (external)
  told          \* the outcomes the callback was given

stream == <<source, transform>>
vars == <<phase, columns, declared, canceled, error, stopped, source, transform, message, destroying,
          finished, waiting, table, answer, told>>

Chunk(kind, n) == [kind |-> kind, n |-> n]

Init ==
  /\ phase = "new" /\ columns = 0 /\ declared = 0 /\ canceled = FALSE /\ error = "none" /\ stopped = "no"
  /\ \E n \in 0 .. MaxRows : source = [rows |-> n, yielded |-> 0, is |-> "closed"]
  /\ transform = [chunks |-> <<>>, metadata |-> FALSE, is |-> "open"]
  /\ message = [chunks |-> <<>>, is |-> "none"] /\ destroying = FALSE /\ finished = FALSE
  /\ waiting = FALSE /\ table = <<>> /\ answer = "none" /\ told = <<>>

(********************************** the two requests *****************************)

\* Mutant: a column may be added whenever the user likes.
AddColumnLate ==
  /\ columns < MaxColumns
  /\ columns' = columns + 1
  /\ UNCHANGED <<phase, declared, canceled, error, stopped, stream, message, destroying, finished,
                 waiting, table, answer, told>>

\* addColumn(), which throws once executionStarted is set.
AddColumn ==
  /\ phase = "new" /\ columns < MaxColumns
  /\ columns' = columns + 1
  /\ UNCHANGED <<phase, declared, canceled, error, stopped, stream, message, destroying, finished,
                 waiting, table, answer, told>>

Tell(outcome) == phase' = "over" /\ told' = Append(told, outcome)

\* execBulkLoad(): the rows begin to flow; the batch is sent, or refused by a busy connection.
ExecBulkLoad ==
  /\ phase = "new" /\ columns > 0
  /\ declared' = columns
  /\ source' = [source EXCEPT !.is = "open"]
  /\ \/ phase' = "inserting" /\ UNCHANGED <<error, told>>
     \/ Tell("EINVALIDSTATE") /\ error' = "EINVALIDSTATE"
  /\ UNCHANGED <<columns, canceled, stopped, transform, message, destroying, finished, waiting, table, answer>>

\* How the first request may fail: a cancel that came late is told by nobody, a timer always is.
InsertErrors ==
  CASE stopped = "no"   -> {"EREQUEST", "LOST"}
    [] stopped = "yes"  -> {"ECANCEL", "ETIMEOUT", "LOST"}
    [] stopped = "late" -> {"ETIMEOUT", "LOST"}

\* Mutant: the callback of the batch goes on after an error.
InsertBulkFailsOn ==
  /\ phase = "inserting"
  /\ \E e \in InsertErrors : error' = e /\ told' = Append(told, e)
  /\ phase' = "loading" /\ message' = [message EXCEPT !.is = "open"]
  /\ UNCHANGED <<columns, declared, canceled, stopped, stream, destroying, finished, waiting, table, answer>>

\* The batch failed at the server, was stopped, or the connection was lost.
InsertBulkFails ==
  /\ phase = "inserting"
  /\ \E e \in InsertErrors : error' = e /\ Tell(e)
  /\ UNCHANGED <<columns, declared, canceled, stopped, stream, message, destroying, finished,
                 waiting, table, answer>>

\* It was told success (the server ignored it if it was cancelled late): makeRequest of the BulkLoad,
\* which was perhaps cancelled before its turn.
InsertBulkDone ==
  /\ phase = "inserting" /\ stopped # "yes"
  /\ waiting' = (stopped = "no")
  /\ \/ /\ canceled /\ Tell("ECANCEL")
        /\ UNCHANGED message
     \/ /\ ~canceled /\ phase' = "loading" /\ message' = [message EXCEPT !.is = "open"]
        /\ UNCHANGED told
  /\ UNCHANGED <<columns, declared, canceled, error, stopped, stream, destroying, finished, table, answer>>

\* Request.cancel() of the batch, which is heard unless its payload has ended and its message has not finished.
Stop == stopped' \in IF stopped = "no" THEN {"yes", "late"} ELSE {stopped}

\* BulkLoad.cancel(): to the batch, if that is running; else as for every request, see CancelSending.
Cancel ==
  /\ ~canceled /\ phase \in {"new", "inserting"}
  /\ canceled' = TRUE
  /\ IF phase = "inserting" THEN Stop ELSE UNCHANGED stopped
  /\ UNCHANGED <<phase, columns, declared, error, stream, message, destroying, finished, waiting,
                 table, answer, told>>

\* connection.cancel() or the request timer, while the batch is running: the BulkLoad hears nothing of it.
StopInsert ==
  /\ phase = "inserting" /\ stopped = "no" /\ Stop
  /\ UNCHANGED <<phase, columns, declared, canceled, error, stream, message, destroying, finished,
                 waiting, table, answer, told>>

(************************************ the rows ***********************************)

Push(chunks) == transform' = [transform EXCEPT !.chunks = @ \o chunks, !.metadata = TRUE]
Metadata == IF transform.metadata THEN <<>> ELSE <<Chunk("colmetadata", columns)>>

Destroy(err) ==
  /\ transform' = [transform EXCEPT !.chunks = <<>>, !.is = err]
  /\ source' = [source EXCEPT !.is = "destroyed"]

\* RowTransform._transform: the metadata before the first row, the row token, the values; an invalid
\* value destroys both streams.
Row ==
  /\ source.is = "open" /\ source.yielded < source.rows
  /\ transform.is = "open" /\ Len(transform.chunks) < HighWater
  /\ LET n == source.yielded + 1 IN
     \/ /\ Push(Metadata \o <<Chunk("row", n), Chunk("values", n)>>)
        /\ source' = [source EXCEPT !.yielded = n]
     \/ Destroy("EVALIDATE")
  /\ UNCHANGED <<phase, columns, declared, canceled, error, stopped, message, destroying, finished,
                 waiting, table, answer, told>>

\* createDoneToken().
Done == <<Chunk("done", 0)>>

\* RowTransform._flush, when the iterable is through.
RowsEnd ==
  /\ source.is = "open" /\ source.yielded = source.rows /\ transform.is = "open"
  /\ source' = [source EXCEPT !.is = "ended"]
  /\ transform' = [transform EXCEPT !.chunks = @ \o Done, !.is = "ended"]
  /\ UNCHANGED <<phase, columns, declared, canceled, error, stopped, message, destroying, finished,
                 waiting, table, answer, told>>

\* The iterable throws: its error destroys the transform.
RowsFail ==
  /\ source.is = "open" /\ transform.is = "open"
  /\ Destroy("ESOURCE")
  /\ UNCHANGED <<phase, columns, declared, canceled, error, stopped, message, destroying, finished,
                 waiting, table, answer, told>>

(******************************* the second request ******************************)

Failed == transform.is \notin {"open", "ended"}

\* payloadStream.pipe(message).
Pipe ==
  /\ phase = "loading" /\ message.is = "open" /\ transform.chunks # <<>>
  /\ message' = [message EXCEPT !.chunks = Append(@, Head(transform.chunks))]
  /\ transform' = [transform EXCEPT !.chunks = Tail(@)]
  /\ UNCHANGED <<phase, columns, declared, canceled, error, stopped, source, destroying, finished,
                 waiting, table, answer, told>>

PipeEnds ==
  /\ phase = "loading" /\ message.is = "open" /\ transform.is = "ended" /\ transform.chunks = <<>>
  /\ message' = [message EXCEPT !.is = "ended"]
  /\ UNCHANGED <<phase, columns, declared, canceled, error, stopped, stream, destroying, finished,
                 waiting, table, answer, told>>

\* The payload's 'error'. The iterator was taken early enough to hear of an error from before this request.
PayloadError ==
  /\ phase = "loading" /\ message.is = "open" /\ Failed
  /\ error' = IF error = "none" THEN transform.is ELSE error
  /\ message' = [message EXCEPT !.is = "ignored"]
  /\ UNCHANGED <<phase, columns, declared, canceled, stopped, stream, destroying, finished,
                 waiting, table, answer, told>>

\* cancel(), or the timer, before 'finish': the message ends with the ignore bit. A payload that has not
\* ended is destroyed, which it says later; of one that has ended, nothing is heard. The timer's own error
\* is always set.
CancelSending(timeout) ==
  /\ phase = "loading" /\ ~canceled /\ ~finished
  /\ canceled' = TRUE
  /\ error' = IF timeout THEN "ETIMEOUT" ELSE error
  /\ destroying' = (message.is = "open")
  /\ message' = [message EXCEPT !.is = "ignored"]
  /\ UNCHANGED <<phase, columns, declared, stopped, stream, finished, waiting, table, answer, told>>

\* The destroyed payload waits for the row it has asked for before it lets go of the rows and emits 'error'.
Stalled == transform.is = "open" /\ transform.chunks = <<>>

PayloadDestroyed ==
  /\ phase = "loading" /\ destroying /\ ~Stalled
  /\ destroying' = FALSE
  /\ \E e \in {"ECANCEL"} \cup (IF Failed THEN {transform.is} ELSE {}) :
       error' = IF error = "none" THEN e ELSE error
  /\ IF Failed THEN UNCHANGED stream ELSE Destroy("ECANCEL")
  /\ UNCHANGED <<phase, columns, declared, canceled, stopped, message, finished, waiting, table, answer, told>>

\* After it: an attention.
CancelSent(timeout) ==
  /\ phase = "loading" /\ ~canceled /\ finished
  /\ canceled' = TRUE
  /\ error' = IF timeout THEN "ETIMEOUT" ELSE error
  /\ UNCHANGED <<phase, columns, declared, stopped, stream, message, destroying, finished, waiting,
                 table, answer, told>>

\* The timer of a request that was cancelled already.
TimeoutOfCanceled ==
  /\ phase = "loading" /\ canceled
  /\ error' = "ETIMEOUT"
  /\ UNCHANGED <<phase, columns, declared, canceled, stopped, stream, message, destroying,
                 finished, waiting, table, answer, told>>

MessageFinished ==
  /\ phase = "loading" /\ message.is \in {"ended", "ignored"} /\ ~finished
  /\ finished' = TRUE
  /\ UNCHANGED <<phase, columns, declared, canceled, error, stopped, stream, message, destroying,
                 waiting, table, answer, told>>

\* onEndOfMessage: the answer to the message, whole or ignored. The 'error' of a destroyed payload comes
\* before it, unless the rows are stalled.
Answered ==
  /\ phase = "loading" /\ answer # "none" /\ (canceled => message.is = "ignored") /\ (destroying => Stalled)
  /\ error' = IF answer = "failed" /\ ~canceled THEN "EREQUEST" ELSE error
  /\ Tell(IF error' = "none" THEN "ok" ELSE error')
  /\ UNCHANGED <<columns, declared, canceled, stopped, stream, message, destroying, finished,
                 waiting, table, answer>>

\* The attention is acknowledged.
AttentionAck ==
  /\ phase = "loading" /\ canceled /\ finished /\ message.is # "ignored"
  /\ Tell(IF error = "ETIMEOUT" THEN error ELSE "ECANCEL")
  /\ UNCHANGED <<columns, declared, canceled, error, stopped, stream, message, destroying,
                 finished, waiting, table, answer>>

\* The connection breaks.
Lost ==
  /\ phase = "loading" /\ Tell("LOST")
  /\ UNCHANGED <<columns, declared, canceled, error, stopped, stream, message, destroying,
                 finished, waiting, table, answer>>

(******************************* the server (external) ***************************)

\* A message that ends without the ignore bit is metadata for the declared columns, whole rows and DONE.
Numbers(n) == [i \in 1 .. n |-> i]
Image(n) == [i \in 1 .. 2 * n |-> Chunk(IF i % 2 = 1 THEN "row" ELSE "values", (i + 1) \div 2)]
Payload(n) == (IF n = 0 THEN <<>> ELSE <<Chunk("colmetadata", declared)>>) \o Image(n) \o Done

\* To rows it does not wait for, because insert bulk was ignored, it answers with an error.
Stores ==
  /\ finished /\ answer = "none"
  /\ waiting' = FALSE
  /\ \/ /\ message.is = "ended" /\ waiting /\ answer' = "ok"
        /\ \E n \in 0 .. Len(message.chunks) : message.chunks = Payload(n) /\ table' = Numbers(n)
     \/ message.is = "ended" /\ table' = table /\ answer' = "failed"
     \/ message.is = "ignored" /\ table' = table /\ answer' = "ok"
  /\ UNCHANGED <<phase, columns, declared, canceled, error, stopped, stream, message, destroying,
                 finished, told>>

Progress ==
  \/ InsertBulkFails \/ InsertBulkDone \/ Row \/ RowsEnd \/ Pipe \/ PipeEnds \/ PayloadError
  \/ PayloadDestroyed \/ MessageFinished \/ Answered \/ AttentionAck \/ Stores

Next ==
  \/ Progress
  \/ AddColumn \/ ExecBulkLoad \/ Cancel \/ StopInsert \/ RowsFail \/ Lost \/ TimeoutOfCanceled
  \/ \E t \in BOOLEAN : CancelSending(t) \/ CancelSent(t)

\* The iterable, the streams and the server go on; for a silent one there are the timers.
Spec == Init /\ [][Next]_vars /\ WF_vars(Progress)

(********************************** properties **********************************)

(* A bulk load stores all rows or none: what is sent without the ignore bit is  *)
(* the rows of the iterable, whole and in order, under the columns of the       *)
(* statement; the table never has a part of them; it has all when the callback  *)
(* is told "ok" of a load that was not cancelled, and none when a row was       *)
(* invalid, the iterable threw or the server refused.  A cancelled load that is *)
(* told "ok" stored nothing either: only one is whose rows had all been piped,  *)
(* or that is still waiting for its iterable (connection.ts:3001, 3032, 3591).  *)
LoadsExactly ==
  LET all == Numbers(source.rows) IN
  /\ message.is = "ended" => message.chunks = Payload(source.rows)
  /\ table \in {<<>>, all}
  /\ \A i \in DOMAIN told :
       /\ told[i] = "ok" /\ ~canceled => table = all
       /\ told[i] = "ok" /\ canceled =>
            table = <<>> /\ message.is = "ignored" /\ (destroying \/ message.chunks = Payload(source.rows))
       /\ told[i] \in {"EINVALIDSTATE", "EREQUEST", "EVALIDATE", "ESOURCE"} => table = <<>>

(* The callback is called once for the two requests, and is called when the     *)
(* iterable, the streams and the server go on, wherever it was cancelled or the *)
(* rows broke.                                                                  *)
AnsweredOnce == [](Len(told) <= 1) /\ (phase = "inserting" ~> told # <<>>)
=================================================================================
