------------------------------- MODULE Statements -------------------------------
(* What a call adds to the request it uses and what its answer does to it:      *)
(* prepare, execute, unprepare, execSql, callProcedure and execSqlBatch, the    *)
(* RequestTokenHandler, the two ways a call is cancelled, and the callback      *)
(* (connection.ts, request.ts, token/handler.ts).                               *)
(*                                                                              *)
(* The connection is not lost, and SENT_CLIENT_REQUEST and SENT_ATTENTION are   *)
(* one state: ConnectionRequest tells them apart.  Both options that collect    *)
(* rows are on.  A user does not call again with a request before the last call *)
(* is answered, executes and unprepares only what was prepared before, and uses *)
(* other requests once.  An error is the call that raised it; rows and return   *)
(* statuses carry the call they belong to.  The server is external.             *)
EXTENDS Naturals, Sequences

CONSTANTS
  Requests,           \* the Request objects of the user
  OutputParameters,   \* may a prepared statement have an OUTPUT parameter?
  MaxCalls            \* bound: calls of the user

ASSUME StatementsAssumption == OutputParameters \in BOOLEAN /\ MaxCalls \in Nat

VARIABLES
  state,      \* LOGGED_IN, or BUSY: SENT_CLIENT_REQUEST and SENT_ATTENTION
  call,       \* the request in flight: id, op, request, its message, what the server made of it
  status,     \* connection.procReturnStatusValue
  answer,     \* the tokens still to be handled
  req,        \* the fields of each Request
  ticks,      \* callbacks given to process.nextTick
  calls,      \* calls made so far
  pending,    \* of each request, the call that is not answered yet, or 0
  used,       \* of each request, what it was used for first
  stained,    \* the calls made with, or given, an error that is not the server's (history)
  late,       \* the calls cancelled after the payload ended and before 'finish' (history)
  leaked,     \* was a procedure's status left behind by a cancel? (history)
  misled,     \* the requests whose handle is now an OUTPUT parameter of the user's (history)
  shown,      \* rows and parts of the call's row and done events; the status of the last doneProc
  told,       \* the last outcome
  handles     \* the server's prepared statements, each a handle and its request

vars == <<state, call, status, answer, req, ticks, calls, pending, used, stained, late, leaked, misled,
          shown, told, handles>>

Ok == [kind |-> "ok", call |-> 0]
Error(kind, id) == [kind |-> kind, call |-> id]
NoCount == 99
NoStatus == 0
NoCall == [id |-> 0]
Nothing == [rows |-> <<>>, parts |-> <<>>, status |-> NoStatus, of |-> 0]
Truth == [failed |-> FALSE, rows |-> <<>>, count |-> 0]

Init ==
  /\ state = "LOGGED_IN" /\ call = NoCall /\ status = NoStatus /\ answer = <<>>
  /\ req = [r \in Requests |-> [preparing |-> FALSE, handle |-> 0, canceled |-> FALSE, error |-> Ok,
                                listening |-> FALSE, rowCount |-> 0, rows |-> <<>>, rst |-> <<>>]]
  /\ ticks = {} /\ calls = 0 /\ pending = [r \in Requests |-> 0] /\ used = [r \in Requests |-> "new"]
  /\ stained = {} /\ late = {} /\ leaked = FALSE /\ misled = {} /\ shown = Nothing /\ handles = {}
  /\ told = [call |-> 0, op |-> "none", err |-> Ok, handle |-> 0,
             rows |-> <<>>, count |-> 0, shown |-> Nothing, truth |-> Truth]

Mine == call.request
Wanted == ~req[Mine].canceled

(******************************* calls and callbacks *****************************)

\* The callback of q, request r: 'prepared' or 'error' while preparing, else the user's callback.
Callback(r, q, id, err, truth) ==
  /\ req' = [req EXCEPT ![r] = [q EXCEPT !.preparing = FALSE]]
  /\ pending' = [pending EXCEPT ![r] = 0]
  /\ told' = [call |-> id, op |-> IF q.preparing THEN "prepare" ELSE "other", err |-> err,
              handle |-> q.handle, rows |-> q.rows, count |-> q.rowCount, shown |-> shown, truth |-> truth]

\* Mutant: what the last call collected stays.
MakeRequestCollects(r, q, op, id) ==
  \/ /\ state # "LOGGED_IN"
     /\ Callback(r, q, id, Error("EINVALIDSTATE", id), [Truth EXCEPT !.failed = TRUE])
     /\ UNCHANGED <<state, call, ticks, shown>>
  \/ /\ state = "LOGGED_IN" /\ q.canceled
     /\ req' = [req EXCEPT ![r] = q]
     /\ ticks' = ticks \cup {[request |-> r, err |-> Error("ECANCEL", id)]}
     /\ pending' = [pending EXCEPT ![r] = id]
     /\ UNCHANGED <<state, call, shown, told>>
  \/ /\ state = "LOGGED_IN" /\ ~q.canceled
     /\ state' = "BUSY" /\ shown' = Nothing
     /\ call' = [id |-> id, op |-> op, request |-> r, handle |-> q.handle, finished |-> FALSE,
                 ignore |-> FALSE, executed |-> FALSE, truth |-> Truth]
     /\ req' = [req EXCEPT ![r] = q]
     /\ pending' = [pending EXCEPT ![r] = id]
     /\ UNCHANGED <<ticks, told>>

\* makeRequest: refused, cancelled beforehand, or begun.
MakeRequest(r, q, op, id) ==
  \/ /\ state # "LOGGED_IN"
     /\ Callback(r, q, id, Error("EINVALIDSTATE", id), [Truth EXCEPT !.failed = TRUE])
     /\ UNCHANGED <<state, call, ticks, shown>>
  \/ /\ state = "LOGGED_IN" /\ q.canceled
     /\ req' = [req EXCEPT ![r] = q]
     /\ ticks' = ticks \cup {[request |-> r, err |-> Error("ECANCEL", id)]}
     /\ pending' = [pending EXCEPT ![r] = id]
     /\ UNCHANGED <<state, call, shown, told>>
  \/ /\ state = "LOGGED_IN" /\ ~q.canceled
     /\ state' = "BUSY" /\ shown' = Nothing
     /\ call' = [id |-> id, op |-> op, request |-> r, handle |-> q.handle, finished |-> FALSE,
                 ignore |-> FALSE, executed |-> FALSE, truth |-> Truth]
     /\ req' = [req EXCEPT ![r] = [q EXCEPT !.rowCount = 0, !.rows = <<>>, !.rst = <<>>]]
     /\ pending' = [pending EXCEPT ![r] = id]
     /\ UNCHANGED <<ticks, told>>

\* What every call does: take a number, and note with which error the request comes.
Called(r, op) ==
  /\ calls < MaxCalls /\ calls' = calls + 1
  /\ pending[r] = 0
  /\ used' = [used EXCEPT ![r] = IF @ = "new" THEN op ELSE @]
  /\ stained' = IF req[r].error = Ok THEN stained ELSE stained \cup {calls + 1}
  /\ UNCHANGED <<status, answer, late, leaked, misled, handles>>

\* prepare(). The 'returnValue' listener is never removed.
Prepare(r) ==
  /\ used[r] = "new" /\ Called(r, "prepare")
  /\ MakeRequest(r, [req[r] EXCEPT !.preparing = TRUE, !.listening = TRUE], "prepare", calls + 1)

Unprepare(r) ==
  /\ used[r] = "prepare" /\ Called(r, "unprepare")
  /\ MakeRequest(r, req[r], "unprepare", calls + 1)

ExecSqlBatch(r) ==
  /\ used[r] = "new" /\ Called(r, "batch")
  /\ MakeRequest(r, req[r], "batch", calls + 1)

\* A parameter that does not pass its type's validate().
Invalid(r, id) ==
  /\ req' = [req EXCEPT ![r].error = Error("EPARAM", id)]
  /\ ticks' = ticks \cup {[request |-> r, err |-> Error("EPARAM", id)]}
  /\ pending' = [pending EXCEPT ![r] = id]
  /\ UNCHANGED <<state, call, shown, told>>

\* execute(), and callProcedure() or execSql(): validate, then the request.
Execute(r) ==
  /\ used[r] = "prepare" /\ Called(r, "execute")
  /\ Invalid(r, calls + 1) \/ MakeRequest(r, req[r], "execute", calls + 1)

CallProcedure(r) ==
  /\ used[r] = "new" /\ Called(r, "procedure")
  /\ Invalid(r, calls + 1) \/ MakeRequest(r, req[r], "procedure", calls + 1)

Tick ==
  /\ \E t \in ticks :
       /\ ticks' = ticks \ {t}
       /\ Callback(t.request, req[t.request], pending[t.request], t.err, [Truth EXCEPT !.failed = TRUE])
  /\ UNCHANGED <<state, call, status, answer, calls, used, stained, late, leaked, misled, shown, handles>>

\* 'finish' of the message.
MessageFinished ==
  /\ call # NoCall /\ ~call.finished
  /\ call' = [call EXCEPT !.finished = TRUE]
  /\ UNCHANGED <<state, status, answer, req, ticks, calls, pending, used, stained, late, leaked, misled,
                 shown, told, handles>>

(*********************************** cancelling **********************************)

\* cancel(), and the timer's error after it. While the message is being sent it is ended with the ignore
\* bit, and the payload's error becomes the request's, unless it has one or the payload has ended already,
\* which then says nothing. Afterwards an attention is sent.
CancelWith(r, timeout) ==
  /\ ~req[r].canceled
  /\ LET busy == call # NoCall /\ call.request = r
         sending == busy /\ ~call.finished
         heard == IF req[r].error = Ok THEN Error("ECANCEL", call.id) ELSE req[r].error IN
     /\ timeout => busy
     /\ \E ended \in IF sending THEN BOOLEAN ELSE {FALSE} :
          /\ req' = [req EXCEPT ![r].canceled = TRUE,
                                ![r].error = IF timeout THEN Error("ETIMEOUT", call.id)
                                             ELSE IF sending /\ ~ended THEN heard ELSE @]
          /\ late' = IF ended THEN late \cup {call.id} ELSE late
     /\ call' = IF sending THEN [call EXCEPT !.finished = TRUE, !.ignore = TRUE] ELSE call
     /\ leaked' = (leaked \/ (busy /\ status # NoStatus))
  /\ UNCHANGED <<state, status, answer, ticks, calls, pending, used, stained, misled, shown, told, handles>>

Cancel(r) == CancelWith(r, FALSE)
RequestTimeout(r) == CancelWith(r, TRUE)

\* The timer of a request that was cancelled before.
TimeoutOfCanceled ==
  /\ call # NoCall /\ ~Wanted
  /\ req' = [req EXCEPT ![Mine].error = Error("ETIMEOUT", call.id)]
  /\ UNCHANGED <<state, call, status, answer, ticks, calls, pending, used, stained, late, leaked, misled,
                 shown, told, handles>>

\* SENT_ATTENTION: whatever was left of the answer is dropped, the acknowledgement ends the request.
AttentionAck ==
  /\ call # NoCall /\ ~Wanted /\ ~call.ignore
  /\ state' = "LOGGED_IN" /\ call' = NoCall /\ answer' = <<>>
  /\ LET e == req[Mine].error IN
     Callback(Mine, req[Mine], call.id, IF e.kind = "ETIMEOUT" THEN e ELSE Error("ECANCEL", call.id),
              [Truth EXCEPT !.failed = TRUE])
  /\ UNCHANGED <<status, ticks, calls, used, stained, late, leaked, misled, shown, handles>>

(******************************* the server (external) ***************************)

Token(kind, v, failed) == [kind |-> kind, v |-> v, failed |-> failed]
Numbered(id, n) == [i \in 1 .. n |-> <<id, i>>]
Statement(kind, id, n, counted) ==
  [i \in 1 .. n + 1 |-> IF i <= n THEN Token("row", Numbered(id, n)[i], FALSE)
                        ELSE Token(kind, IF counted THEN n ELSE NoCount, FALSE)]
Reply(tokens, failed, rows, counted) ==
  [tokens |-> tokens, failed |-> failed, rows |-> rows, count |-> IF counted THEN Len(rows) ELSE 0]
Status(id, given) == IF given THEN <<Token("status", id, FALSE)>> ELSE <<>>
Handle(n) == <<Token("handle", n, FALSE)>>
Failing(id, kind, said) ==
  (IF said THEN <<Token("error", id, FALSE)>> ELSE <<>>) \o <<Token(kind, NoCount, TRUE)>>
Ending == <<Token("doneProc", NoCount, FALSE)>>

\* A procedure fails before or after its rows, with or without an ERROR token and a status; or it ends well.
FailedProc(id, n, given, said) ==
  Reply(Statement("doneInProc", id, n, TRUE) \o Status(id, given) \o Failing(id, "doneProc", said),
        TRUE, Numbered(id, n), TRUE)
EndedProc(id, n, counted, output) ==
  Reply(Statement("doneInProc", id, n, counted) \o output \o Status(id, TRUE) \o Ending,
        FALSE, Numbered(id, n), counted)
ProcReplies(id, outputs) ==
  {FailedProc(id, w.n, w.given, w.said) : w \in [n : 0 .. 1, given : BOOLEAN, said : BOOLEAN]}
  \cup {EndedProc(id, w.n, w.counted, w.output) :
          w \in [n : {0, 2}, counted : BOOLEAN, output : outputs]}

BatchReplies(id) ==
  {Reply(Statement("done", id, 1, TRUE) \o Failing(id, "done", s), TRUE, Numbered(id, 1), TRUE) : s \in BOOLEAN}
  \cup {Reply(Statement("done", id, 1, TRUE) \o Statement("done", id, n, TRUE), FALSE,
              Numbered(id, 1) \o Numbered(id, n), TRUE) : n \in 0 .. 1}

\* The OUTPUT parameter of a prepared statement: of any name, or called "handle", with a value that is
\* perhaps the handle of some statement (0 is of none).
Outputs(id) ==
  {<<>>} \cup IF OutputParameters
             THEN {<<Token("value", id, FALSE)>>} \cup {Handle(n) : n \in {0} \cup {h.handle : h \in handles}}
             ELSE {}

\* The system procedures for statements: a failure, or the output and status 0 told apart by the call.
SystemReplies(id, output, lives) ==
  {Reply(Status(id, g) \o Failing(id, "doneProc", TRUE), TRUE, <<>>, TRUE) : g \in BOOLEAN}
  \cup IF lives THEN {Reply(output \o Status(id, TRUE) \o Ending, FALSE, <<>>, TRUE)} ELSE {}

Replies ==
  LET lives == \E h \in handles : h.handle = call.handle IN
  IF call.ignore THEN {Reply(<<Token("done", NoCount, TRUE)>>, TRUE, <<>>, TRUE)}
  ELSE CASE call.op = "procedure" -> ProcReplies(call.id, {<<>>})
         [] call.op = "batch" -> BatchReplies(call.id)
         [] call.op = "execute" /\ lives -> ProcReplies(call.id, Outputs(call.id))
         [] call.op = "prepare" -> SystemReplies(call.id, Handle(call.id), TRUE)
         [] OTHER -> SystemReplies(call.id, <<>>, lives)

ServerExecutes ==
  /\ call # NoCall /\ call.finished /\ ~call.executed
  /\ \E a \in Replies :
       /\ answer' = a.tokens
       /\ call' = [call EXCEPT !.executed = TRUE,
                               !.truth = [failed |-> a.failed, count |-> a.count, rows |-> a.rows]]
       /\ handles' = IF a.failed THEN handles
                     ELSE IF call.op = "prepare" THEN handles \cup {[handle |-> call.id, request |-> Mine]}
                     ELSE IF call.op = "unprepare" THEN {h \in handles : h.handle # call.handle}
                     ELSE handles
  /\ UNCHANGED <<state, status, req, ticks, calls, pending, used, stained, late, leaked, misled,
                 shown, told>>

(****************************** RequestTokenHandler ******************************)

\* The next token, of one of the kinds, to a request that still wants it.
Handled(kinds) ==
  /\ answer # <<>> /\ Head(answer).kind \in kinds /\ Wanted
  /\ answer' = Tail(answer)
  /\ UNCHANGED <<state, call, ticks, calls, pending, used, late, leaked, told, handles>>

OnErrorMessage ==
  /\ Handled({"error"})
  /\ req' = [req EXCEPT ![Mine].error = Error("EREQUEST", call.id)]
  /\ UNCHANGED <<status, stained, misled, shown>>

OnRow ==
  /\ Handled({"row"})
  /\ LET row == Head(answer).v IN
     /\ req' = [req EXCEPT ![Mine].rows = Append(@, row), ![Mine].rst = Append(@, row)]
     /\ shown' = [shown EXCEPT !.rows = Append(@, row)]
  /\ UNCHANGED <<status, stained, misled>>

OnReturnStatus ==
  /\ Handled({"status"})
  /\ status' = Head(answer).v
  /\ UNCHANGED <<req, stained, misled, shown>>

\* Mutant: prepare() takes every output value for the handle.
OnReturnValueUnnamed ==
  /\ Handled({"handle", "value"})
  /\ req' = [req EXCEPT ![Mine].handle = IF req[Mine].listening THEN Head(answer).v ELSE @]
  /\ UNCHANGED <<status, stained, misled, shown>>

\* The event goes to the user and to the listener that prepare() left: a value called "handle" is the
\* statement's handle, whichever call it answers, and any other is an error.
OnReturnValue ==
  /\ Handled({"handle", "value"})
  /\ LET t == Head(answer)
         listening == req[Mine].listening
         handle == listening /\ t.kind = "handle"
         unexpected == listening /\ t.kind = "value" IN
     /\ req' = [req EXCEPT ![Mine].handle = IF handle THEN t.v ELSE @,
                           ![Mine].error = IF unexpected THEN Error("UNEXPECTED", call.id) ELSE @]
     /\ stained' = IF unexpected THEN stained \cup {call.id} ELSE stained
     /\ misled' = IF handle /\ call.op # "prepare" THEN misled \cup {Mine} ELSE misled
  /\ UNCHANGED <<status, shown>>

\* The request after a DONE: an error the server did not spell out, the row count, the rows since the last.
Counted(q, t) ==
  [q EXCEPT !.rowCount = IF t.v = NoCount THEN @ ELSE @ + t.v, !.rst = <<>>]
Flagged(q, t) ==
  [q EXCEPT !.error = IF t.failed /\ @ = Ok THEN Error("UNKNOWN", call.id) ELSE @]

OnDone ==
  /\ Handled({"done"})
  /\ req' = [req EXCEPT ![Mine] = Counted(Flagged(@, Head(answer)), Head(answer))]
  /\ shown' = [shown EXCEPT !.parts = @ \o req[Mine].rst]
  /\ UNCHANGED <<status, stained, misled>>

OnDoneInProc ==
  /\ Handled({"doneInProc"})
  /\ req' = [req EXCEPT ![Mine] = Counted(@, Head(answer))]
  /\ shown' = [shown EXCEPT !.parts = @ \o req[Mine].rst]
  /\ UNCHANGED <<status, stained, misled>>

\* Mutant: the error flag of a DONEPROC is not looked at.
OnDoneProcTrusting ==
  /\ Handled({"doneProc"})
  /\ req' = [req EXCEPT ![Mine] = Counted(@, Head(answer))]
  /\ shown' = [shown EXCEPT !.parts = @ \o req[Mine].rst, !.status = status, !.of = call.id]
  /\ status' = NoStatus
  /\ UNCHANGED <<stained, misled>>

\* Mutant: the return status is not cleared.
OnDoneProcKeepsStatus ==
  /\ Handled({"doneProc"})
  /\ req' = [req EXCEPT ![Mine] = Counted(Flagged(@, Head(answer)), Head(answer))]
  /\ shown' = [shown EXCEPT !.parts = @ \o req[Mine].rst, !.status = status, !.of = call.id]
  /\ UNCHANGED <<status, stained, misled>>

OnDoneProc ==
  /\ Handled({"doneProc"})
  /\ req' = [req EXCEPT ![Mine] = Counted(Flagged(@, Head(answer)), Head(answer))]
  /\ shown' = [shown EXCEPT !.parts = @ \o req[Mine].rst, !.status = status, !.of = call.id]
  /\ status' = NoStatus
  /\ UNCHANGED <<stained, misled>>

\* Every handler is a no-op once the request is cancelled.
Ignored ==
  /\ answer # <<>> /\ ~Wanted
  /\ answer' = Tail(answer)
  /\ UNCHANGED <<state, call, status, req, ticks, calls, pending, used, stained, late, leaked, misled,
                 shown, told, handles>>

\* onEndOfMessage: of an answer, or of the answer to an ignored message.
EndOfMessage ==
  /\ call # NoCall /\ call.executed /\ answer = <<>> /\ (Wanted \/ call.ignore)
  /\ state' = "LOGGED_IN" /\ call' = NoCall
  /\ Callback(Mine, req[Mine], call.id, req[Mine].error, call.truth)
  /\ UNCHANGED <<status, answer, ticks, calls, used, stained, late, leaked, misled, shown, handles>>

Next ==
  \/ \E r \in Requests :
       \/ Prepare(r) \/ Unprepare(r) \/ Execute(r) \/ CallProcedure(r) \/ ExecSqlBatch(r)
       \/ Cancel(r) \/ RequestTimeout(r)
  \/ Tick \/ MessageFinished \/ TimeoutOfCanceled \/ AttentionAck \/ ServerExecutes
  \/ OnErrorMessage \/ OnRow \/ OnReturnStatus \/ OnReturnValue \/ OnDone \/ OnDoneInProc \/ OnDoneProc
  \/ Ignored \/ EndOfMessage

Spec == Init /\ [][Next]_vars

(********************************** properties **********************************)

(* A call told as done without error got exactly the rows the server sent for   *)
(* it, in their order, through row events, through the parts of the done events *)
(* and in the callback, and the row count is the sum of the server's, however   *)
(* often the request was executed before.                                       *)
ResultsAddUp ==
  told.err = Ok =>
    /\ told.rows = told.truth.rows /\ told.count = told.truth.count
    /\ told.shown.rows = told.rows /\ told.shown.parts = told.rows

(* A call is told an error if and only if it failed at the server, was          *)
(* cancelled, refused or given an invalid parameter. (Not when the request      *)
(* still had the error of an earlier call, or had an OUTPUT parameter in a      *)
(* prepared statement, which prepare()'s listener takes for an error. And a     *)
(* call that was cancelled when its payload had ended but its message had not   *)
(* finished may be told as done though the server was made to ignore it,        *)
(* connection.ts:3001, 3032 and 3591.)                                          *)
OutcomeIsServers ==
  told.call \notin stained =>
    IF told.err = Ok THEN told.truth.failed => told.call \in late ELSE told.truth.failed

(* A 'prepared' event finds the handle in the request, and what was prepared    *)
(* stays executable until unprepare: the request's handle is a statement of the *)
(* server's, prepared for this very request, while no call with it is running   *)
(* and none was an unprepare. (Not when the prepare was cancelled late, see     *)
(* OutcomeIsServers, and not after an execution had an OUTPUT parameter called  *)
(* "handle", which the listener takes for the statement's, connection.ts:2684.) *)
PreparedIsLive ==
  /\ told.op = "prepare" /\ told.err = Ok /\ told.call \notin late => told.handle = told.call
  /\ \A r \in Requests \ misled : req[r].handle # 0 /\ (call # NoCall => Mine # r) =>
       \/ [handle |-> req[r].handle, request |-> r] \in handles
       \/ \A h \in handles : h.request # r

(* The return status of a doneProc event is the one of that procedure, never of *)
(* a procedure before it. (A cancel between a status and its DONEPROC leaves it *)
(* on the connection for the next procedure that fails without one.)            *)
ReturnStatusOwn == ~leaked => shown.status \in {NoStatus, shown.of}

(* "The request can then be used in subsequent calls to [[execute]] and         *)
(* [[unprepare]]" (connection.ts:2642): a call that the server completed and    *)
(* nobody cancelled is told as done without error.                              *)
SuccessIsTold == ~told.truth.failed => told.err = Ok
=================================================================================
