-------------------------- MODULE StatementsProofs --------------------------
(* Proofs that what a call is told is what the server made of it: the error,  *)
(* the rows and their count, the return status and the handle of a prepared   *)
(* statement, for any number of requests and calls, however often a request   *)
(* is executed, cancelled or timed out.                                       *)
EXTENDS Statements, SequenceTheorems, TLAPS

---------------------------------------------------------------------------
(* Types.                                                                  *)

RowIds == Nat \X Nat
Ops == {"prepare", "unprepare", "execute", "procedure", "batch"}
Errors == {Ok} \cup [kind : {"EINVALIDSTATE", "ECANCEL", "ETIMEOUT", "EPARAM", "EREQUEST",
                             "UNEXPECTED", "UNKNOWN"}, call : Nat]
Dones == {"done", "doneInProc", "doneProc"}
Tokens ==
  [kind : {"row"}, v : RowIds, failed : {FALSE}]
  \cup [kind : {"status", "error", "value", "handle"}, v : Nat, failed : {FALSE}]
  \cup [kind : Dones, v : Nat, failed : BOOLEAN]
Fields == [preparing : BOOLEAN, handle : Nat, canceled : BOOLEAN, error : Errors,
           listening : BOOLEAN, rowCount : Nat, rows : Seq(RowIds), rst : Seq(RowIds)]
Truths == [failed : BOOLEAN, rows : Seq(RowIds), count : Nat]
Showings == [rows : Seq(RowIds), parts : Seq(RowIds), status : Nat, of : Nat]
Flights == [id : Nat \ {0}, op : Ops, request : Requests, handle : Nat, finished : BOOLEAN,
            ignore : BOOLEAN, executed : BOOLEAN, truth : Truths]
Outcomes == [call : Nat, op : {"none", "prepare", "other"}, err : Errors, handle : Nat,
             rows : Seq(RowIds), count : Nat, shown : Showings, truth : Truths]

TypeOK ==
  /\ state \in {"LOGGED_IN", "BUSY"}
  /\ call \in Flights \cup {NoCall}
  /\ status \in Nat
  /\ answer \in Seq(Tokens)
  /\ req \in [Requests -> Fields]
  /\ ticks \subseteq [request : Requests, err : Errors]
  /\ calls \in Nat
  /\ pending \in [Requests -> Nat]
  /\ used \in [Requests -> Ops \cup {"new"}]
  /\ stained \subseteq Nat /\ late \subseteq Nat
  /\ leaked \in BOOLEAN
  /\ misled \subseteq Requests
  /\ shown \in Showings
  /\ told \in Outcomes
  /\ handles \subseteq [handle : Nat, request : Requests]

---------------------------------------------------------------------------
(* The invariant.                                                          *)

Busy == call # NoCall
Mistaken(e) == e.kind # "ok"

\* A request has one call that is not answered, in flight or with a tick to come.
CallsInv ==
  /\ (state = "BUSY" <=> Busy)
  /\ \A r \in Requests : pending[r] <= calls
  /\ \A r \in Requests : pending[r] = 0 => ~req[r].preparing
  /\ \A r \in Requests : req[r].preparing => req[r].listening
  /\ \A t \in ticks : Mistaken(t.err) /\ pending[t.request] # 0
  /\ \A t, u \in ticks : t.request = u.request => t = u
  /\ Busy => /\ pending[Mine] = call.id
             /\ \A t \in ticks : t.request # Mine

\* The call in flight, until and unless its answer is there.
FlightInv ==
  /\ Busy => /\ req[Mine].preparing => call.op = "prepare"
             /\ call.op = "prepare" => req[Mine].listening
             /\ call.ignore => /\ call.finished /\ ~Wanted
                               /\ Mistaken(req[Mine].error) \/ call.id \in late
             /\ call.executed => call.finished /\ (call.ignore => call.truth.failed)
  /\ ~(Busy /\ call.executed) => answer = <<>>
  /\ Busy /\ Wanted /\ ~call.executed => call.id \in stained \/ req[Mine].error = Ok

Closing == answer # <<>> /\ answer[Len(answer)].kind \in {"done", "doneProc"}

\* What is still to come of an answer.
AnswerInv ==
  /\ answer # <<>> => Closing
  /\ \A i \in 1 .. Len(answer) :
       /\ answer[i].kind = "status" => /\ answer[i].v = call.id
                                       /\ answer[Len(answer)].kind = "doneProc"
       /\ answer[i].kind = "handle" => /\ call.op \in {"prepare", "execute"}
                                       /\ call.op = "prepare" => answer[i].v = call.id

\* An answer that tells of a failure will leave an error, any other leaves the request as it was.
ErrorInv ==
  Busy /\ Wanted /\ call.executed =>
    IF call.truth.failed
    THEN Mistaken(req[Mine].error) \/ (answer # <<>> /\ answer[Len(answer)].failed)
    ELSE /\ \A i \in 1 .. Len(answer) : answer[i].kind # "error" /\ ~answer[i].failed
         /\ call.id \in stained \/ req[Mine].error = Ok
         /\ call.op = "prepare" =>
              \/ req[Mine].handle = call.id
              \/ \E i \in 1 .. Len(answer) : answer[i].kind = "handle"

ToldInv ==
  /\ OutcomeIsServers
  /\ told.op = "prepare" /\ told.err = Ok /\ told.call \notin late => told.handle = told.call

StatusInv ==
  ~leaked =>
    /\ shown.status \in {NoStatus, shown.of}
    /\ status # NoStatus => /\ Busy /\ Wanted /\ call.executed
                            /\ status = call.id
                            /\ answer # <<>> /\ answer[Len(answer)].kind = "doneProc"

\* Whose handle is whose, if no OUTPUT parameter was taken for it.
Own == Requests \ misled

HandlesInv ==
  /\ \A r \in misled : used[r] = "prepare"
  /\ \A h \in handles : /\ h.handle \in 1 .. calls /\ used[h.request] = "prepare"
                        /\ h.request \in Own => req[h.request].handle \in {0, h.handle}
                        /\ \A r \in Own : req[r].handle = h.handle => r = h.request
  /\ \A g, h \in handles : (g.handle = h.handle \/ g.request = h.request) => g = h
  /\ \A r \in Own : /\ req[r].handle <= calls
                    /\ (used[r] = "new" => req[r].handle = 0)
  /\ Busy =>
       /\ (call.op \in {"prepare", "execute", "unprepare"} <=> used[Mine] = "prepare")
       /\ \A h \in handles : h.handle = call.id => h.request = Mine
       /\ \A r \in Own : r # Mine => req[r].handle # call.id
       /\ IF call.op = "prepare"
          THEN /\ Mine \in Own /\ req[Mine].handle \in {0, call.id}
               /\ \A h \in handles : h.request = Mine => h.handle = call.id /\ call.executed
          ELSE Mine \in Own => call.handle = req[Mine].handle /\ req[Mine].handle # call.id

\* The tokens s bring the rows after the j-th to the k-th, and counts that take a sum from m to n.
Amount(t) == IF t.kind \in Dones /\ t.v # NoCount THEN t.v ELSE 0
Bring(s, rows, j, k, m, n) ==
  \E nth, sum \in [0 .. Len(s) -> Nat] :
    /\ nth[0] = j /\ nth[Len(s)] = k /\ sum[0] = m /\ sum[Len(s)] = n
    /\ \A i \in 1 .. Len(s) :
         /\ sum[i] = sum[i - 1] + Amount(s[i])
         /\ s[i].kind = "row" => nth[i] = nth[i - 1] + 1 /\ s[i].v = rows[nth[i]]
         /\ s[i].kind # "row" => nth[i] = nth[i - 1]

\* What the request collected and what is still to come are what the server sent.
RowsInv ==
  /\ ResultsAddUp
  /\ Busy => /\ shown.rows = req[Mine].rows
             /\ shown.parts \o req[Mine].rst = req[Mine].rows
             /\ ~call.executed \/ call.ignore => req[Mine].rowCount = 0 /\ req[Mine].rows = <<>>
             /\ call.executed /\ call.ignore => call.truth.count = 0 /\ call.truth.rows = <<>>
             /\ Wanted /\ req[Mine].rst # <<>> => answer # <<>>
             /\ Wanted /\ call.executed /\ ~call.truth.failed =>
                  /\ Bring(answer, call.truth.rows, Len(req[Mine].rows), Len(call.truth.rows),
                           req[Mine].rowCount, call.truth.count)
                  /\ \A i \in 1 .. Len(req[Mine].rows) : req[Mine].rows[i] = call.truth.rows[i]

---------------------------------------------------------------------------
(* What a user's call does.                                                *)

LEMMA Basics ==
  /\ Ok \in Errors /\ ~Mistaken(Ok) /\ Truth \in Truths /\ Nothing \in Showings
  /\ Nothing.rows = <<>> /\ Nothing.parts = <<>> /\ Nothing.status = NoStatus
  /\ <<>> \in Seq(RowIds)
<1>1. <<>> \in Seq(RowIds)
  OBVIOUS
<1> QED
  BY <1>1 DEF Ok, Errors, Mistaken, Truth, Truths, Nothing, Showings, NoStatus

\* The truth about a call that the server did not execute.
LEMMA FailedTruth ==
  /\ [Truth EXCEPT !.failed = TRUE] \in Truths
  /\ [Truth EXCEPT !.failed = TRUE].failed
BY Basics DEF Truth, Truths

LEMMA ErrorOk == ASSUME NEW e \in Errors PROVE Mistaken(e) <=> e # Ok
BY DEF Mistaken, Errors, Ok

LEMMA MineExists ==
  ASSUME TypeOK, Busy
  PROVE  /\ call \in Flights /\ Mine \in Requests /\ req[Mine] \in Fields
         /\ call.id \in Nat /\ call.id # 0
  BY DEF TypeOK, Busy, Mine, Flights

\* A call of operation op with request r, whose fields have become q.
Asked(r, q, op) ==
  /\ q.handle = req[r].handle
  /\ op = "prepare" => q.listening
  /\ op # "prepare" => ~q.preparing
  /\ q.preparing => q.listening
  /\ used[r] = IF op \in {"execute", "unprepare"} THEN "prepare" ELSE "new"

Refused(r, q) ==
  /\ req' = [req EXCEPT ![r] = q] /\ ~q.preparing
  /\ pending' = [pending EXCEPT ![r] = 0]
  /\ told'.call = calls + 1 /\ Mistaken(told'.err) /\ told'.truth.failed
  /\ UNCHANGED <<state, call, ticks, shown>>

Deferred(r, q) ==
  /\ req' = [req EXCEPT ![r] = q]
  /\ \E e \in Errors : Mistaken(e) /\ ticks' = ticks \cup {[request |-> r, err |-> e]}
  /\ pending' = [pending EXCEPT ![r] = calls + 1]
  /\ UNCHANGED <<state, call, shown, told>>

Begun(r, q, op) ==
  /\ state = "LOGGED_IN" /\ state' = "BUSY" /\ shown' = Nothing
  /\ call' = [id |-> calls + 1, op |-> op, request |-> r, handle |-> q.handle, finished |-> FALSE,
              ignore |-> FALSE, executed |-> FALSE, truth |-> Truth]
  /\ req' = [req EXCEPT ![r] = q]
  /\ q.error = req[r].error /\ ~q.canceled /\ q.rowCount = 0 /\ q.rows = <<>> /\ q.rst = <<>>
  /\ pending' = [pending EXCEPT ![r] = calls + 1]
  /\ UNCHANGED <<ticks, told>>

UserCall(r) == Prepare(r) \/ Unprepare(r) \/ Execute(r) \/ CallProcedure(r) \/ ExecSqlBatch(r)

\* Each operation is refused, deferred to a tick or begun.
LEMMA MakeRequestOutcome ==
  ASSUME TypeOK, NEW r \in Requests, NEW op \in Ops, NEW q \in Fields, Asked(r, q, op),
         q.error = req[r].error, MakeRequest(r, q, op, calls + 1)
  PROVE  /\ told' \in Outcomes
         /\ \E p \in Fields :
              Asked(r, p, op) /\ (Refused(r, p) \/ Deferred(r, p) \/ Begun(r, p, op))
<1>1. CASE state # "LOGGED_IN"
  <2> DEFINE id == calls + 1
             p == [q EXCEPT !.preparing = FALSE]
  <2>1. Callback(r, q, id, Error("EINVALIDSTATE", id), [Truth EXCEPT !.failed = TRUE])
        /\ UNCHANGED <<state, call, ticks, shown>>
    BY <1>1 DEF MakeRequest
  <2>2. p \in Fields /\ Asked(r, p, op) /\ ~p.preparing
    BY DEF Fields, Asked
  <2>3. /\ Error("EINVALIDSTATE", id) \in Errors /\ Mistaken(Error("EINVALIDSTATE", id))
        /\ [Truth EXCEPT !.failed = TRUE] \in Truths /\ [Truth EXCEPT !.failed = TRUE].failed
        /\ id \in Nat
    BY FailedTruth DEF TypeOK, Error, Errors, Mistaken
  <2> DEFINE e == Error("EINVALIDSTATE", id)
             truth == [Truth EXCEPT !.failed = TRUE]
  <2>4. Callback(r, q, id, e, truth) /\ e \in Errors /\ Mistaken(e) /\ truth \in Truths /\ truth.failed
    BY <2>1, <2>3
  <2> HIDE DEF id, p, e, truth
  <2>5. q.handle \in Nat /\ q.rows \in Seq(RowIds) /\ q.rowCount \in Nat /\ shown \in Showings
    BY DEF TypeOK, Fields
  <2>6. told' = [call |-> id, op |-> IF q.preparing THEN "prepare" ELSE "other", err |-> e,
                 handle |-> q.handle, rows |-> q.rows, count |-> q.rowCount, shown |-> shown, truth |-> truth]
    BY <2>4 DEF Callback
  <2>7. told' \in Outcomes
    BY <2>3, <2>4, <2>5, <2>6 DEF Outcomes
  <2>8. req' = [req EXCEPT ![r] = p] /\ pending' = [pending EXCEPT ![r] = 0]
    BY <2>4 DEF Callback, p
  <2>9. told'.call = calls + 1 /\ Mistaken(told'.err) /\ told'.truth.failed
    BY <2>4, <2>6 DEF id
  <2> QED
    BY <2>1, <2>2, <2>7, <2>8, <2>9 DEF Refused
<1>2. CASE state = "LOGGED_IN" /\ q.canceled
  <2>1. /\ req' = [req EXCEPT ![r] = q]
        /\ ticks' = ticks \cup {[request |-> r, err |-> Error("ECANCEL", calls + 1)]}
        /\ pending' = [pending EXCEPT ![r] = calls + 1]
        /\ UNCHANGED <<state, call, shown, told>>
    BY <1>2 DEF MakeRequest
  <2>2. Error("ECANCEL", calls + 1) \in Errors /\ Mistaken(Error("ECANCEL", calls + 1))
    BY DEF TypeOK, Error, Errors, Mistaken
  <2>3. Deferred(r, q)
    BY <2>1, <2>2, Zenon DEF Deferred
  <2>4. told' = told
    BY <2>1
  <2> QED
    BY <2>3, <2>4 DEF TypeOK
<1>3. CASE state = "LOGGED_IN" /\ ~q.canceled
  <2> DEFINE p == [q EXCEPT !.rowCount = 0, !.rows = <<>>, !.rst = <<>>]
  <2>1. p \in Fields /\ Asked(r, p, op) /\ p.handle = q.handle
    BY Basics DEF Fields, Asked
  <2>2. p.error = req[r].error /\ ~p.canceled /\ p.rowCount = 0 /\ p.rows = <<>> /\ p.rst = <<>>
    BY <1>3 DEF Fields
  <2> HIDE DEF p
  <2>3. Begun(r, p, op)
    BY <1>3, <2>1, <2>2, Zenon DEF MakeRequest, Begun, p
  <2>4. told' = told
    BY <1>3 DEF MakeRequest
  <2> QED
    BY <2>1, <2>3, <2>4 DEF TypeOK
<1> QED
  BY <1>1, <1>2, <1>3

LEMMA InvalidOutcome ==
  ASSUME TypeOK, NEW r \in Requests, NEW op \in Ops, Asked(r, req[r], op), Invalid(r, calls + 1)
  PROVE  told' = told /\ \E p \in Fields : Asked(r, p, op) /\ Deferred(r, p)
<1> DEFINE e == Error("EPARAM", calls + 1)
           p == [req[r] EXCEPT !.error = e]
<1>1. e \in Errors /\ Mistaken(e)
  BY DEF TypeOK, Error, Errors, Mistaken
<1>2. req[r] \in Fields
  BY DEF TypeOK
<1> HIDE DEF e
<1>3. p \in Fields /\ Asked(r, p, op)
  BY <1>1, <1>2 DEF Fields, Asked
<1>4. req' = [req EXCEPT ![r] = p]
  BY DEF Invalid, e
<1>5. ticks' = ticks \cup {[request |-> r, err |-> e]}
  BY DEF Invalid, e
<1> HIDE DEF p
<1>6. Deferred(r, p)
  BY <1>1, <1>4, <1>5, Zenon DEF Invalid, Deferred
<1> QED
  BY <1>3, <1>6 DEF Invalid

LEMMA UserOutcome ==
  ASSUME TypeOK, CallsInv, NEW r \in Requests, UserCall(r)
  PROVE  \E op \in Ops, q \in Fields :
           /\ Called(r, op) /\ Asked(r, q, op)
           /\ Refused(r, q) \/ Deferred(r, q) \/ Begun(r, q, op)
           /\ told' \in Outcomes
<1>1. /\ told \in Outcomes
      /\ req[r] \in Fields
  BY DEF TypeOK
<1>2. Called(r, "prepare") \/ Called(r, "unprepare") \/ Called(r, "execute")
      \/ Called(r, "procedure") \/ Called(r, "batch")
  BY DEF UserCall, Prepare, Unprepare, Execute, CallProcedure, ExecSqlBatch
<1>3. ~req[r].preparing
  BY <1>2 DEF Called, CallsInv
<1>4. CASE Prepare(r)
  <2> DEFINE q == [req[r] EXCEPT !.preparing = TRUE, !.listening = TRUE]
  <2>1. q \in Fields /\ Asked(r, q, "prepare") /\ q.error = req[r].error
    BY <1>1, <1>4 DEF Prepare, Asked, Fields
  <2>2. Called(r, "prepare") /\ MakeRequest(r, q, "prepare", calls + 1)
    BY <1>4 DEF Prepare
  <2> HIDE DEF q
  <2>3. "prepare" \in Ops
    BY DEF Ops
  <2> QED
    BY <2>1, <2>2, <2>3, MakeRequestOutcome
<1>5. ASSUME NEW op \in Ops, op # "prepare", Called(r, op),
             used[r] = IF op \in {"execute", "unprepare"} THEN "prepare" ELSE "new",
             Invalid(r, calls + 1) \/ MakeRequest(r, req[r], op, calls + 1)
      PROVE  \E q \in Fields :
               /\ Called(r, op) /\ Asked(r, q, op)
               /\ Refused(r, q) \/ Deferred(r, q) \/ Begun(r, q, op)
               /\ told' \in Outcomes
  <2>1. Asked(r, req[r], op)
    BY <1>1, <1>3, <1>5 DEF Asked, CallsInv
  <2>2. CASE Invalid(r, calls + 1)
    BY <1>1, <1>5, <2>1, <2>2, InvalidOutcome
  <2>3. CASE MakeRequest(r, req[r], op, calls + 1)
    BY <1>1, <1>5, <2>1, <2>3, MakeRequestOutcome
  <2> QED
    BY <1>5, <2>2, <2>3
<1>6. CASE Unprepare(r)
  <2>1. "unprepare" \in Ops /\ "unprepare" # "prepare" /\ Called(r, "unprepare")
        /\ used[r] = "prepare" /\ MakeRequest(r, req[r], "unprepare", calls + 1)
    BY <1>6 DEF Ops, Unprepare
  <2> QED
    BY <1>5, <2>1
<1>7. CASE Execute(r)
  <2>1. "execute" \in Ops /\ "execute" # "prepare" /\ Called(r, "execute") /\ used[r] = "prepare"
        /\ (Invalid(r, calls + 1) \/ MakeRequest(r, req[r], "execute", calls + 1))
    BY <1>7 DEF Ops, Execute
  <2> QED
    BY <1>5, <2>1
<1>8. CASE CallProcedure(r)
  <2>1. "procedure" \in Ops /\ "procedure" # "prepare" /\ Called(r, "procedure") /\ used[r] = "new"
        /\ (Invalid(r, calls + 1) \/ MakeRequest(r, req[r], "procedure", calls + 1))
    BY <1>8 DEF Ops, CallProcedure
  <2> QED
    BY <1>5, <2>1
<1>9. CASE ExecSqlBatch(r)
  <2>1. "batch" \in Ops /\ "batch" # "prepare" /\ Called(r, "batch") /\ used[r] = "new"
        /\ MakeRequest(r, req[r], "batch", calls + 1)
    BY <1>9 DEF Ops, ExecSqlBatch
  <2> QED
    BY <1>5, <2>1
<1> QED
  BY <1>4, <1>6, <1>7, <1>8, <1>9 DEF UserCall

---------------------------------------------------------------------------
(* What a token does (RequestTokenHandler).                                *)

Handler == \/ OnErrorMessage \/ OnRow \/ OnReturnStatus \/ OnReturnValue
           \/ OnDone \/ OnDoneInProc \/ OnDoneProc

\* The request is p before token t and q after it.
ErrorHandled(p, q, t) ==
  /\ Mistaken(p.error) => Mistaken(q.error)
  /\ t.kind \in {"done", "doneProc"} /\ t.failed => Mistaken(q.error)
  /\ t.kind # "error" /\ ~t.failed => call.id \in stained' \/ q.error = p.error
  /\ stained \subseteq stained' /\ stained' \subseteq stained \cup {call.id}
StatusHandled(t) ==
  /\ t.kind = "status" => status' = t.v
  /\ t.kind = "doneProc" => status' = NoStatus /\ shown'.status = status /\ shown'.of = call.id
  /\ t.kind # "doneProc" => shown'.status = shown.status /\ shown'.of = shown.of
  /\ t.kind \notin {"status", "doneProc"} => status' = status
RowsHandled(p, q, t) ==
  /\ q.rowCount = p.rowCount + Amount(t)
  /\ t.kind = "row" => /\ q.rows = Append(p.rows, t.v) /\ q.rst = Append(p.rst, t.v)
                       /\ shown'.rows = Append(shown.rows, t.v) /\ shown'.parts = shown.parts
  /\ t.kind # "row" => q.rows = p.rows /\ shown'.rows = shown.rows
  /\ t.kind \in Dones => q.rst = <<>> /\ shown'.parts = shown.parts \o p.rst
  /\ t.kind \notin Dones \cup {"row"} => q.rst = p.rst /\ shown'.parts = shown.parts
FieldsHandled(p, q, t) ==
  /\ q.preparing = p.preparing /\ q.canceled = p.canceled /\ q.listening = p.listening
  /\ q.handle = IF t.kind = "handle" /\ p.listening THEN t.v ELSE p.handle
  /\ misled' = IF t.kind = "handle" /\ p.listening /\ call.op # "prepare" THEN misled \cup {Mine} ELSE misled

LEMMA HandledToken ==
  ASSUME TypeOK, FlightInv, Handler
  PROVE  /\ Busy /\ call.executed /\ Wanted
         /\ answer # <<>> /\ Len(answer) \in Nat /\ Len(answer) >= 1
         /\ answer[1] \in Tokens /\ Head(answer) = answer[1]
         /\ answer' \in Seq(Tokens) /\ Len(answer') = Len(answer) - 1
         /\ \A i \in 1 .. Len(answer') : answer'[i] = answer[i + 1]
         /\ UNCHANGED <<state, call, ticks, calls, pending, used, late, leaked, told, handles>>
<1>1. PICK kinds : Handled(kinds)
  BY DEF Handler, OnErrorMessage, OnRow, OnReturnStatus, OnReturnValue, OnDone, OnDoneInProc, OnDoneProc
<1>2. answer # <<>> /\ answer' = Tail(answer) /\ Wanted
      /\ UNCHANGED <<state, call, ticks, calls, pending, used, late, leaked, told, handles>>
  BY <1>1 DEF Handled
<1>3. Busy /\ call.executed
  BY <1>2 DEF FlightInv
<1>4. answer \in Seq(Tokens)
  BY DEF TypeOK
<1>5. /\ Len(answer) \in Nat /\ Len(answer) >= 1
      /\ answer[1] \in Tokens /\ Head(answer) = answer[1]
      /\ answer' \in Seq(Tokens) /\ Len(answer') = Len(answer) - 1
      /\ \A i \in 1 .. Len(answer') : answer'[i] = answer[i + 1]
  BY <1>2, <1>4
<1> QED
  BY <1>2, <1>3, <1>5

\* What counting and the error flag do to the fields of a request.
LEMMA CountedFields ==
  ASSUME NEW p \in Fields, NEW t \in Tokens, t.kind \in Dones
  PROVE  /\ Counted(p, t) \in Fields
         /\ Counted(p, t).rst = <<>> /\ Counted(p, t).rowCount = p.rowCount + Amount(t)
         /\ Counted(p, t).rows = p.rows /\ Counted(p, t).error = p.error
         /\ Counted(p, t).preparing = p.preparing /\ Counted(p, t).canceled = p.canceled
         /\ Counted(p, t).listening = p.listening /\ Counted(p, t).handle = p.handle
<1>1. t.v \in Nat
  BY DEF Tokens, Dones
<1>2. /\ p.rowCount \in Nat
      /\ (IF t.v = NoCount THEN p.rowCount ELSE p.rowCount + t.v) = p.rowCount + Amount(t)
      /\ p.rowCount + Amount(t) \in Nat
  BY <1>1 DEF Amount, Fields
<1> DEFINE n == p.rowCount + Amount(t)
<1>3. Counted(p, t) = [p EXCEPT !.rowCount = n, !.rst = <<>>]
  BY <1>2 DEF Counted
<1>4. n \in Nat
  BY <1>2
<1> HIDE DEF n
<1>5. /\ Counted(p, t) \in Fields
      /\ Counted(p, t).rst = <<>> /\ Counted(p, t).rowCount = n
      /\ Counted(p, t).rows = p.rows /\ Counted(p, t).error = p.error
      /\ Counted(p, t).preparing = p.preparing /\ Counted(p, t).canceled = p.canceled
      /\ Counted(p, t).listening = p.listening /\ Counted(p, t).handle = p.handle
  BY <1>3, <1>4, Basics DEF Fields
<1> QED
  BY <1>5 DEF n

LEMMA FlaggedFields ==
  ASSUME NEW p \in Fields, NEW t \in Tokens, call.id \in Nat
  PROVE  /\ Flagged(p, t) \in Fields
         /\ Mistaken(p.error) => Mistaken(Flagged(p, t).error)
         /\ t.failed => Mistaken(Flagged(p, t).error)
         /\ ~t.failed => Flagged(p, t).error = p.error
         /\ Flagged(p, t).rst = p.rst /\ Flagged(p, t).rowCount = p.rowCount
         /\ Flagged(p, t).rows = p.rows
         /\ Flagged(p, t).preparing = p.preparing /\ Flagged(p, t).canceled = p.canceled
         /\ Flagged(p, t).listening = p.listening /\ Flagged(p, t).handle = p.handle
<1>1. p.error \in Errors
  BY DEF Fields
<1> DEFINE e == IF t.failed /\ p.error = Ok THEN Error("UNKNOWN", call.id) ELSE p.error
<1>2. Error("UNKNOWN", call.id) \in Errors /\ Mistaken(Error("UNKNOWN", call.id))
  BY DEF Error, Errors, Mistaken
<1>3. /\ e \in Errors
      /\ Mistaken(p.error) => Mistaken(e)
      /\ ~t.failed => e = p.error
  BY <1>1, <1>2
<1>4. Flagged(p, t) = [p EXCEPT !.error = e]
  BY DEF Flagged
<1>6. ASSUME t.failed PROVE Mistaken(e)
  <2>1. CASE p.error = Ok
    BY <1>2, <1>6, <2>1
  <2>2. CASE p.error # Ok
    BY <1>1, <1>6, <2>2, ErrorOk
  <2> QED
    BY <2>1, <2>2
<1> HIDE DEF e
<1>7. /\ Flagged(p, t) \in Fields /\ Flagged(p, t).error = e
      /\ Flagged(p, t).rst = p.rst /\ Flagged(p, t).rowCount = p.rowCount
      /\ Flagged(p, t).rows = p.rows
      /\ Flagged(p, t).preparing = p.preparing /\ Flagged(p, t).canceled = p.canceled
      /\ Flagged(p, t).listening = p.listening /\ Flagged(p, t).handle = p.handle
  BY <1>3, <1>4 DEF Fields
<1> QED
  BY <1>3, <1>6, <1>7, Zenon

\* Every handler in one: the request's fields become q.
HandlerDoes(q) ==
  /\ req' = [req EXCEPT ![Mine] = q]
  /\ FieldsHandled(req[Mine], q, answer[1])
  /\ ErrorHandled(req[Mine], q, answer[1])
  /\ StatusHandled(answer[1])
  /\ RowsHandled(req[Mine], q, answer[1])

LEMMA HandlerStep ==
  ASSUME TypeOK, FlightInv, Handler
  PROVE  /\ \E q \in Fields : HandlerDoes(q)
         /\ status' \in Nat /\ stained' \subseteq Nat /\ shown' \in Showings /\ misled' \subseteq Requests
<1>0. misled' \subseteq Requests
  <2>1. Mine \in Requests /\ misled \subseteq Requests
    BY HandledToken, MineExists DEF TypeOK
  <2>2. CASE OnReturnValue
    <3>1. misled' = misled \/ misled' = misled \cup {Mine}
      BY <2>2 DEF OnReturnValue
    <3> QED
      BY <2>1, <3>1
  <2>3. CASE ~OnReturnValue
    <3>1. misled' = misled
      BY <2>3, Zenon DEF Handler, OnErrorMessage, OnRow, OnReturnStatus, OnDone, OnDoneInProc, OnDoneProc
    <3> QED
      BY <2>1, <3>1
  <2> QED
    BY <2>2, <2>3
<1> SUFFICES /\ \E q \in Fields : HandlerDoes(q)
             /\ status' \in Nat /\ stained' \subseteq Nat /\ shown' \in Showings
  BY <1>0
<1> DEFINE p == req[Mine]
           t == answer[1]
<1>1. /\ Mine \in Requests /\ p \in Fields /\ call.id \in Nat /\ call.id # 0 /\ t \in Tokens
      /\ Head(answer) = t
  BY HandledToken, MineExists
<1>2. /\ p.error \in Errors /\ p.rows \in Seq(RowIds) /\ p.rst \in Seq(RowIds) /\ p.rowCount \in Nat
      /\ shown \in Showings /\ shown.rows \in Seq(RowIds) /\ shown.parts \in Seq(RowIds)
      /\ status \in Nat /\ stained \subseteq Nat
  BY <1>1 DEF Fields, TypeOK, Showings
<1>p. p = req[Mine]
  OBVIOUS
<1>t. t = answer[1]
  OBVIOUS
<1> HIDE DEF p, t
<1>3. CASE OnErrorMessage
  <2> DEFINE e == Error("EREQUEST", call.id)
             q == [p EXCEPT !.error = e]
  <2>1. e \in Errors /\ Mistaken(e)
    BY <1>1 DEF Error, Errors, Mistaken
  <2>2. t.kind = "error" /\ UNCHANGED <<status, stained, misled, shown>>
    BY <1>1, <1>3 DEF OnErrorMessage, Handled
  <2>3. req' = [req EXCEPT ![Mine] = q]
    BY <1>3, <1>p DEF OnErrorMessage
  <2> HIDE DEF e
  <2>4. q \in Fields /\ q.error = e /\ q.rowCount = p.rowCount /\ q.rows = p.rows /\ q.rst = p.rst
        /\ q.preparing = p.preparing /\ q.canceled = p.canceled /\ q.listening = p.listening
        /\ q.handle = p.handle
    BY <1>1, <2>1 DEF Fields
  <2> HIDE DEF q
  <2>5. Amount(t) = 0 /\ p.rowCount + 0 = p.rowCount
    BY <1>2, <2>2 DEF Amount, Dones
  <2>6. FieldsHandled(p, q, t) /\ ErrorHandled(p, q, t) /\ StatusHandled(t) /\ RowsHandled(p, q, t)
    BY <2>1, <2>2, <2>4, <2>5 DEF FieldsHandled, ErrorHandled, StatusHandled, RowsHandled, Dones
  <2> QED
    BY <1>2, <2>2, <2>3, <2>4, <2>6, <1>p, <1>t DEF HandlerDoes
<1>4. CASE OnRow
  <2> DEFINE row == t.v
             q == [p EXCEPT !.rows = Append(@, row), !.rst = Append(@, row)]
  <2>1. t.kind = "row" /\ UNCHANGED <<status, stained, misled>>
        /\ shown' = [shown EXCEPT !.rows = Append(@, row)]
        /\ req' = [req EXCEPT ![Mine].rows = Append(@, row), ![Mine].rst = Append(@, row)]
    BY <1>1, <1>4 DEF OnRow, Handled
  <2>2. row \in RowIds /\ ~t.failed
    BY <1>1, <2>1 DEF Tokens, Dones
  <2> HIDE DEF row
  <2>3. Append(p.rows, row) \in Seq(RowIds) /\ Append(p.rst, row) \in Seq(RowIds)
        /\ Append(shown.rows, row) \in Seq(RowIds)
    BY <1>2, <2>2
  <2>4. q \in Fields /\ q.error = p.error /\ q.rowCount = p.rowCount
        /\ q.rows = Append(p.rows, row) /\ q.rst = Append(p.rst, row)
        /\ q.preparing = p.preparing /\ q.canceled = p.canceled /\ q.listening = p.listening
        /\ q.handle = p.handle
    BY <1>1, <2>3 DEF Fields
  <2>5. req' = [req EXCEPT ![Mine] = q]
    <3>1. req \in [Requests -> Fields]
      BY DEF TypeOK
    <3> QED
      BY <1>1, <2>1, <3>1, <1>p DEF Fields
  <2>6. shown' \in Showings /\ shown'.rows = Append(shown.rows, row) /\ shown'.parts = shown.parts
        /\ shown'.status = shown.status /\ shown'.of = shown.of
    BY <1>2, <2>1, <2>3 DEF Showings
  <2> HIDE DEF q
  <2>7. Amount(t) = 0 /\ p.rowCount + 0 = p.rowCount /\ row = t.v
    BY <1>2, <2>1 DEF Amount, Dones, row
  <2>8. FieldsHandled(p, q, t) /\ ErrorHandled(p, q, t) /\ StatusHandled(t) /\ RowsHandled(p, q, t)
    BY <2>1, <2>2, <2>4, <2>6, <2>7 DEF FieldsHandled, ErrorHandled, StatusHandled, RowsHandled, Dones
  <2> QED
    BY <1>2, <2>1, <2>4, <2>5, <2>6, <2>8, <1>p, <1>t DEF HandlerDoes
<1>5. CASE OnReturnStatus
  <2>1. t.kind = "status" /\ status' = t.v /\ UNCHANGED <<req, stained, misled, shown>>
    BY <1>1, <1>5 DEF OnReturnStatus, Handled
  <2>2. t.v \in Nat /\ ~t.failed
    BY <1>1, <2>1 DEF Tokens, Dones
  <2>3. req' = [req EXCEPT ![Mine] = p]
    BY <1>p, <2>1 DEF TypeOK
  <2>4. Amount(t) = 0 /\ p.rowCount + 0 = p.rowCount
    BY <1>2, <2>1 DEF Amount, Dones
  <2>5. FieldsHandled(p, p, t) /\ ErrorHandled(p, p, t) /\ StatusHandled(t) /\ RowsHandled(p, p, t)
    BY <2>1, <2>2, <2>4 DEF FieldsHandled, ErrorHandled, StatusHandled, RowsHandled, Dones
  <2> QED
    BY <1>1, <1>2, <2>1, <2>2, <2>3, <2>5, <1>p, <1>t DEF HandlerDoes
<1>6. CASE OnReturnValue
  <2> DEFINE handle == p.listening /\ t.kind = "handle"
             unexpected == p.listening /\ t.kind = "value"
             h == IF handle THEN t.v ELSE p.handle
             e == IF unexpected THEN Error("UNEXPECTED", call.id) ELSE p.error
             q == [p EXCEPT !.handle = h, !.error = e]
  <2>1. /\ t.kind \in {"handle", "value"} /\ UNCHANGED <<status, shown>>
        /\ stained' = IF unexpected THEN stained \cup {call.id} ELSE stained
        /\ misled' = IF handle /\ call.op # "prepare" THEN misled \cup {Mine} ELSE misled
    BY <1>1, <1>6, <1>p DEF OnReturnValue, Handled
  <2>2. req' = [req EXCEPT ![Mine] = q]
    <3>1. req' = [req EXCEPT ![Mine].handle = h, ![Mine].error = e]
      BY <1>1, <1>6, <1>p DEF OnReturnValue
    <3>2. req \in [Requests -> Fields]
      BY DEF TypeOK
    <3> HIDE DEF h, e
    <3> QED
      BY <1>1, <3>1, <3>2, <1>p DEF Fields
  <2>3. Error("UNEXPECTED", call.id) \in Errors /\ Mistaken(Error("UNEXPECTED", call.id))
    BY <1>1 DEF Error, Errors, Mistaken
  <2>4. t.v \in Nat /\ ~t.failed
    BY <1>1, <2>1 DEF Tokens, Dones
  <2>5. h \in Nat /\ e \in Errors
    BY <1>1, <1>2, <2>3, <2>4 DEF Fields
  <2>6. /\ Mistaken(p.error) => Mistaken(e)
        /\ call.id \in stained' \/ e = p.error
        /\ stained' \subseteq Nat /\ stained \subseteq stained' /\ stained' \subseteq stained \cup {call.id}
    BY <1>1, <1>2, <2>1, <2>3
  <2>7. /\ h = IF t.kind = "handle" /\ p.listening THEN t.v ELSE p.handle
        /\ misled' = IF t.kind = "handle" /\ p.listening /\ call.op # "prepare"
                     THEN misled \cup {Mine} ELSE misled
    BY <2>1
  <2> HIDE DEF h, e, handle, unexpected
  <2>8. q \in Fields /\ q.error = e /\ q.rowCount = p.rowCount /\ q.rows = p.rows /\ q.rst = p.rst
        /\ q.preparing = p.preparing /\ q.canceled = p.canceled /\ q.listening = p.listening
        /\ q.handle = h
    BY <1>1, <2>5 DEF Fields
  <2> HIDE DEF q
  <2>9. Amount(t) = 0 /\ p.rowCount + 0 = p.rowCount
    BY <1>2, <2>1 DEF Amount, Dones
  <2>10. StatusHandled(t) /\ RowsHandled(p, q, t)
    BY <2>1, <2>8, <2>9 DEF StatusHandled, RowsHandled, Dones
  <2>11. FieldsHandled(p, q, t)
    BY <2>7, <2>8 DEF FieldsHandled
  <2>12. ErrorHandled(p, q, t)
    BY <2>1, <2>4, <2>6, <2>8 DEF ErrorHandled
  <2> QED
    BY <1>2, <2>1, <2>2, <2>6, <2>8, <2>10, <2>11, <2>12, <1>p, <1>t DEF HandlerDoes
<1>7. ASSUME t.kind \in Dones,
             NEW q \in Fields, req' = [req EXCEPT ![Mine] = q], stained' = stained, misled' = misled,
             \/ q = Counted(Flagged(p, t), t)
             \/ q = Counted(p, t) /\ t.kind = "doneInProc",
             \/ t.kind # "doneProc" /\ shown' = [shown EXCEPT !.parts = @ \o p.rst] /\ status' = status
             \/ t.kind = "doneProc" /\ status' = NoStatus
                /\ shown' = [shown EXCEPT !.parts = @ \o p.rst, !.status = status, !.of = call.id]
      PROVE  HandlerDoes(q) /\ status' \in Nat /\ stained' \subseteq Nat /\ shown' \in Showings
  <2> DEFINE parts == shown.parts \o p.rst
  <2>1. parts \in Seq(RowIds)
    BY <1>2, ConcatProperties
  <2>2. shown' \in Showings /\ shown'.rows = shown.rows /\ shown'.parts = parts
        /\ IF t.kind = "doneProc"
           THEN shown'.status = status /\ shown'.of = call.id /\ status' = NoStatus
           ELSE shown'.status = shown.status /\ shown'.of = shown.of /\ status' = status
    <3> HIDE DEF parts
    <3>1. CASE t.kind # "doneProc"
      <4>1. shown' = [shown EXCEPT !.parts = parts] /\ status' = status
        BY <1>7, <3>1 DEF parts
      <4> QED
        BY <1>2, <2>1, <3>1, <4>1 DEF Showings
    <3>2. CASE t.kind = "doneProc"
      <4>1. shown' = [shown EXCEPT !.parts = parts, !.status = status, !.of = call.id]
            /\ status' = NoStatus
        BY <1>7, <3>2 DEF parts
      <4> QED
        BY <1>1, <1>2, <2>1, <3>2, <4>1 DEF Showings
    <3> QED
      BY <3>1, <3>2
  <2>3. /\ q.rst = <<>> /\ q.rowCount = p.rowCount + Amount(t) /\ q.rows = p.rows
        /\ q.preparing = p.preparing /\ q.canceled = p.canceled
        /\ q.listening = p.listening /\ q.handle = p.handle
        /\ (t.kind \in {"done", "doneProc"} /\ t.failed => Mistaken(q.error))
        /\ (Mistaken(p.error) => Mistaken(q.error))
        /\ (~t.failed => q.error = p.error)
    <3>1. CASE q = Counted(Flagged(p, t), t)
      <4> DEFINE f == Flagged(p, t)
      <4>1. /\ f \in Fields
            /\ Mistaken(p.error) => Mistaken(f.error)
            /\ t.failed => Mistaken(f.error)
            /\ ~t.failed => f.error = p.error
            /\ f.rst = p.rst /\ f.rowCount = p.rowCount /\ f.rows = p.rows
            /\ f.preparing = p.preparing /\ f.canceled = p.canceled
            /\ f.listening = p.listening /\ f.handle = p.handle
        BY <1>1, FlaggedFields
      <4> HIDE DEF f
      <4>2. /\ q.rst = <<>> /\ q.rowCount = f.rowCount + Amount(t)
            /\ q.rows = f.rows /\ q.error = f.error
            /\ q.preparing = f.preparing /\ q.canceled = f.canceled
            /\ q.listening = f.listening /\ q.handle = f.handle
        <5>1. q = Counted(f, t)
          BY <3>1 DEF f
        <5> QED
          BY <1>1, <1>7, <4>1, <5>1, CountedFields
      <4> QED
        BY <4>1, <4>2
    <3>2. CASE q = Counted(p, t) /\ t.kind = "doneInProc"
      BY <1>1, <1>7, <3>2, CountedFields
    <3> QED
      BY <1>7, <3>1, <3>2
  <2>4. t.kind \notin {"row", "handle", "value", "status", "error"}
    BY <1>7 DEF Dones
  <2>5. FieldsHandled(p, q, t)
    BY <1>7, <2>3, <2>4 DEF FieldsHandled
  <2>6. ErrorHandled(p, q, t)
    BY <1>7, <2>3 DEF ErrorHandled
  <2>7. StatusHandled(t)
    BY <2>2, <2>4 DEF StatusHandled
  <2>8. RowsHandled(p, q, t)
    BY <1>7, <2>2, <2>3, <2>4 DEF RowsHandled
  <2>9. NoStatus \in Nat
    BY DEF NoStatus
  <2> QED
    BY <1>2, <1>7, <2>2, <2>5, <2>6, <2>7, <2>8, <2>9, <1>p, <1>t DEF HandlerDoes
<1>8. CASE OnDone
  <2> DEFINE q == Counted(Flagged(p, t), t)
  <2>1. t.kind \in Dones /\ t.kind # "doneProc" /\ UNCHANGED <<stained, misled, status>>
        /\ shown' = [shown EXCEPT !.parts = @ \o p.rst]
    BY <1>1, <1>8, <1>p DEF OnDone, Handled, Dones
  <2>2. req' = [req EXCEPT ![Mine] = q]
    BY <1>1, <1>8, <1>p DEF OnDone
  <2>3. q \in Fields
    BY <1>1, <2>1, FlaggedFields, CountedFields
  <2> QED
    BY <1>7, <2>1, <2>2, <2>3
<1>9. CASE OnDoneInProc
  <2> DEFINE q == Counted(p, t)
  <2>1. t.kind = "doneInProc" /\ t.kind \in Dones /\ UNCHANGED <<stained, misled, status>>
        /\ shown' = [shown EXCEPT !.parts = @ \o p.rst]
    BY <1>1, <1>9, <1>p DEF OnDoneInProc, Handled, Dones
  <2>2. req' = [req EXCEPT ![Mine] = q]
    BY <1>1, <1>9, <1>p DEF OnDoneInProc
  <2>3. q \in Fields
    BY <1>1, <2>1, CountedFields
  <2> QED
    BY <1>7, <2>1, <2>2, <2>3
<1>10. CASE OnDoneProc
  <2> DEFINE q == Counted(Flagged(p, t), t)
  <2>1. t.kind \in Dones /\ t.kind = "doneProc" /\ UNCHANGED <<stained, misled>> /\ status' = NoStatus
        /\ shown' = [shown EXCEPT !.parts = @ \o p.rst, !.status = status, !.of = call.id]
    BY <1>1, <1>10, <1>p DEF OnDoneProc, Handled, Dones
  <2>2. req' = [req EXCEPT ![Mine] = q]
    BY <1>1, <1>10, <1>p DEF OnDoneProc
  <2>3. q \in Fields
    BY <1>1, <2>1, FlaggedFields, CountedFields
  <2> QED
    BY <1>7, <2>1, <2>2, <2>3
<1> QED
  BY <1>3, <1>4, <1>5, <1>6, <1>8, <1>9, <1>10 DEF Handler

---------------------------------------------------------------------------
(* What the server answers.                                                *)

\* The tokens of an answer to call id that ends in a token of kind closing.
Sayable(id, op, failed, closing) ==
  {t \in Tokens : /\ t.kind = "status" => t.v = id /\ closing = "doneProc"
                  /\ t.kind = "handle" => /\ op \in {"prepare", "execute"}
                                          /\ op = "prepare" => t.v = id
                  /\ ~failed => t.kind # "error" /\ ~t.failed}
Silent == {t \in Tokens : t.kind # "row" /\ Amount(t) = 0}

LEMMA LastOfConcat ==
  ASSUME NEW S, NEW s \in Seq(S), NEW u \in Seq(S), u # <<>>
  PROVE  /\ s \o u \in Seq(S) /\ s \o u # <<>> /\ (s \o u)[Len(s \o u)] = u[Len(u)]
<1>1. /\ s \o u \in Seq(S) /\ Len(s \o u) = Len(s) + Len(u)
      /\ \A i \in 1 .. Len(s) + Len(u) : (s \o u)[i] = IF i <= Len(s) THEN s[i] ELSE u[i - Len(s)]
  BY ConcatProperties
<1>2. Len(s) \in Nat /\ Len(u) \in Nat /\ Len(u) > 0
  BY EmptySeq, LenProperties
<1>3. (s \o u)[Len(s) + Len(u)] = u[Len(u)]
  BY <1>1, <1>2
<1> QED
  BY <1>1, <1>2, <1>3

LEMMA BringConcat ==
  ASSUME NEW s \in Seq(Tokens), NEW u \in Seq(Tokens), NEW rows,
         NEW j \in Nat, NEW k \in Nat, NEW l \in Nat,
         NEW m \in Nat, NEW n \in Nat, NEW o \in Nat,
         Bring(s, rows, j, k, m, n), Bring(u, rows, k, l, n, o)
  PROVE  Bring(s \o u, rows, j, l, m, o)
<1> DEFINE a == Len(s)
           b == Len(u)
           su == s \o u
<1>1. /\ a \in Nat /\ b \in Nat /\ Len(su) = a + b
      /\ \A i \in 1 .. a : su[i] = s[i]
      /\ \A i \in 1 .. b : su[a + i] = u[i]
  BY ConcatProperties, LenProperties
<1>2. PICK nth1 \in [0 .. a -> Nat], sum1 \in [0 .. a -> Nat] :
        /\ nth1[0] = j /\ nth1[a] = k /\ sum1[0] = m /\ sum1[a] = n
        /\ \A i \in 1 .. a :
             /\ sum1[i] = sum1[i - 1] + Amount(s[i])
             /\ s[i].kind = "row" => nth1[i] = nth1[i - 1] + 1 /\ s[i].v = rows[nth1[i]]
             /\ s[i].kind # "row" => nth1[i] = nth1[i - 1]
  BY DEF Bring
<1>3. PICK nth2 \in [0 .. b -> Nat], sum2 \in [0 .. b -> Nat] :
        /\ nth2[0] = k /\ nth2[b] = l /\ sum2[0] = n /\ sum2[b] = o
        /\ \A i \in 1 .. b :
             /\ sum2[i] = sum2[i - 1] + Amount(u[i])
             /\ u[i].kind = "row" => nth2[i] = nth2[i - 1] + 1 /\ u[i].v = rows[nth2[i]]
             /\ u[i].kind # "row" => nth2[i] = nth2[i - 1]
  BY DEF Bring
<1> DEFINE nth == [i \in 0 .. a + b |-> IF i <= a THEN nth1[i] ELSE nth2[i - a]]
           sum == [i \in 0 .. a + b |-> IF i <= a THEN sum1[i] ELSE sum2[i - a]]
<1> HIDE DEF a, b, su
<1>t. /\ nth1 \in [0 .. a -> Nat] /\ sum1 \in [0 .. a -> Nat]
      /\ nth2 \in [0 .. b -> Nat] /\ sum2 \in [0 .. b -> Nat]
  OBVIOUS
<1>e. /\ nth1[0] = j /\ nth1[a] = k /\ sum1[0] = m /\ sum1[a] = n
      /\ nth2[0] = k /\ nth2[b] = l /\ sum2[0] = n /\ sum2[b] = o
  BY <1>2, <1>3
<1>4. /\ nth \in [0 .. a + b -> Nat] /\ sum \in [0 .. a + b -> Nat]
      /\ nth[0] = j /\ sum[0] = m
  <2>1. \A i \in 0 .. a + b : IF i <= a THEN i \in 0 .. a ELSE i - a \in 0 .. b
    BY <1>1
  <2>2. 0 \in 0 .. a + b /\ 0 <= a
    BY <1>1
  <2> QED
    BY <1>t, <1>e, <2>1, <2>2
<1>5. nth[a + b] = l /\ sum[a + b] = o
  <2>1. CASE b = 0
    BY <1>1, <1>t, <1>e, <2>1
  <2>2. CASE b # 0
    BY <1>1, <1>t, <1>e, <2>2
  <2> QED
    BY <2>1, <2>2
<1>6. \A i \in 0 .. a : nth[i] = nth1[i] /\ sum[i] = sum1[i]
  BY <1>1
<1>7. \A i \in 0 .. b : nth[a + i] = nth2[i] /\ sum[a + i] = sum2[i]
  <2>1. CASE b = 0
    BY <1>1, <1>t, <1>e, <2>1
  <2>2. \A i \in 1 .. b : a + i \in 0 .. a + b /\ ~(a + i <= a) /\ (a + i) - a = i
    BY <1>1
  <2>3. nth[a + 0] = nth2[0] /\ sum[a + 0] = sum2[0]
    BY <1>1, <1>t, <1>e
  <2>4. \A i \in 1 .. b : nth[a + i] = nth2[i] /\ sum[a + i] = sum2[i]
    BY <2>2
  <2> HIDE DEF nth, sum
  <2> SUFFICES ASSUME NEW i \in 0 .. b
               PROVE  nth[a + i] = nth2[i] /\ sum[a + i] = sum2[i]
    OBVIOUS
  <2>5. CASE i = 0
    BY <2>3, <2>5
  <2>6. CASE i # 0
    <3>1. i \in 1 .. b
      BY <1>1, <2>6
    <3> QED
      BY <2>4, <3>1
  <2> QED
    BY <2>5, <2>6
<1> HIDE DEF nth, sum
<1>8. ASSUME NEW i \in 1 .. a + b
      PROVE  /\ sum[i] = sum[i - 1] + Amount(su[i])
             /\ su[i].kind = "row" => nth[i] = nth[i - 1] + 1 /\ su[i].v = rows[nth[i]]
             /\ su[i].kind # "row" => nth[i] = nth[i - 1]
  <2>1. CASE i <= a
    <3>1. i \in 1 .. a /\ i \in 0 .. a /\ i - 1 \in 0 .. a
      BY <1>1, <2>1
    <3> QED
      BY <1>1, <1>2, <1>6, <3>1, Zenon
  <2>2. CASE i > a
    <3> DEFINE h == i - a
    <3>1. h \in 1 .. b /\ h \in 0 .. b /\ h - 1 \in 0 .. b /\ i = a + h /\ i - 1 = a + (h - 1)
      BY <1>1, <2>2
    <3> HIDE DEF h
    <3>2. nth[i] = nth2[h] /\ nth[i - 1] = nth2[h - 1]
          /\ sum[i] = sum2[h] /\ sum[i - 1] = sum2[h - 1] /\ su[i] = u[h]
      BY <1>1, <1>7, <3>1
    <3>3. /\ sum2[h] = sum2[h - 1] + Amount(u[h])
          /\ u[h].kind = "row" => nth2[h] = nth2[h - 1] + 1 /\ u[h].v = rows[nth2[h]]
          /\ u[h].kind # "row" => nth2[h] = nth2[h - 1]
      BY <1>3, <3>1
    <3> QED
      BY <3>2, <3>3, Zenon
  <2> QED
    BY <1>1, <2>1, <2>2
<1>9. Len(su) = a + b
  BY <1>1
<1>10. Bring(su, rows, j, l, m, o)
  <2>1. nth \in [0 .. Len(su) -> Nat] /\ sum \in [0 .. Len(su) -> Nat]
        /\ nth[Len(su)] = l /\ sum[Len(su)] = o
    BY <1>4, <1>5, <1>9
  <2>2. \A i \in 1 .. Len(su) :
           /\ sum[i] = sum[i - 1] + Amount(su[i])
           /\ su[i].kind = "row" => nth[i] = nth[i - 1] + 1 /\ su[i].v = rows[nth[i]]
           /\ su[i].kind # "row" => nth[i] = nth[i - 1]
    BY <1>8, <1>9, Zenon
  <2> QED
    BY <1>4, <2>1, <2>2, Zenon DEF Bring
<1> QED
  BY <1>10 DEF su

LEMMA BringNothing ==
  ASSUME NEW s \in Seq(Silent), NEW rows, NEW j \in Nat, NEW m \in Nat
  PROVE  s \in Seq(Tokens) /\ Bring(s, rows, j, j, m, m)
<1>1. Len(s) \in Nat /\ \A i \in 1 .. Len(s) : s[i] \in Silent
  BY ElementOfSeq, LenProperties
<1>2. s \in Seq(Tokens)
  BY <1>1 DEF Silent
<1>3. \A i \in 1 .. Len(s) : s[i].kind # "row" /\ Amount(s[i]) = 0
  BY <1>1 DEF Silent
<1> DEFINE nth == [i \in 0 .. Len(s) |-> j]
           sum == [i \in 0 .. Len(s) |-> m]
<1>4. nth \in [0 .. Len(s) -> Nat] /\ sum \in [0 .. Len(s) -> Nat]
  OBVIOUS
<1>5. /\ nth[0] = j /\ nth[Len(s)] = j /\ sum[0] = m /\ sum[Len(s)] = m
      /\ \A i \in 1 .. Len(s) : sum[i] = m /\ sum[i - 1] = m /\ nth[i] = nth[i - 1]
  BY <1>1
<1> HIDE DEF nth, sum
<1>6. \A i \in 1 .. Len(s) : /\ sum[i] = sum[i - 1] + Amount(s[i])
                            /\ s[i].kind # "row" /\ nth[i] = nth[i - 1]
  BY <1>3, <1>5
<1> QED
  BY <1>2, <1>4, <1>5, <1>6 DEF Bring

LEMMA BringStatement ==
  ASSUME NEW id \in Nat, NEW n \in 0 .. 2, NEW c \in BOOLEAN, NEW kind \in {"done", "doneInProc"},
         NEW rows, NEW j \in Nat, NEW m \in Nat,
         \A i \in 1 .. n : rows[j + i] = <<id, i>>
  PROVE  /\ Statement(kind, id, n, c) \in Seq(Tokens)
         /\ Bring(Statement(kind, id, n, c), rows, j, j + n, m, IF c THEN m + n ELSE m)
<1> DEFINE s == Statement(kind, id, n, c)
           v == IF c THEN n ELSE NoCount
           row(i) == Token("row", <<id, i>>, FALSE)
           done == Token(kind, v, FALSE)
           a == IF c THEN m + n ELSE m
<1>1. s = [i \in 1 .. n + 1 |-> IF i <= n THEN row(i) ELSE done]
  BY DEF Statement, Numbered
<1>2. v \in Nat /\ NoCount \in Nat /\ n # NoCount /\ a \in Nat
  BY DEF NoCount
<1>3. \A i \in 1 .. n : row(i) \in Tokens /\ row(i).kind = "row" /\ row(i).v = <<id, i>>
                        /\ Amount(row(i)) = 0
  BY DEF Token, Tokens, Amount, Dones, RowIds
<1>4. done \in Tokens /\ done.kind # "row" /\ a = m + Amount(done)
  BY <1>2 DEF Token, Tokens, Amount, Dones
<1> DEFINE nth == [i \in 0 .. n + 1 |-> IF i <= n THEN j + i ELSE j + n]
           sum == [i \in 0 .. n + 1 |-> IF i <= n THEN m ELSE a]
<1>5. /\ nth \in [0 .. n + 1 -> Nat] /\ sum \in [0 .. n + 1 -> Nat]
      /\ nth[0] = j /\ nth[n + 1] = j + n /\ sum[0] = m /\ sum[n + 1] = a
      /\ nth[n] = j + n /\ sum[n] = m
      /\ \A i \in 1 .. n : /\ nth[i] = j + i /\ nth[i - 1] + 1 = j + i
                           /\ sum[i] = m /\ sum[i - 1] = m
  BY <1>2
<1> HIDE DEF s, row, done, a, nth, sum
<1>6. s \in Seq(Tokens) /\ Len(s) = n + 1
  <2>1. \A i \in 1 .. n + 1 : (IF i <= n THEN row(i) ELSE done) \in Tokens
    BY <1>3, <1>4
  <2>2. n + 1 \in Nat
    OBVIOUS
  <2> QED
    BY <1>1, <2>1, <2>2
<1>7. s[n + 1] = done /\ \A i \in 1 .. n : s[i] = row(i)
  BY <1>1
<1>8. \A i \in 1 .. n : /\ sum[i] = sum[i - 1] + Amount(s[i])
                       /\ s[i].kind = "row" /\ nth[i] = nth[i - 1] + 1 /\ s[i].v = rows[nth[i]]
  <2> SUFFICES ASSUME NEW i \in 1 .. n
               PROVE  /\ sum[i] = sum[i - 1] + Amount(s[i])
                      /\ s[i].kind = "row" /\ nth[i] = nth[i - 1] + 1 /\ s[i].v = rows[nth[i]]
    OBVIOUS
  <2>1. s[i] = row(i) /\ m + 0 = m
    BY <1>7
  <2>2. Amount(s[i]) = 0 /\ s[i].kind = "row" /\ s[i].v = <<id, i>>
    BY <1>3, <2>1
  <2> QED
    BY <1>5, <2>1, <2>2
<1>9. /\ sum[n + 1] = sum[(n + 1) - 1] + Amount(s[n + 1])
      /\ s[n + 1].kind # "row" /\ nth[n + 1] = nth[(n + 1) - 1]
  BY <1>4, <1>5, <1>7
<1>10. \A i \in 1 .. n + 1 :
         /\ sum[i] = sum[i - 1] + Amount(s[i])
         /\ s[i].kind = "row" => nth[i] = nth[i - 1] + 1 /\ s[i].v = rows[nth[i]]
         /\ s[i].kind # "row" => nth[i] = nth[i - 1]
  <2>1. \A i \in 1 .. n + 1 : i \in 1 .. n \/ i = n + 1
    OBVIOUS
  <2> QED
    BY <1>8, <1>9, <2>1, Zenon
<1>11. Bring(s, rows, j, j + n, m, a)
  <2>1. /\ nth \in [0 .. Len(s) -> Nat] /\ sum \in [0 .. Len(s) -> Nat]
        /\ nth[Len(s)] = j + n /\ sum[Len(s)] = a
    BY <1>5, <1>6
  <2>2. \A i \in 1 .. Len(s) :
         /\ sum[i] = sum[i - 1] + Amount(s[i])
         /\ s[i].kind = "row" => nth[i] = nth[i - 1] + 1 /\ s[i].v = rows[nth[i]]
         /\ s[i].kind # "row" => nth[i] = nth[i - 1]
    BY <1>6, <1>10, Zenon
  <2> QED
    BY <1>5, <2>1, <2>2, Zenon DEF Bring
<1> QED
  BY <1>6, <1>11 DEF s, a

\* The next token brings its part.
LEMMA BringNext ==
  ASSUME NEW s \in Seq(Tokens), s # <<>>, NEW rows, NEW j \in Nat, NEW k \in Nat,
         NEW m \in Nat, NEW n \in Nat, Bring(s, rows, j, k, m, n)
  PROVE  /\ s[1].kind = "row" => s[1].v = rows[j + 1]
         /\ Bring(Tail(s), rows, IF s[1].kind = "row" THEN j + 1 ELSE j, k, m + Amount(s[1]), n)
<1>1. PICK nth \in [0 .. Len(s) -> Nat], sum \in [0 .. Len(s) -> Nat] :
        /\ nth[0] = j /\ nth[Len(s)] = k /\ sum[0] = m /\ sum[Len(s)] = n
        /\ \A i \in 1 .. Len(s) :
             /\ sum[i] = sum[i - 1] + Amount(s[i])
             /\ s[i].kind = "row" => nth[i] = nth[i - 1] + 1 /\ s[i].v = rows[nth[i]]
             /\ s[i].kind # "row" => nth[i] = nth[i - 1]
  BY DEF Bring
<1> DEFINE b == Len(s) - 1
           u == Tail(s)
           nth1 == [i \in 0 .. b |-> nth[i + 1]]
           sum1 == [i \in 0 .. b |-> sum[i + 1]]
<1>2. /\ Len(s) \in Nat /\ b \in Nat /\ Len(u) = b /\ 1 \in 1 .. Len(s)
      /\ \A i \in 1 .. b : u[i] = s[i + 1]
  BY LenProperties
<1>3. /\ sum[1] = sum[1 - 1] + Amount(s[1])
      /\ s[1].kind = "row" => nth[1] = nth[1 - 1] + 1 /\ s[1].v = rows[nth[1]]
      /\ s[1].kind # "row" => nth[1] = nth[1 - 1]
  BY <1>1, <1>2
<1>4. /\ sum[1] = m + Amount(s[1])
      /\ s[1].kind = "row" => nth[1] = j + 1 /\ s[1].v = rows[j + 1]
      /\ s[1].kind # "row" => nth[1] = j
  BY <1>1, <1>3
<1>5. nth1 \in [0 .. b -> Nat] /\ sum1 \in [0 .. b -> Nat]
  BY <1>2
<1>6. /\ nth1[0] = nth[1] /\ nth1[b] = k /\ sum1[0] = sum[1] /\ sum1[b] = n
      /\ \A i \in 0 .. b : nth1[i] = nth[i + 1] /\ sum1[i] = sum[i + 1]
  BY <1>1, <1>2
<1>e. /\ s[1].kind = "row" => nth1[0] = j + 1
      /\ s[1].kind # "row" => nth1[0] = j
      /\ sum1[0] = m + Amount(s[1])
  BY <1>4, <1>6
<1> HIDE DEF u, b, nth1, sum1
<1>7. \A i \in 1 .. b :
        /\ sum1[i] = sum1[i - 1] + Amount(u[i])
        /\ u[i].kind = "row" => nth1[i] = nth1[i - 1] + 1 /\ u[i].v = rows[nth1[i]]
        /\ u[i].kind # "row" => nth1[i] = nth1[i - 1]
  <2> SUFFICES ASSUME NEW i \in 1 .. b
               PROVE  /\ sum1[i] = sum1[i - 1] + Amount(u[i])
                      /\ u[i].kind = "row" => nth1[i] = nth1[i - 1] + 1 /\ u[i].v = rows[nth1[i]]
                      /\ u[i].kind # "row" => nth1[i] = nth1[i - 1]
    OBVIOUS
  <2> DEFINE h == i + 1
  <2>1. h \in 1 .. Len(s) /\ i \in 0 .. b /\ i - 1 \in 0 .. b /\ h - 1 = i /\ (i - 1) + 1 = i
    BY <1>2 DEF b
  <2>2. u[i] = s[h] /\ nth1[i] = nth[h] /\ sum1[i] = sum[h]
        /\ nth1[i - 1] = nth[h - 1] /\ sum1[i - 1] = sum[h - 1]
    BY <1>2, <1>6, <2>1
  <2> HIDE DEF h
  <2>3. /\ sum[h] = sum[h - 1] + Amount(s[h])
        /\ s[h].kind = "row" => nth[h] = nth[h - 1] + 1 /\ s[h].v = rows[nth[h]]
        /\ s[h].kind # "row" => nth[h] = nth[h - 1]
    BY <1>1, <2>1
  <2> QED
    BY <2>2, <2>3, Zenon
<1>8. ASSUME NEW l, nth1[0] = l PROVE Bring(u, rows, l, k, m + Amount(s[1]), n)
  <2>1. b = Len(u)
    BY <1>2
  <2> QED
    BY <1>5, <1>6, <1>7, <1>8, <1>e, <2>1, Zenon DEF Bring
<1>9. nth1[0] = IF s[1].kind = "row" THEN j + 1 ELSE j
  BY <1>e
<1> QED
  BY <1>4, <1>8, <1>9, Zenon DEF u

LEMMA BringSilent ==
  ASSUME NEW s \in Seq(Tokens), NEW u \in Seq(Silent), NEW rows, NEW j \in Nat, NEW k \in Nat,
         NEW m \in Nat, NEW n \in Nat, Bring(s, rows, j, k, m, n)
  PROVE  s \o u \in Seq(Tokens) /\ Bring(s \o u, rows, j, k, m, n)
<1>1. u \in Seq(Tokens) /\ Bring(u, rows, k, k, n, n)
  BY BringNothing
<1> QED
  BY <1>1, BringConcat, ConcatProperties

\* The parts of an answer.
LEMMA Pieces ==
  ASSUME NEW id \in Nat, NEW op, NEW f \in BOOLEAN, NEW g \in BOOLEAN
  PROVE  /\ Status(id, g) \in Seq(Sayable(id, op, f, "doneProc")) /\ Status(id, g) \in Seq(Silent)
         /\ Ending \in Seq(Sayable(id, op, f, "doneProc")) /\ Ending \in Seq(Silent)
         /\ Ending # <<>> /\ Ending[Len(Ending)].kind = "doneProc"
         /\ <<>> \in Seq(Sayable(id, op, f, "doneProc")) /\ <<>> \in Seq(Silent)
<1> DEFINE Said == Sayable(id, op, f, "doneProc")
           given == Token("status", id, FALSE)
           done == Token("doneProc", NoCount, FALSE)
<1>1. given \in Said /\ given \in Silent
  BY DEF Sayable, Token, Tokens, Silent, Amount, Dones
<1>2. done \in Said /\ done \in Silent /\ done.kind = "doneProc"
  BY DEF Sayable, Token, Tokens, Silent, Amount, Dones, NoCount
<1>3. /\ Status(id, g) = IF g THEN <<given>> ELSE <<>>
      /\ Ending = <<done>>
  BY DEF Status, Ending
<1> HIDE DEF Said, given, done
<1>4. /\ <<given>> \in Seq(Said) /\ <<given>> \in Seq(Silent)
      /\ <<done>> \in Seq(Said) /\ <<done>> \in Seq(Silent)
      /\ <<>> \in Seq(Said) /\ <<>> \in Seq(Silent)
      /\ <<done>> # <<>> /\ <<done>>[Len(<<done>>)] = done
  BY <1>1, <1>2
<1> QED
  BY <1>2, <1>3, <1>4 DEF Said

\* An output value: of prepare() the statement's handle, of execute() any.
LEMMA HandlePiece ==
  ASSUME NEW id \in Nat, NEW op \in {"prepare", "execute"}, NEW f \in BOOLEAN, NEW n \in Nat,
         op = "prepare" => n = id
  PROVE  /\ Handle(n) \in Seq(Sayable(id, op, f, "doneProc")) /\ Handle(n) \in Seq(Silent)
         /\ Len(Handle(n)) = 1 /\ Handle(n)[1].kind = "handle"
<1> DEFINE Said == Sayable(id, op, f, "doneProc")
           handle == Token("handle", n, FALSE)
<1>1. handle \in Said /\ handle \in Silent /\ handle.kind = "handle"
  BY DEF Sayable, Token, Tokens, Silent, Amount, Dones
<1>2. Handle(n) = <<handle>>
  BY DEF Handle
<1> HIDE DEF Said, handle
<1>3. <<handle>> \in Seq(Said) /\ <<handle>> \in Seq(Silent) /\ Len(<<handle>>) = 1 /\ <<handle>>[1] = handle
  BY <1>1
<1> QED
  BY <1>1, <1>2, <1>3 DEF Said

LEMMA OutputPieces ==
  ASSUME TypeOK, NEW id \in Nat, NEW v \in Outputs(id)
  PROVE  v \in Seq(Sayable(id, "execute", FALSE, "doneProc")) /\ v \in Seq(Silent)
<1> DEFINE Said == Sayable(id, "execute", FALSE, "doneProc")
           value == Token("value", id, FALSE)
<1>1. value \in Said /\ value \in Silent
  BY DEF Sayable, Token, Tokens, Silent, Amount, Dones
<1>2. \/ v = <<>> \/ v = <<value>>
      \/ \E n \in {0} \cup {h.handle : h \in handles} : v = Handle(n)
  BY DEF Outputs
<1>3. CASE \E n \in {0} \cup {h.handle : h \in handles} : v = Handle(n)
  <2>1. PICK n \in {0} \cup {h.handle : h \in handles} : v = Handle(n)
    BY <1>3
  <2>2. n \in Nat
    BY DEF TypeOK
  <2> QED
    BY <2>1, <2>2, HandlePiece
<1> HIDE DEF Said, value
<1>4. CASE v = <<>>
  BY <1>4 DEF Said
<1>5. CASE v = <<value>>
  <2>1. <<value>> \in Seq(Said) /\ <<value>> \in Seq(Silent)
    BY <1>1
  <2> QED
    BY <1>5, <2>1 DEF Said
<1> QED
  BY <1>2, <1>3, <1>4, <1>5

LEMMA StatementPiece ==
  ASSUME NEW id \in Nat, NEW op, NEW f \in BOOLEAN, NEW closing, NEW n \in 0 .. 2, NEW c \in BOOLEAN,
         NEW kind \in {"done", "doneInProc"}
  PROVE  /\ Statement(kind, id, n, c) \in Seq(Sayable(id, op, f, closing))
         /\ Statement(kind, id, n, c) # <<>>
         /\ Statement(kind, id, n, c)[Len(Statement(kind, id, n, c))].kind = kind
<1> DEFINE Said == Sayable(id, op, f, closing)
           v == IF c THEN n ELSE NoCount
           row(i) == Token("row", <<id, i>>, FALSE)
           done == Token(kind, v, FALSE)
           s == Statement(kind, id, n, c)
<1>1. s = [i \in 1 .. n + 1 |-> IF i <= n THEN row(i) ELSE done]
  BY DEF Statement, Numbered
<1>2. v \in Nat
  BY DEF NoCount
<1>3. \A i \in 1 .. n : row(i) \in Said
  BY DEF Token, Tokens, Sayable, Dones, RowIds
<1>4. done \in Said /\ done.kind = kind
  BY <1>2 DEF Token, Tokens, Sayable, Dones
<1> HIDE DEF s, row, done, Said
<1>5. \A i \in 1 .. n + 1 : (IF i <= n THEN row(i) ELSE done) \in Said
  BY <1>3, <1>4
<1>6. n + 1 \in Nat
  OBVIOUS
<1>7. s \in Seq(Said) /\ Len(s) = n + 1 /\ s # <<>> /\ s[n + 1] = done
  BY <1>1, <1>5, <1>6
<1> QED
  BY <1>4, <1>7 DEF s, Said

LEMMA FailingPiece ==
  ASSUME NEW id \in Nat, NEW op, NEW g \in BOOLEAN, NEW kind \in {"done", "doneProc"}
  PROVE  /\ Failing(id, kind, g) \in Seq(Sayable(id, op, TRUE, kind)) /\ Failing(id, kind, g) # <<>>
         /\ Failing(id, kind, g)[Len(Failing(id, kind, g))].kind = kind
         /\ Failing(id, kind, g)[Len(Failing(id, kind, g))].failed
<1> DEFINE Said == Sayable(id, op, TRUE, kind)
           error == Token("error", id, FALSE)
           done == Token(kind, NoCount, TRUE)
           said == IF g THEN <<error>> ELSE <<>>
<1>1. error \in Said
  BY DEF Sayable, Token, Tokens, Dones
<1>2. done \in Said /\ done.kind = kind /\ done.failed
  BY DEF Sayable, Token, Tokens, Dones, NoCount
<1>3. Failing(id, kind, g) = said \o <<done>>
  BY DEF Failing
<1> HIDE DEF Said, error, done
<1>4. said \in Seq(Said) /\ <<done>> \in Seq(Said) /\ <<done>> # <<>>
      /\ <<done>>[Len(<<done>>)] = done
  BY <1>1, <1>2
<1> HIDE DEF said
<1>5. /\ said \o <<done>> \in Seq(Said) /\ said \o <<done>> # <<>>
      /\ (said \o <<done>>)[Len(said \o <<done>>)] = done
  BY <1>4, LastOfConcat
<1> QED
  BY <1>2, <1>3, <1>5 DEF Said

LEMMA NumberedRows ==
  ASSUME NEW id \in Nat, NEW n \in Nat
  PROVE  /\ Numbered(id, n) \in Seq(RowIds) /\ Len(Numbered(id, n)) = n
         /\ \A i \in 1 .. n : Numbered(id, n)[i] = <<id, i>>
<1>1. \A i \in 1 .. n : <<id, i>> \in RowIds
  BY DEF RowIds
<1> QED
  BY <1>1 DEF Numbered

\* An answer to call id, of operation op, that tells what became of the call.
Tells(a, id, op) ==
  LET t == a.tokens IN
  /\ t \in Seq(Tokens) /\ a.failed \in BOOLEAN /\ a.rows \in Seq(RowIds) /\ a.count \in Nat
  /\ t # <<>> /\ t[Len(t)].kind \in {"done", "doneProc"}
  /\ t \in Seq(Sayable(id, op, a.failed, t[Len(t)].kind))
  /\ a.failed => t[Len(t)].failed
  /\ ~a.failed =>
       /\ Bring(t, a.rows, 0, Len(a.rows), 0, a.count)
       /\ op = "prepare" => \E i \in 1 .. Len(t) : t[i].kind = "handle"

LEMMA FailedTells ==
  ASSUME NEW id, NEW op, NEW kind \in {"done", "doneProc"},
         NEW t \in Seq(Sayable(id, op, TRUE, kind)), NEW rows \in Seq(RowIds),
         t # <<>>, t[Len(t)].kind = kind, t[Len(t)].failed
  PROVE  Tells(Reply(t, TRUE, rows, TRUE), id, op)
<1>1. t \in Seq(Tokens)
  <2>1. Len(t) \in Nat /\ \A i \in 1 .. Len(t) : t[i] \in Sayable(id, op, TRUE, kind)
    BY ElementOfSeq, LenProperties
  <2> QED
    BY <2>1 DEF Sayable
<1>2. Len(rows) \in Nat
  OBVIOUS
<1> QED
  BY <1>1, <1>2 DEF Tells, Reply

LEMMA SuccessTells ==
  ASSUME NEW id, NEW op, NEW kind \in {"done", "doneProc"}, NEW c \in BOOLEAN,
         NEW t \in Seq(Sayable(id, op, FALSE, kind)), NEW rows \in Seq(RowIds),
         t # <<>>, t[Len(t)].kind = kind,
         Bring(t, rows, 0, Len(rows), 0, IF c THEN Len(rows) ELSE 0),
         op = "prepare" => \E i \in 1 .. Len(t) : t[i].kind = "handle"
  PROVE  Tells(Reply(t, FALSE, rows, c), id, op)
<1> DEFINE a == Reply(t, FALSE, rows, c)
           n == IF c THEN Len(rows) ELSE 0
<1>1. t \in Seq(Tokens)
  <2>1. Len(t) \in Nat /\ \A i \in 1 .. Len(t) : t[i] \in Sayable(id, op, FALSE, kind)
    BY ElementOfSeq, LenProperties
  <2> QED
    BY <2>1 DEF Sayable
<1>2. n \in Nat
  OBVIOUS
<1>3. a.tokens = t /\ a.failed = FALSE /\ a.rows = rows /\ a.count = n
  BY DEF Reply
<1>4. Bring(t, rows, 0, Len(rows), 0, n)
  OBVIOUS
<1> HIDE DEF a, n
<1>5. Tells(a, id, op)
  BY <1>1, <1>2, <1>3, <1>4 DEF Tells
<1> QED
  BY <1>5 DEF a

LEMMA ProcTells ==
  ASSUME NEW id \in Nat, NEW op \in Ops, op # "prepare", NEW outputs,
         \A v \in outputs : v \in Seq(Sayable(id, op, FALSE, "doneProc")) /\ v \in Seq(Silent),
         NEW a \in ProcReplies(id, outputs)
  PROVE  Tells(a, id, op)
<1>1. ASSUME NEW n \in 0 .. 1, NEW g \in BOOLEAN, NEW s \in BOOLEAN
      PROVE  Tells(FailedProc(id, n, g, s), id, op)
  <2> DEFINE Said == Sayable(id, op, TRUE, "doneProc")
             head == Statement("doneInProc", id, n, TRUE) \o Status(id, g)
             t == head \o Failing(id, "doneProc", s)
  <2>1. n \in 0 .. 2 /\ n \in Nat
    OBVIOUS
  <2>2. Statement("doneInProc", id, n, TRUE) \in Seq(Said) /\ Status(id, g) \in Seq(Said)
    BY <2>1, StatementPiece, Pieces
  <2>3. head \in Seq(Said)
    BY <2>2, ConcatProperties
  <2>4. Failing(id, "doneProc", s) \in Seq(Said) /\ Failing(id, "doneProc", s) # <<>>
        /\ Failing(id, "doneProc", s)[Len(Failing(id, "doneProc", s))].kind = "doneProc"
        /\ Failing(id, "doneProc", s)[Len(Failing(id, "doneProc", s))].failed
    BY FailingPiece
  <2> HIDE DEF Said, head
  <2>5. t \in Seq(Said) /\ t # <<>> /\ t[Len(t)].kind = "doneProc" /\ t[Len(t)].failed
    BY <2>3, <2>4, LastOfConcat
  <2>6. Numbered(id, n) \in Seq(RowIds)
    BY <2>1, NumberedRows
  <2> HIDE DEF t
  <2>7. Tells(Reply(t, TRUE, Numbered(id, n), TRUE), id, op)
    BY <2>5, <2>6, FailedTells DEF Said
  <2> QED
    BY <2>7 DEF t, head, FailedProc
<1>2. ASSUME NEW n \in {0, 2}, NEW c \in BOOLEAN, NEW v \in outputs
      PROVE  Tells(EndedProc(id, n, c, v), id, op)
  <2> DEFINE Said == Sayable(id, op, FALSE, "doneProc")
             rows == Numbered(id, n)
             s0 == Statement("doneInProc", id, n, c)
             s1 == s0 \o v
             s2 == s1 \o Status(id, TRUE)
             t == s2 \o Ending
             m == IF c THEN n ELSE 0
  <2>1. n \in 0 .. 2 /\ n \in Nat /\ m \in Nat
    OBVIOUS
  <2>2. /\ s0 \in Seq(Said)
        /\ v \in Seq(Said) /\ v \in Seq(Silent)
        /\ Status(id, TRUE) \in Seq(Said) /\ Status(id, TRUE) \in Seq(Silent)
        /\ Ending \in Seq(Said) /\ Ending \in Seq(Silent)
        /\ Ending # <<>> /\ Ending[Len(Ending)].kind = "doneProc"
    BY <2>1, StatementPiece, Pieces
  <2>3. rows \in Seq(RowIds) /\ Len(rows) = n /\ \A i \in 1 .. n : rows[0 + i] = <<id, i>>
    BY <2>1, NumberedRows
  <2>4. s0 \in Seq(Tokens) /\ Bring(s0, rows, 0, n, 0, m)
    <3> HIDE DEF rows
    <3>1. /\ s0 \in Seq(Tokens)
          /\ Bring(s0, rows, 0, 0 + n, 0, IF c THEN 0 + n ELSE 0)
      BY <2>1, <2>3, BringStatement
    <3>2. 0 + n = n /\ (IF c THEN 0 + n ELSE 0) = m
      BY <2>1
    <3> QED
      BY <3>1, <3>2
  <2> HIDE DEF Said, rows, s0, m
  <2>5. s1 \in Seq(Said) /\ s1 \in Seq(Tokens) /\ Bring(s1, rows, 0, n, 0, m)
    BY <2>1, <2>2, <2>4, BringSilent, ConcatProperties
  <2> HIDE DEF s1
  <2>6. s2 \in Seq(Said) /\ s2 \in Seq(Tokens) /\ Bring(s2, rows, 0, n, 0, m)
    BY <2>1, <2>2, <2>5, BringSilent, ConcatProperties
  <2> HIDE DEF s2
  <2>7. t \in Seq(Tokens) /\ Bring(t, rows, 0, n, 0, m)
    BY <2>1, <2>2, <2>6, BringSilent
  <2>8. t \in Seq(Said) /\ t # <<>> /\ t[Len(t)].kind = "doneProc"
    BY <2>2, <2>6, LastOfConcat
  <2> HIDE DEF t
  <2>9. Bring(t, rows, 0, Len(rows), 0, IF c THEN Len(rows) ELSE 0)
    BY <2>3, <2>7 DEF m
  <2>10. Tells(Reply(t, FALSE, rows, c), id, op)
    BY <2>3, <2>8, <2>9, SuccessTells DEF Said
  <2> QED
    BY <2>10 DEF t, s2, s1, s0, rows, EndedProc
<1>3. CASE \E w \in [n : 0 .. 1, given : BOOLEAN, said : BOOLEAN] : a = FailedProc(id, w.n, w.given, w.said)
  BY <1>1, <1>3
<1>4. CASE \E w \in [n : {0, 2}, counted : BOOLEAN, output : outputs] :
             a = EndedProc(id, w.n, w.counted, w.output)
  BY <1>2, <1>4
<1> QED
  BY <1>3, <1>4 DEF ProcReplies

LEMMA BatchTells ==
  ASSUME NEW id \in Nat, NEW op \in Ops, op # "prepare", NEW a \in BatchReplies(id)
  PROVE  Tells(a, id, op)
<1>1. ASSUME NEW s \in BOOLEAN
      PROVE  Tells(Reply(Statement("done", id, 1, TRUE) \o Failing(id, "done", s),
                         TRUE, Numbered(id, 1), TRUE), id, op)
  <2> DEFINE Said == Sayable(id, op, TRUE, "done")
             head == Statement("done", id, 1, TRUE)
             t == head \o Failing(id, "done", s)
  <2>0. 1 \in 0 .. 2
    OBVIOUS
  <2>1. head \in Seq(Said)
    BY <2>0, StatementPiece
  <2>2. Failing(id, "done", s) \in Seq(Said) /\ Failing(id, "done", s) # <<>>
        /\ Failing(id, "done", s)[Len(Failing(id, "done", s))].kind = "done"
        /\ Failing(id, "done", s)[Len(Failing(id, "done", s))].failed
    BY FailingPiece
  <2> HIDE DEF Said, head
  <2>3. t \in Seq(Said) /\ t # <<>> /\ t[Len(t)].kind = "done" /\ t[Len(t)].failed
    BY <2>1, <2>2, LastOfConcat
  <2>4. Numbered(id, 1) \in Seq(RowIds)
    BY NumberedRows
  <2> HIDE DEF t
  <2>5. Tells(Reply(t, TRUE, Numbered(id, 1), TRUE), id, op)
    BY <2>3, <2>4, FailedTells DEF Said
  <2> QED
    BY <2>5 DEF t, head
<1>2. ASSUME NEW n \in 0 .. 1
      PROVE  Tells(Reply(Statement("done", id, 1, TRUE) \o Statement("done", id, n, TRUE), FALSE,
                         Numbered(id, 1) \o Numbered(id, n), TRUE), id, op)
  <2> DEFINE Said == Sayable(id, op, FALSE, "done")
             first == Statement("done", id, 1, TRUE)
             second == Statement("done", id, n, TRUE)
             rows == Numbered(id, 1) \o Numbered(id, n)
             t == first \o second
  <2>1. n \in 0 .. 2 /\ n \in Nat /\ 1 + n \in Nat /\ 1 \in 0 .. 2 /\ 1 \in Nat /\ 0 \in Nat
    OBVIOUS
  <2>2. first \in Seq(Said) /\ second \in Seq(Said) /\ second # <<>>
        /\ second[Len(second)].kind = "done"
    BY <2>1, StatementPiece
  <2>3. /\ rows \in Seq(RowIds) /\ Len(rows) = 1 + n
        /\ \A i \in 1 .. 1 : rows[0 + i] = <<id, i>>
        /\ \A i \in 1 .. n : rows[1 + i] = <<id, i>>
    <3>1. /\ Numbered(id, 1) \in Seq(RowIds) /\ Len(Numbered(id, 1)) = 1
          /\ Numbered(id, n) \in Seq(RowIds) /\ Len(Numbered(id, n)) = n
          /\ \A i \in 1 .. 1 : Numbered(id, 1)[i] = <<id, i>>
          /\ \A i \in 1 .. n : Numbered(id, n)[i] = <<id, i>>
      BY <2>1, NumberedRows
    <3> QED
      BY <2>1, <3>1, ConcatProperties
  <2> HIDE DEF rows
  <2>4. first \in Seq(Tokens) /\ Bring(first, rows, 0, 1, 0, 1)
    <3>1. /\ first \in Seq(Tokens)
          /\ Bring(first, rows, 0, 0 + 1, 0, IF TRUE THEN 0 + 1 ELSE 0)
      BY <2>1, <2>3, BringStatement
    <3>2. 0 + 1 = 1 /\ (IF TRUE THEN 0 + 1 ELSE 0) = 1
      OBVIOUS
    <3> HIDE DEF first
    <3> QED
      BY <3>1, <3>2
  <2>5. second \in Seq(Tokens) /\ Bring(second, rows, 1, 1 + n, 1, 1 + n)
    <3>1. /\ second \in Seq(Tokens)
          /\ Bring(second, rows, 1, 1 + n, 1, IF TRUE THEN 1 + n ELSE 1)
      BY <2>1, <2>3, BringStatement
    <3> QED
      BY <3>1
  <2> HIDE DEF Said, first, second
  <2>6. Bring(t, rows, 0, 1 + n, 0, 1 + n)
    BY <2>1, <2>4, <2>5, BringConcat
  <2>7. t \in Seq(Said) /\ t # <<>> /\ t[Len(t)].kind = "done"
    BY <2>2, LastOfConcat
  <2> HIDE DEF t
  <2>8. Bring(t, rows, 0, Len(rows), 0, IF TRUE THEN Len(rows) ELSE 0)
    BY <2>3, <2>6
  <2>9. Tells(Reply(t, FALSE, rows, TRUE), id, op)
    BY <2>3, <2>7, <2>8, SuccessTells DEF Said
  <2> QED
    BY <2>9 DEF t, first, second, rows
<1> QED
  BY <1>1, <1>2 DEF BatchReplies

LEMMA SystemTells ==
  ASSUME NEW id \in Nat, NEW op \in Ops, NEW lives \in BOOLEAN,
         NEW a \in SystemReplies(id, IF op = "prepare" THEN Handle(id) ELSE <<>>, lives)
  PROVE  Tells(a, id, op)
<1>1. ASSUME NEW g \in BOOLEAN
      PROVE  Tells(Reply(Status(id, g) \o Failing(id, "doneProc", TRUE), TRUE, <<>>, TRUE), id, op)
  <2> DEFINE Said == Sayable(id, op, TRUE, "doneProc")
             t == Status(id, g) \o Failing(id, "doneProc", TRUE)
             fail == Failing(id, "doneProc", TRUE)
  <2>1. Status(id, g) \in Seq(Said) /\ fail \in Seq(Said) /\ fail # <<>>
        /\ fail[Len(fail)].kind = "doneProc" /\ fail[Len(fail)].failed
    BY Pieces, FailingPiece
  <2> HIDE DEF Said
  <2>2. t \in Seq(Said) /\ t # <<>> /\ t[Len(t)].kind = "doneProc" /\ t[Len(t)].failed
    BY <2>1, LastOfConcat
  <2> HIDE DEF t
  <2>3. Tells(Reply(t, TRUE, <<>>, TRUE), id, op)
    BY <2>2, Basics, FailedTells DEF Said
  <2> QED
    BY <2>3 DEF t
<1>2. Tells(Reply((IF op = "prepare" THEN Handle(id) ELSE <<>>) \o Status(id, TRUE) \o Ending,
                  FALSE, <<>>, TRUE), id, op)
  <2> DEFINE Said == Sayable(id, op, FALSE, "doneProc")
             s0 == IF op = "prepare" THEN Handle(id) ELSE <<>>
             s1 == s0 \o Status(id, TRUE)
             t == s1 \o Ending
  <2>1. /\ s0 \in Seq(Said) /\ s0 \in Seq(Silent)
        /\ Status(id, TRUE) \in Seq(Said) /\ Status(id, TRUE) \in Seq(Silent)
        /\ Ending \in Seq(Said) /\ Ending \in Seq(Silent)
        /\ Ending # <<>> /\ Ending[Len(Ending)].kind = "doneProc"
        /\ op = "prepare" => Len(s0) = 1 /\ s0[1].kind = "handle"
    <3>1. CASE op = "prepare"
      BY <3>1, Pieces, HandlePiece
    <3>2. CASE op # "prepare"
      BY <3>2, Pieces
    <3> QED
      BY <3>1, <3>2
  <2>2. s1 \in Seq(Said) /\ s1 \in Seq(Silent)
    BY <2>1, ConcatProperties
  <2> HIDE DEF Said, s1
  <2>3. t \in Seq(Silent) /\ t \in Seq(Said) /\ t # <<>> /\ t[Len(t)].kind = "doneProc"
    BY <2>1, <2>2, LastOfConcat
  <2>4. Bring(t, <<>>, 0, Len(<<>>), 0, IF TRUE THEN Len(<<>>) ELSE 0)
    BY <2>3, BringNothing
  <2>5. ASSUME op = "prepare"
        PROVE  \E i \in 1 .. Len(t) : t[i].kind = "handle"
    <3> DEFINE h == s0[1]
    <3>1. h.kind = "handle"
      BY <2>1, <2>5
    <3>2. Len(s0) = 1 /\ s0[1] = h
      BY <2>1, <2>5
    <3> HIDE DEF h, s0
    <3>3. Len(s1) >= 1 /\ s1[1] = h
      <4> DEFINE u == Status(id, TRUE)
      <4>1. s0 \in Seq(Silent) /\ u \in Seq(Silent) /\ s1 = s0 \o u
        BY <2>1 DEF s1
      <4> HIDE DEF u
      <4>2. /\ Len(s1) = Len(s0) + Len(u) /\ Len(u) \in Nat
            /\ \A i \in 1 .. Len(s0) + Len(u) : s1[i] = IF i <= Len(s0) THEN s0[i] ELSE u[i - Len(s0)]
        BY <4>1, ConcatProperties, LenProperties
      <4> QED
        BY <3>2, <4>2
    <3> HIDE DEF s1
    <3>4. Len(t) >= 1 /\ Len(t) \in Nat /\ t[1] = h
      BY <2>1, <2>2, <3>3, ConcatProperties, LenProperties
    <3> QED
      BY <3>1, <3>4
  <2> HIDE DEF t, Said
  <2>6. Tells(Reply(t, FALSE, <<>>, TRUE), id, op)
    BY <2>3, <2>4, <2>5, Basics, SuccessTells DEF Said
  <2> QED
    BY <2>6 DEF t, s1, s0
<1> QED
  BY <1>1, <1>2 DEF SystemReplies

LEMMA RepliesTell ==
  ASSUME TypeOK, Busy, NEW a \in Replies
  PROVE  /\ Tells(a, call.id, call.op)
         /\ call.ignore => a.failed /\ a.rows = <<>> /\ a.count = 0
<1> DEFINE lives == \E h \in handles : h.handle = call.handle
<1>1. call.id \in Nat /\ call.op \in Ops /\ lives \in BOOLEAN
  BY MineExists DEF Flights
<1>2. CASE call.ignore
  <2> DEFINE t == <<Token("done", NoCount, TRUE)>>
             d == Token("done", NoCount, TRUE)
  <2>1. a = Reply(t, TRUE, <<>>, TRUE)
    <3>1. Replies = {Reply(<<Token("done", NoCount, TRUE)>>, TRUE, <<>>, TRUE)}
      BY <1>2, Zenon DEF Replies
    <3> QED
      BY <3>1
  <2> DEFINE Said == Sayable(call.id, call.op, TRUE, "done")
  <2>2. d \in Said /\ d.kind = "done" /\ d.failed
    BY DEF Sayable, Token, Tokens, Dones, NoCount
  <2>3. t = <<d>>
    OBVIOUS
  <2> HIDE DEF t, d, Said
  <2>4. t \in Seq(Said) /\ t # <<>> /\ t[Len(t)] = d
    BY <2>2, <2>3
  <2>5. Tells(Reply(t, TRUE, <<>>, TRUE), call.id, call.op)
    BY <2>2, <2>4, Basics, FailedTells DEF Said
  <2>6. a.failed /\ a.rows = <<>> /\ a.count = 0
    BY <2>1 DEF Reply
  <2> QED
    BY <2>1, <2>5, <2>6
<1>3. CASE ~call.ignore /\ call.op = "procedure"
  <2>1. a \in ProcReplies(call.id, {<<>>})
    BY <1>3 DEF Replies
  <2>2. \A v \in {<<>>} : v \in Seq(Sayable(call.id, call.op, FALSE, "doneProc")) /\ v \in Seq(Silent)
    BY <1>1, Pieces
  <2> QED
    BY <1>1, <1>3, <2>1, <2>2, ProcTells
<1>4. CASE ~call.ignore /\ call.op = "batch"
  <2>1. a \in BatchReplies(call.id)
    BY <1>4 DEF Replies
  <2> QED
    BY <1>1, <1>4, <2>1, BatchTells
<1>5. CASE ~call.ignore /\ call.op = "execute" /\ lives
  <2>1. a \in ProcReplies(call.id, Outputs(call.id))
    BY <1>5 DEF Replies
  <2>2. \A v \in Outputs(call.id) :
          v \in Seq(Sayable(call.id, call.op, FALSE, "doneProc")) /\ v \in Seq(Silent)
    BY <1>1, <1>5, OutputPieces
  <2> QED
    BY <1>1, <1>5, <2>1, <2>2, ProcTells
<1>6. CASE ~call.ignore /\ call.op = "prepare"
  <2>1. a \in SystemReplies(call.id, Handle(call.id), TRUE)
    BY <1>6 DEF Replies
  <2>2. a \in SystemReplies(call.id, IF call.op = "prepare" THEN Handle(call.id) ELSE <<>>, TRUE)
    BY <1>6, <2>1
  <2>3. Tells(a, call.id, call.op)
    BY <1>1, <2>2, SystemTells
  <2> QED
    BY <1>6, <2>3
<1>7. CASE ~call.ignore /\ call.op \notin {"procedure", "batch", "prepare"} /\ ~(call.op = "execute" /\ lives)
  <2>1. a \in SystemReplies(call.id, <<>>, lives)
    BY <1>7 DEF Replies
  <2>2. a \in SystemReplies(call.id, IF call.op = "prepare" THEN Handle(call.id) ELSE <<>>, lives)
    BY <1>7, <2>1
  <2>3. Tells(a, call.id, call.op)
    BY <1>1, <2>2, SystemTells
  <2> QED
    BY <1>7, <2>3
<1> QED
  BY <1>2, <1>3, <1>4, <1>5, <1>6, <1>7

---------------------------------------------------------------------------
(* The invariant is inductive.                                             *)

Inv == /\ TypeOK /\ CallsInv /\ FlightInv /\ AnswerInv /\ ErrorInv /\ ToldInv /\ StatusInv
       /\ HandlesInv /\ RowsInv

LEMMA FlightIsBusy == ASSUME NEW f \in Flights PROVE f # NoCall
BY DEF Flights, NoCall

LEMMA InitInv == Init => Inv
<1> SUFFICES ASSUME Init PROVE Inv
  OBVIOUS
<1>1. /\ \A r \in Requests : /\ req[r] \in Fields /\ req[r].handle = 0 /\ ~req[r].preparing
                             /\ pending[r] = 0 /\ used[r] = "new"
      /\ req \in [Requests -> Fields] /\ pending \in [Requests -> Nat]
      /\ used \in [Requests -> Ops \cup {"new"}]
  BY Basics DEF Init, Fields
<1>2. ~Busy /\ answer = <<>> /\ handles = {} /\ ticks = {} /\ state = "LOGGED_IN" /\ calls = 0
      /\ status = NoStatus /\ shown = Nothing /\ call = NoCall /\ stained = {} /\ late = {}
      /\ leaked = FALSE /\ misled = {}
  BY DEF Init, Busy
<1>3. /\ told.call = 0 /\ told.op = "none" /\ told.err = Ok /\ told.rows = <<>> /\ told.count = 0
      /\ told.shown = Nothing /\ told.truth = Truth
  BY DEF Init
<1>4. told \in Outcomes
  BY Basics DEF Init, Outcomes
<1>5. TypeOK
  <2>1. /\ answer \in Seq(Tokens) /\ ticks \subseteq [request : Requests, err : Errors]
        /\ stained \subseteq Nat /\ late \subseteq Nat /\ misled \subseteq Requests
        /\ handles \subseteq [handle : Nat, request : Requests]
    BY <1>2
  <2>2. /\ state \in {"LOGGED_IN", "BUSY"} /\ call \in Flights \cup {NoCall} /\ status \in Nat
        /\ calls \in Nat /\ leaked \in BOOLEAN /\ shown \in Showings
    BY <1>2, Basics DEF NoStatus
  <2> QED
    BY <1>1, <1>4, <2>1, <2>2, Zenon DEF TypeOK
<1>6. CallsInv
  BY <1>1, <1>2 DEF CallsInv
<1>7. FlightInv /\ ErrorInv
  BY <1>2 DEF FlightInv, ErrorInv
<1>8. AnswerInv
  <2>1. Len(answer) = 0
    BY <1>2
  <2> QED
    BY <1>2, <2>1 DEF AnswerInv
<1>9. ToldInv
  BY <1>3 DEF ToldInv, OutcomeIsServers, Truth
<1>10. StatusInv
  BY <1>2, Basics DEF StatusInv
<1>11. HandlesInv
  BY <1>1, <1>2 DEF HandlesInv, Own
<1>12. RowsInv
  BY <1>2, <1>3, Basics DEF RowsInv, ResultsAddUp, Truth
<1> QED
  BY <1>5, <1>6, <1>7, <1>8, <1>9, <1>10, <1>11, <1>12 DEF Inv

\* A step that keeps the call in flight, if there is one, but for finished and ignore.
CallKept ==
  Busy' => /\ Busy /\ Mine' = Mine /\ Mine \in Requests
           /\ call'.id = call.id /\ call'.op = call.op /\ call'.handle = call.handle
           /\ call'.executed = call.executed /\ call'.truth = call.truth

\* A step that touches no handle keeps whose handle is whose.
LEMMA HandlesFrame ==
  ASSUME TypeOK, HandlesInv, CallKept, UNCHANGED <<calls, used, misled, handles>>,
         \A x \in Requests : req'[x].handle = req[x].handle
  PROVE  HandlesInv'
<1>1. \A h \in handles : h.request \in Requests
  BY DEF TypeOK
<1>2. /\ \A h \in handles' : /\ h.handle \in 1 .. calls' /\ used'[h.request] = "prepare"
                             /\ h.request \in Own' => req'[h.request].handle \in {0, h.handle}
                             /\ \A r \in Own' : req'[r].handle = h.handle => r = h.request
      /\ \A g, h \in handles' : (g.handle = h.handle \/ g.request = h.request) => g = h
  BY <1>1 DEF HandlesInv, Own
<1>3. /\ \A r \in misled' : used'[r] = "prepare"
      /\ \A r \in Own' : req'[r].handle <= calls' /\ (used'[r] = "new" => req'[r].handle = 0)
  BY DEF HandlesInv, Own
<1>4. ASSUME Busy'
      PROVE  /\ (call'.op \in {"prepare", "execute", "unprepare"} <=> used'[Mine'] = "prepare")
             /\ \A h \in handles' : h.handle = call'.id => h.request = Mine'
             /\ \A r \in Own' : r # Mine' => req'[r].handle # call'.id
             /\ IF call'.op = "prepare"
                THEN /\ Mine' \in Own' /\ req'[Mine'].handle \in {0, call'.id}
                     /\ \A h \in handles' : h.request = Mine' => h.handle = call'.id /\ call'.executed
                ELSE Mine' \in Own' => call'.handle = req'[Mine'].handle /\ req'[Mine'].handle # call'.id
  BY <1>4 DEF HandlesInv, CallKept, Own
<1> QED
  BY <1>2, <1>3, <1>4, Zenon DEF HandlesInv, Own

\* A step that neither collects nor brings anything keeps the rows together.
LEMMA RowsFrame ==
  ASSUME RowsInv, CallKept, ResultsAddUp', shown' = shown,
         Busy' /\ call'.ignore => call.ignore \/ ~call.executed,
         Busy' => /\ req'[Mine].rows = req[Mine].rows /\ req'[Mine].rst = req[Mine].rst
                  /\ req'[Mine].rowCount = req[Mine].rowCount
                  /\ Wanted' => Wanted /\ answer' = answer
  PROVE  RowsInv'
<1> SUFFICES ASSUME Busy'
             PROVE  /\ shown'.rows = req'[Mine'].rows
                    /\ shown'.parts \o req'[Mine'].rst = req'[Mine'].rows
                    /\ ~call'.executed \/ call'.ignore => req'[Mine'].rowCount = 0 /\ req'[Mine'].rows = <<>>
                    /\ call'.executed /\ call'.ignore => call'.truth.count = 0 /\ call'.truth.rows = <<>>
                    /\ Wanted' /\ req'[Mine'].rst # <<>> => answer' # <<>>
                    /\ Wanted' /\ call'.executed /\ ~call'.truth.failed =>
                         /\ Bring(answer', call'.truth.rows, Len(req'[Mine'].rows), Len(call'.truth.rows),
                                  req'[Mine'].rowCount, call'.truth.count)
                         /\ \A i \in 1 .. Len(req'[Mine'].rows) : req'[Mine'].rows[i] = call'.truth.rows[i]
  BY Zenon DEF RowsInv
<1>1. /\ Mine' = Mine /\ Busy /\ call'.executed = call.executed /\ call'.truth = call.truth
      /\ req'[Mine].rows = req[Mine].rows /\ req'[Mine].rst = req[Mine].rst
      /\ req'[Mine].rowCount = req[Mine].rowCount
      /\ Wanted' => Wanted /\ answer' = answer
  BY DEF CallKept
<1>2. /\ shown.rows = req[Mine].rows
      /\ shown.parts \o req[Mine].rst = req[Mine].rows
      /\ ~call.executed \/ call.ignore => req[Mine].rowCount = 0 /\ req[Mine].rows = <<>>
      /\ call.executed /\ call.ignore => call.truth.count = 0 /\ call.truth.rows = <<>>
      /\ Wanted /\ req[Mine].rst # <<>> => answer # <<>>
      /\ Wanted /\ call.executed /\ ~call.truth.failed =>
           /\ Bring(answer, call.truth.rows, Len(req[Mine].rows), Len(call.truth.rows),
                    req[Mine].rowCount, call.truth.count)
           /\ \A i \in 1 .. Len(req[Mine].rows) : req[Mine].rows[i] = call.truth.rows[i]
  BY <1>1, Zenon DEF RowsInv
<1>3. Wanted' => Wanted /\ answer' = answer
  BY <1>1
<1> HIDE DEF Mine, Wanted
<1>4. /\ shown'.rows = req'[Mine].rows
      /\ shown'.parts \o req'[Mine].rst = req'[Mine].rows
      /\ ~call'.executed \/ call'.ignore => req'[Mine].rowCount = 0 /\ req'[Mine].rows = <<>>
      /\ call'.executed /\ call'.ignore => call'.truth.count = 0 /\ call'.truth.rows = <<>>
      /\ Wanted' /\ req'[Mine].rst # <<>> => answer' # <<>>
  BY <1>1, <1>2
<1>5. ASSUME Wanted', call'.executed, ~call'.truth.failed
      PROVE  /\ Bring(answer', call'.truth.rows, Len(req'[Mine].rows), Len(call'.truth.rows),
                      req'[Mine].rowCount, call'.truth.count)
             /\ \A i \in 1 .. Len(req'[Mine].rows) : req'[Mine].rows[i] = call'.truth.rows[i]
  BY <1>1, <1>2, <1>5
<1> QED
  BY <1>1, <1>4, <1>5

LEMMA FinishStep == ASSUME Inv, MessageFinished PROVE Inv'
<1>1. /\ Busy /\ call \in Flights /\ call' = [call EXCEPT !.finished = TRUE]
      /\ UNCHANGED <<state, status, answer, req, ticks, calls, pending, used, stained, late, leaked, misled,
                     shown, told, handles>>
  BY DEF Inv, TypeOK, MessageFinished, Busy
<1>2. /\ call' \in Flights /\ call'.id = call.id /\ call'.op = call.op /\ call'.request = call.request
      /\ call'.handle = call.handle /\ call'.finished = TRUE /\ call'.ignore = call.ignore
      /\ call'.executed = call.executed /\ call'.truth = call.truth
  BY <1>1 DEF Flights
<1>3. Busy' /\ Mine' = Mine /\ (Wanted' <=> Wanted)
  BY <1>1, <1>2, FlightIsBusy DEF Busy, Mine, Wanted
<1>4. TypeOK'
  BY <1>1, <1>2 DEF Inv, TypeOK
<1>5. CallsInv' /\ FlightInv'
  BY <1>1, <1>2, <1>3 DEF Inv, CallsInv, FlightInv
<1>6. AnswerInv' /\ ErrorInv'
  BY <1>1, <1>2, <1>3 DEF Inv, AnswerInv, ErrorInv, Closing
<1>7. ToldInv' /\ StatusInv'
  BY <1>1, <1>2, <1>3 DEF Inv, ToldInv, OutcomeIsServers, StatusInv
<1>8. HandlesInv'
  BY <1>1, <1>2, <1>3 DEF Inv, HandlesInv, Own
<1>9. RowsInv'
  <2>1. RowsInv /\ ResultsAddUp'
    BY <1>1 DEF Inv, RowsInv, ResultsAddUp
  <2>2. CallKept
    BY <1>1, <1>2, <1>3, MineExists DEF Inv, CallKept
  <2> QED
    BY <1>1, <1>2, <1>3, <2>1, <2>2, RowsFrame
<1> QED
  BY <1>4, <1>5, <1>6, <1>7, <1>8, <1>9 DEF Inv

LEMMA IgnoredStep == ASSUME Inv, Ignored PROVE Inv'
<1>1. /\ answer # <<>> /\ ~Wanted /\ answer' = Tail(answer)
      /\ UNCHANGED <<state, call, status, req, ticks, calls, pending, used, stained, late, leaked, misled,
                     shown, told, handles>>
  BY DEF Ignored
<1>2. /\ Len(answer) \in Nat /\ Len(answer) >= 1
      /\ answer' \in Seq(Tokens) /\ Len(answer') = Len(answer) - 1
      /\ \A i \in 1 .. Len(answer') : answer'[i] = answer[i + 1]
  BY <1>1 DEF Inv, TypeOK
<1>3. Busy' = Busy /\ Mine' = Mine /\ Wanted' = Wanted
  BY <1>1 DEF Busy, Mine, Wanted
<1>4. TypeOK'
  BY <1>1, <1>2 DEF Inv, TypeOK
<1>5. CallsInv' /\ FlightInv'
  BY <1>1, <1>2, <1>3 DEF Inv, CallsInv, FlightInv
<1>6. AnswerInv'
  BY <1>1, <1>2, <1>3 DEF Inv, AnswerInv, Closing
<1>7. ErrorInv'
  BY <1>1, <1>3 DEF Inv, ErrorInv
<1>8. ToldInv' /\ StatusInv'
  BY <1>1, <1>2, <1>3 DEF Inv, ToldInv, OutcomeIsServers, StatusInv
<1>9. HandlesInv'
  BY <1>1, <1>2, <1>3 DEF Inv, HandlesInv, Own
<1>10. RowsInv'
  BY <1>1, <1>3 DEF Inv, RowsInv, ResultsAddUp
<1> QED
  BY <1>4, <1>5, <1>6, <1>7, <1>8, <1>9, <1>10 DEF Inv

LEMMA CancelStep ==
  ASSUME Inv, NEW r \in Requests, NEW timeout \in BOOLEAN, CancelWith(r, timeout)
  PROVE  Inv'
<1> DEFINE busy == call # NoCall /\ call.request = r
           sending == busy /\ ~call.finished
           p == req[r]
           heard == IF p.error = Ok THEN Error("ECANCEL", call.id) ELSE p.error
<1>0. PICK ended \in IF sending THEN BOOLEAN ELSE {FALSE} :
        /\ req' = [req EXCEPT ![r].canceled = TRUE,
                              ![r].error = IF timeout THEN Error("ETIMEOUT", call.id)
                                           ELSE IF sending /\ ~ended THEN heard ELSE @]
        /\ late' = IF ended THEN late \cup {call.id} ELSE late
  BY DEF CancelWith
<1> DEFINE e == IF timeout THEN Error("ETIMEOUT", call.id) ELSE IF sending /\ ~ended THEN heard ELSE p.error
           q == [p EXCEPT !.canceled = TRUE, !.error = e]
<1>1. /\ ~p.canceled /\ (timeout => busy)
      /\ call' = IF sending THEN [call EXCEPT !.finished = TRUE, !.ignore = TRUE] ELSE call
      /\ leaked' = (leaked \/ (busy /\ status # NoStatus))
      /\ UNCHANGED <<state, status, answer, ticks, calls, pending, used, stained, misled, shown, told, handles>>
  BY DEF CancelWith
<1>2. p \in Fields /\ p.error \in Errors /\ req \in [Requests -> Fields]
  BY DEF Inv, TypeOK, Fields
<1>3. /\ busy => call \in Flights /\ call.id \in Nat
      /\ leaked \in BOOLEAN
  BY DEF Inv, TypeOK, Flights
<1>a. /\ (ended => busy) /\ late \subseteq late' /\ late' \subseteq Nat
      /\ sending /\ ended => call.id \in late'
  <2>1. late \subseteq Nat /\ (ended => busy)
    BY <1>0 DEF Inv, TypeOK
  <2> QED
    BY <1>0, <1>3, <2>1
<1>4. /\ e \in Errors /\ (Mistaken(p.error) => Mistaken(e))
      /\ sending => Mistaken(e) \/ call.id \in late'
  <2>1. busy => /\ Error("ETIMEOUT", call.id) \in Errors /\ Mistaken(Error("ETIMEOUT", call.id))
                /\ Error("ECANCEL", call.id) \in Errors /\ Mistaken(Error("ECANCEL", call.id))
    BY <1>3 DEF Error, Errors, Mistaken
  <2>2. p.error # Ok => Mistaken(p.error)
    BY <1>2, ErrorOk
  <2>3. busy => heard \in Errors /\ Mistaken(heard)
    BY <1>2, <2>1, <2>2
  <2> HIDE DEF heard
  <2> QED
    BY <1>1, <1>2, <1>a, <2>1, <2>3
<1>5. req' = [req EXCEPT ![r] = q]
  <2>1. req' = [req EXCEPT ![r].canceled = TRUE, ![r].error = e]
    BY <1>0
  <2> QED
    BY <1>2, <2>1 DEF Fields
<1> HIDE DEF e
<1>6. /\ q \in Fields /\ q.preparing = p.preparing /\ q.handle = p.handle /\ q.canceled /\ q.error = e
      /\ q.listening = p.listening /\ q.rowCount = p.rowCount /\ q.rows = p.rows /\ q.rst = p.rst
  BY <1>2, <1>4 DEF Fields
<1> HIDE DEF q
<1>7. /\ req' \in [Requests -> Fields] /\ req'[r] = q
      /\ \A x \in Requests : /\ req'[x].preparing = req[x].preparing /\ req'[x].handle = req[x].handle
                             /\ req'[x].listening = req[x].listening
                             /\ req'[x].rowCount = req[x].rowCount
                             /\ req'[x].rows = req[x].rows /\ req'[x].rst = req[x].rst
                             /\ x # r => req'[x] = req[x]
  BY <1>2, <1>5, <1>6
<1>8. /\ Busy' = Busy
      /\ Busy => /\ call \in Flights /\ call' \in Flights /\ Mine' = Mine /\ Mine \in Requests
                 /\ call'.id = call.id /\ call'.op = call.op /\ call'.handle = call.handle
                 /\ call'.executed = call.executed /\ call'.truth = call.truth
                 /\ IF sending THEN call'.finished /\ call'.ignore
                    ELSE call'.finished = call.finished /\ call'.ignore = call.ignore
      /\ ~Busy => call' = call
  <2>1. CASE sending
    <3>1. call \in Flights /\ call' = [call EXCEPT !.finished = TRUE, !.ignore = TRUE]
      BY <1>1, <1>3, <2>1
    <3>2. /\ call' \in Flights /\ call'.id = call.id /\ call'.op = call.op /\ call'.handle = call.handle
          /\ call'.executed = call.executed /\ call'.truth = call.truth /\ call'.request = call.request
          /\ call'.finished /\ call'.ignore /\ call.request \in Requests
      BY <3>1 DEF Flights
    <3> QED
      BY <2>1, <3>1, <3>2, FlightIsBusy DEF Busy, Mine
  <2>2. CASE ~sending
    BY <1>1, <2>2, MineExists DEF Inv, Busy, Mine
  <2> QED
    BY <2>1, <2>2
<1>9. Busy => /\ Wanted' => Wanted /\ Mine # r /\ req'[Mine] = req[Mine]
              /\ Mine = r => ~Wanted' /\ Wanted
              /\ Mine # r => (Wanted' <=> Wanted)
              /\ sending <=> Mine = r /\ ~call.finished
              /\ busy <=> Mine = r
  BY <1>1, <1>6, <1>7, <1>8 DEF Wanted, Busy, Mine
<1>10. TypeOK'
  BY <1>1, <1>3, <1>7, <1>8, <1>a DEF Inv, TypeOK, Busy
<1>11. CallsInv'
  BY <1>1, <1>7, <1>8 DEF Inv, CallsInv
<1>12. FlightInv'
  <2> HIDE DEF busy, sending
  <2>1. ASSUME Busy
        PROVE  /\ req'[Mine].preparing => call'.op = "prepare"
               /\ call'.op = "prepare" => req'[Mine].listening
               /\ call'.executed => call'.finished /\ (call'.ignore => call'.truth.failed)
               /\ Wanted' /\ ~call'.executed => call'.id \in stained' \/ req'[Mine].error = Ok
    BY <1>1, <1>7, <1>8, <1>9, <2>1 DEF Inv, FlightInv
  <2>2. ASSUME Busy, call'.ignore
        PROVE  call'.finished /\ ~Wanted' /\ (Mistaken(req'[Mine].error) \/ call'.id \in late')
    <3>1. CASE sending
      BY <1>4, <1>6, <1>7, <1>8, <1>9, <2>2, <3>1
    <3>2. CASE ~sending
      BY <1>7, <1>8, <1>9, <1>a, <2>2, <3>2 DEF Inv, FlightInv
    <3> QED
      BY <3>1, <3>2
  <2>3. ~(Busy' /\ call'.executed) => answer' = <<>>
    BY <1>1, <1>8 DEF Inv, FlightInv
  <2> QED
    BY <1>8, <2>1, <2>2, <2>3 DEF FlightInv
<1>13. AnswerInv'
  <2>1. answer # <<>> => Busy
    BY DEF Inv, FlightInv
  <2>2. Len(answer) = 0 \/ Busy
    BY <2>1
  <2> QED
    BY <1>1, <1>8, <2>2 DEF Inv, TypeOK, AnswerInv, Closing
<1>14. ErrorInv'
  BY <1>1, <1>8, <1>9 DEF Inv, ErrorInv
<1>15. ToldInv'
  BY <1>1, <1>a DEF Inv, ToldInv, OutcomeIsServers
<1>16. StatusInv'
  BY <1>1, <1>8, <1>9 DEF Inv, StatusInv
<1>17. CallKept
  BY <1>8 DEF CallKept
<1>18. HandlesInv'
  BY <1>1, <1>7, <1>17, HandlesFrame DEF Inv
<1>19. RowsInv'
  <2>1. ResultsAddUp'
    BY <1>1 DEF Inv, RowsInv, ResultsAddUp
  <2>2. Busy' => /\ req'[Mine].rows = req[Mine].rows /\ req'[Mine].rst = req[Mine].rst
                 /\ req'[Mine].rowCount = req[Mine].rowCount
                 /\ Wanted' => Wanted /\ answer' = answer
    BY <1>1, <1>7, <1>8, <1>9
  <2>3. Busy' /\ call'.ignore => call.ignore \/ ~call.executed
    BY <1>8 DEF Inv, FlightInv
  <2> QED
    BY <1>1, <1>17, <2>1, <2>2, <2>3, RowsFrame DEF Inv
<1> QED
  BY <1>10, <1>11, <1>12, <1>13, <1>14, <1>15, <1>16, <1>18, <1>19 DEF Inv

LEMMA TimeoutStep == ASSUME Inv, TimeoutOfCanceled PROVE Inv'
<1> DEFINE p == req[Mine]
           e == Error("ETIMEOUT", call.id)
           q == [p EXCEPT !.error = e]
<1>1. /\ Busy /\ ~Wanted /\ req' = [req EXCEPT ![Mine].error = e]
      /\ UNCHANGED <<state, call, status, answer, ticks, calls, pending, used, stained, late, leaked, misled,
                     shown, told, handles>>
  BY DEF TimeoutOfCanceled, Busy
<1>2. /\ call \in Flights /\ Mine \in Requests /\ p \in Fields /\ call.id \in Nat
      /\ req \in [Requests -> Fields]
  BY <1>1, MineExists DEF Inv, TypeOK
<1>3. e \in Errors /\ Mistaken(e)
  BY <1>2 DEF Error, Errors, Mistaken
<1> HIDE DEF e
<1>4. /\ q \in Fields /\ q.preparing = p.preparing /\ q.handle = p.handle /\ q.canceled = p.canceled
      /\ q.error = e /\ q.listening = p.listening /\ q.rowCount = p.rowCount /\ q.rows = p.rows
      /\ q.rst = p.rst
  BY <1>2, <1>3 DEF Fields
<1>5. req' = [req EXCEPT ![Mine] = q]
  BY <1>1, <1>2 DEF Fields
<1> HIDE DEF q
<1>6. /\ req' \in [Requests -> Fields] /\ req'[Mine] = q
      /\ \A x \in Requests : /\ req'[x].preparing = req[x].preparing /\ req'[x].handle = req[x].handle
                             /\ req'[x].listening = req[x].listening
  BY <1>2, <1>4, <1>5
<1>7. Busy' /\ Mine' = Mine /\ ~Wanted' /\ CallKept
  BY <1>1, <1>2, <1>4, <1>6 DEF Busy, Mine, Wanted, CallKept
<1>8. TypeOK'
  BY <1>1, <1>6 DEF Inv, TypeOK
<1>9. CallsInv'
  BY <1>1, <1>6, <1>7 DEF Inv, CallsInv
<1>10. FlightInv'
  BY <1>1, <1>3, <1>4, <1>6, <1>7 DEF Inv, FlightInv
<1>11. AnswerInv' /\ ErrorInv'
  BY <1>1, <1>7 DEF Inv, AnswerInv, ErrorInv, Closing
<1>12. ToldInv' /\ StatusInv'
  BY <1>1, <1>7 DEF Inv, ToldInv, OutcomeIsServers, StatusInv
<1>13. HandlesInv'
  BY <1>1, <1>6, <1>7, HandlesFrame DEF Inv
<1>14. RowsInv'
  <2>1. ResultsAddUp'
    BY <1>1 DEF Inv, RowsInv, ResultsAddUp
  <2>2. /\ req'[Mine].rows = req[Mine].rows /\ req'[Mine].rst = req[Mine].rst
        /\ req'[Mine].rowCount = req[Mine].rowCount
    BY <1>4, <1>6
  <2> QED
    BY <1>1, <1>7, <2>1, <2>2, RowsFrame DEF Inv
<1> QED
  BY <1>8, <1>9, <1>10, <1>11, <1>12, <1>13, <1>14 DEF Inv

LEMMA TickStep == ASSUME Inv, Tick PROVE Inv'
<1>1. PICK t \in ticks :
        /\ ticks' = ticks \ {t}
        /\ Callback(t.request, req[t.request], pending[t.request], t.err, [Truth EXCEPT !.failed = TRUE])
  BY DEF Tick
<1>2. UNCHANGED <<state, call, status, answer, calls, used, stained, late, leaked, misled, shown, handles>>
  BY DEF Tick
<1> DEFINE r == t.request
           p == req[r]
           q == [p EXCEPT !.preparing = FALSE]
           truth == [Truth EXCEPT !.failed = TRUE]
<1>3. /\ r \in Requests /\ t.err \in Errors /\ Mistaken(t.err) /\ pending[r] \in Nat
      /\ p \in Fields /\ p.handle \in Nat /\ p.rows \in Seq(RowIds) /\ p.rowCount \in Nat
      /\ shown \in Showings /\ truth \in Truths /\ truth.failed
      /\ req \in [Requests -> Fields] /\ pending \in [Requests -> Nat]
  BY FailedTruth DEF Inv, TypeOK, CallsInv, Fields
<1>4. /\ req' = [req EXCEPT ![r] = q] /\ pending' = [pending EXCEPT ![r] = 0]
      /\ told' = [call |-> pending[r], op |-> IF p.preparing THEN "prepare" ELSE "other", err |-> t.err,
                  handle |-> p.handle, rows |-> p.rows, count |-> p.rowCount, shown |-> shown, truth |-> truth]
  BY <1>1 DEF Callback
<1> HIDE DEF truth
<1>5. /\ q \in Fields /\ ~q.preparing /\ q.handle = p.handle /\ q.canceled = p.canceled
      /\ q.error = p.error /\ q.listening = p.listening
  BY <1>3 DEF Fields
<1>6. /\ told' \in Outcomes /\ Mistaken(told'.err) /\ told'.truth.failed
  BY <1>3, <1>4 DEF Outcomes
<1>7. told'.err # Ok
  BY <1>6, Basics
<1> HIDE DEF q
<1>8. /\ req' \in [Requests -> Fields] /\ req'[r] = q
      /\ pending' \in [Requests -> Nat] /\ pending'[r] = 0
      /\ \A x \in Requests : /\ req'[x].handle = req[x].handle
                             /\ x # r => req'[x] = req[x] /\ pending'[x] = pending[x]
  BY <1>3, <1>4, <1>5
<1>9. /\ Busy' = Busy /\ Mine' = Mine
      /\ Busy => Mine # r /\ Mine \in Requests /\ req'[Mine] = req[Mine] /\ Wanted' = Wanted
  <2>1. Busy => Mine # r /\ Mine \in Requests
    BY MineExists DEF Inv, CallsInv
  <2> QED
    BY <1>2, <1>8, <2>1 DEF Busy, Mine, Wanted
<1>10. TypeOK'
  BY <1>1, <1>2, <1>6, <1>8 DEF Inv, TypeOK
<1>11. CallsInv'
  <2>1. \A u \in ticks' : u \in ticks /\ u.request # r
    BY <1>1 DEF Inv, CallsInv
  <2>2. \A u \in ticks' : u.request \in Requests
    BY <2>1 DEF Inv, TypeOK
  <2>3. /\ \A u \in ticks' : Mistaken(u.err) /\ pending'[u.request] # 0
        /\ \A u, v \in ticks' : u.request = v.request => u = v
    BY <1>8, <2>1, <2>2 DEF Inv, CallsInv
  <2>4. ASSUME NEW x \in Requests
        PROVE  /\ pending'[x] <= calls' /\ (pending'[x] = 0 => ~req'[x].preparing)
               /\ req'[x].preparing => req'[x].listening
    <3>1. CASE x = r
      <4>1. pending'[x] = 0 /\ ~req'[x].preparing /\ calls' \in Nat
        BY <1>2, <1>5, <1>8, <3>1 DEF Inv, TypeOK
      <4> QED
        BY <4>1
    <3>2. CASE x # r
      <4>1. pending'[x] = pending[x] /\ req'[x] = req[x] /\ calls' = calls
        BY <1>2, <1>8, <3>2
      <4> QED
        BY <4>1 DEF Inv, CallsInv
    <3> QED
      BY <3>1, <3>2
  <2>5. Busy => pending'[Mine] = call.id /\ \A u \in ticks' : u.request # Mine
    BY <1>8, <1>9, <2>1 DEF Inv, CallsInv
  <2>6. state' = "BUSY" <=> Busy'
    BY <1>2, <1>9 DEF Inv, CallsInv
  <2> QED
    BY <1>2, <1>9, <2>3, <2>4, <2>5, <2>6 DEF CallsInv
<1>12. FlightInv' /\ ErrorInv'
  BY <1>2, <1>9 DEF Inv, FlightInv, ErrorInv
<1>13. AnswerInv'
  BY <1>2 DEF Inv, AnswerInv, Closing
<1>14. ToldInv'
  BY <1>6, <1>7 DEF ToldInv, OutcomeIsServers
<1>15. StatusInv'
  BY <1>2, <1>9 DEF Inv, StatusInv
<1>16. CallKept
  BY <1>2, <1>9 DEF CallKept
<1>17. HandlesInv'
  BY <1>2, <1>8, <1>16, HandlesFrame DEF Inv
<1>18. RowsInv'
  <2>1. ResultsAddUp'
    BY <1>7 DEF ResultsAddUp
  <2> QED
    BY <1>2, <1>9, <1>16, <2>1, RowsFrame DEF Inv
<1> QED
  BY <1>10, <1>11, <1>12, <1>13, <1>14, <1>15, <1>17, <1>18 DEF Inv

\* The end of the call in flight, told with error e.
LEMMA EndedStep ==
  ASSUME Inv, Busy, NEW e \in Errors, NEW truth \in Truths,
         state' = "LOGGED_IN", call' = NoCall, answer' = <<>>,
         Callback(Mine, req[Mine], call.id, e, truth),
         UNCHANGED <<status, ticks, calls, used, stained, late, leaked, misled, shown, handles>>,
         call.id \notin stained => IF e = Ok THEN truth.failed => call.id \in late ELSE truth.failed,
         ~leaked => status = NoStatus,
         e = Ok => /\ truth.rows = req[Mine].rows /\ truth.count = req[Mine].rowCount
                   /\ shown.rows = req[Mine].rows /\ shown.parts = req[Mine].rows
                   /\ req[Mine].preparing /\ call.id \notin late => req[Mine].handle = call.id
  PROVE  Inv'
<1> DEFINE r == Mine
           p == req[r]
           q == [p EXCEPT !.preparing = FALSE]
<1>1. /\ r \in Requests /\ p \in Fields /\ call.id \in Nat /\ call.id # 0
      /\ p.handle \in Nat /\ p.rows \in Seq(RowIds) /\ p.rowCount \in Nat /\ shown \in Showings
      /\ req \in [Requests -> Fields] /\ pending \in [Requests -> Nat]
  BY MineExists DEF Inv, TypeOK, Fields
<1>2. /\ req' = [req EXCEPT ![r] = q] /\ pending' = [pending EXCEPT ![r] = 0]
      /\ told' = [call |-> call.id, op |-> IF p.preparing THEN "prepare" ELSE "other", err |-> e,
                  handle |-> p.handle, rows |-> p.rows, count |-> p.rowCount, shown |-> shown, truth |-> truth]
  BY DEF Callback
<1>3. /\ q \in Fields /\ ~q.preparing /\ q.handle = p.handle
  BY <1>1 DEF Fields
<1>4. told' \in Outcomes
  BY <1>1, <1>2 DEF Outcomes
<1>5. /\ told'.call = call.id /\ told'.err = e /\ told'.handle = p.handle /\ told'.rows = p.rows /\ told'.count = p.rowCount
      /\ told'.shown = shown /\ told'.truth = truth /\ (told'.op = "prepare" => p.preparing)
  BY <1>2
<1> HIDE DEF q
<1>6. /\ req' \in [Requests -> Fields] /\ req'[r] = q
      /\ pending' \in [Requests -> Nat] /\ pending'[r] = 0
      /\ \A x \in Requests : /\ req'[x].handle = req[x].handle
                             /\ x # r => req'[x] = req[x] /\ pending'[x] = pending[x]
  BY <1>1, <1>2, <1>3
<1>7. ~Busy' /\ CallKept
  BY DEF Busy, CallKept
<1>8. TypeOK'
  <2>1. answer' \in Seq(Tokens)
    OBVIOUS
  <2> QED
    BY <1>4, <1>6, <2>1 DEF Inv, TypeOK
<1>9. CallsInv'
  <2>1. \A t \in ticks' : t.request \in Requests /\ t.request # r
    BY DEF Inv, CallsInv, TypeOK
  <2>2. \A t \in ticks' : Mistaken(t.err) /\ pending'[t.request] # 0
    BY <1>6, <2>1 DEF Inv, CallsInv
  <2>3. ASSUME NEW x \in Requests
        PROVE  /\ pending'[x] <= calls' /\ (pending'[x] = 0 => ~req'[x].preparing)
               /\ req'[x].preparing => req'[x].listening
    <3>1. CASE x = r
      <4>1. pending'[x] = 0 /\ ~req'[x].preparing /\ calls' \in Nat
        BY <1>3, <1>6, <3>1 DEF Inv, TypeOK
      <4> QED
        BY <4>1
    <3>2. CASE x # r
      <4>1. pending'[x] = pending[x] /\ req'[x] = req[x] /\ calls' = calls
        BY <1>6, <3>2
      <4> QED
        BY <4>1 DEF Inv, CallsInv
    <3> QED
      BY <3>1, <3>2
  <2>4. \A t, u \in ticks' : t.request = u.request => t = u
    BY DEF Inv, CallsInv
  <2> QED
    BY <1>7, <2>2, <2>3, <2>4 DEF CallsInv
<1>10. FlightInv' /\ ErrorInv'
  BY <1>7 DEF FlightInv, ErrorInv
<1>11. AnswerInv'
  <2>1. Len(answer') = 0
    OBVIOUS
  <2> QED
    BY <2>1 DEF AnswerInv
<1>12. ToldInv'
  <2>1. OutcomeIsServers'
    BY <1>5 DEF OutcomeIsServers
  <2>2. told'.op = "prepare" /\ told'.err = Ok /\ told'.call \notin late' => told'.handle = told'.call
    BY <1>5
  <2> QED
    BY <2>1, <2>2 DEF ToldInv
<1>13. StatusInv'
  BY DEF Inv, StatusInv
<1>14. HandlesInv'
  BY <1>6, <1>7, HandlesFrame DEF Inv
<1>15. RowsInv'
  BY <1>5, <1>7 DEF RowsInv, ResultsAddUp
<1> QED
  BY <1>8, <1>9, <1>10, <1>11, <1>12, <1>13, <1>14, <1>15 DEF Inv

LEMMA AckStep == ASSUME Inv, AttentionAck PROVE Inv'
<1> DEFINE e == req[Mine].error
           err == IF e.kind = "ETIMEOUT" THEN e ELSE Error("ECANCEL", call.id)
           truth == [Truth EXCEPT !.failed = TRUE]
<1>1. /\ Busy /\ ~Wanted
      /\ state' = "LOGGED_IN" /\ call' = NoCall /\ answer' = <<>>
      /\ Callback(Mine, req[Mine], call.id, err, truth)
      /\ UNCHANGED <<status, ticks, calls, used, stained, late, leaked, misled, shown, handles>>
  BY DEF AttentionAck, Busy
<1>2. e \in Errors /\ call.id \in Nat
  BY <1>1, MineExists DEF Inv, Fields
<1>3. err \in Errors /\ Mistaken(err)
  BY <1>2 DEF Error, Errors, Mistaken
<1>4. err # Ok
  BY <1>3, Basics
<1>5. ~leaked => status = NoStatus
  BY <1>1 DEF Inv, StatusInv
<1> HIDE DEF err
<1> QED
  BY <1>1, <1>3, <1>4, <1>5, FailedTruth, EndedStep

LEMMA EndStep == ASSUME Inv, EndOfMessage PROVE Inv'
<1> DEFINE p == req[Mine]
<1>1. /\ Busy /\ call.executed /\ answer = <<>> /\ (Wanted \/ call.ignore)
      /\ state' = "LOGGED_IN" /\ call' = NoCall /\ answer' = <<>>
      /\ Callback(Mine, p, call.id, p.error, call.truth)
      /\ UNCHANGED <<status, ticks, calls, used, stained, late, leaked, misled, shown, handles>>
  BY DEF EndOfMessage, Busy
<1>2. /\ call \in Flights /\ p \in Fields /\ p.error \in Errors /\ call.truth \in Truths
      /\ p.rows \in Seq(RowIds) /\ p.rowCount \in Nat /\ shown \in Showings
      /\ shown.parts \in Seq(RowIds) /\ p.rst \in Seq(RowIds)
      /\ call.truth.rows \in Seq(RowIds) /\ call.truth.count \in Nat /\ call.truth.failed \in BOOLEAN
  BY <1>1, MineExists DEF Inv, TypeOK, Fields, Flights, Truths, Showings
<1>3. Len(answer) = 0
  BY <1>1
<1>4. CASE Wanted
  <2>1. call.truth.failed => p.error # Ok
    BY <1>1, <1>2, <1>4, ErrorOk DEF Inv, ErrorInv
  <2>2. ASSUME ~call.truth.failed
        PROVE  /\ call.id \in stained \/ p.error = Ok
               /\ call.op = "prepare" => p.handle = call.id
    BY <1>1, <1>3, <1>4, <2>2 DEF Inv, ErrorInv
  <2>3. ~leaked => status = NoStatus
    BY <1>1 DEF Inv, StatusInv
  <2>4. ASSUME p.error = Ok
        PROVE  /\ call.truth.rows = p.rows /\ call.truth.count = p.rowCount
               /\ shown.rows = p.rows /\ shown.parts = p.rows
               /\ p.preparing => p.handle = call.id
    <3>1. ~call.truth.failed
      BY <2>1, <2>4
    <3>2. p.preparing => p.handle = call.id
      BY <1>1, <2>2, <3>1 DEF Inv, FlightInv
    <3>3. shown.rows = p.rows /\ shown.parts \o p.rst = p.rows /\ p.rst = <<>>
      BY <1>1, <1>4 DEF Inv, RowsInv
    <3>4. shown.parts = p.rows
      BY <1>2, <3>3, ConcatEmptySeq
    <3>5. /\ Bring(answer, call.truth.rows, Len(p.rows), Len(call.truth.rows), p.rowCount, call.truth.count)
          /\ \A i \in 1 .. Len(p.rows) : p.rows[i] = call.truth.rows[i]
      BY <1>1, <1>4, <3>1 DEF Inv, RowsInv
    <3>6. Len(p.rows) = Len(call.truth.rows) /\ p.rowCount = call.truth.count
      BY <1>3, <3>5 DEF Bring
    <3>7. p.rows = call.truth.rows
      BY <1>2, <3>5, <3>6, SeqEqual
    <3> QED
      BY <3>2, <3>3, <3>4, <3>6, <3>7
  <2>5. call.id \notin stained => IF p.error = Ok THEN ~call.truth.failed ELSE call.truth.failed
    BY <1>2, <2>1, <2>2
  <2> QED
    BY <1>1, <1>2, <2>3, <2>4, <2>5, EndedStep
<1>5. CASE ~Wanted
  <2>1. /\ call.ignore /\ call.truth.failed
        /\ Mistaken(p.error) \/ call.id \in late
    BY <1>1, <1>5 DEF Inv, FlightInv
  <2>2. p.error = Ok => call.id \in late
    BY <2>1, Basics
  <2>3. ~leaked => status = NoStatus
    BY <1>5 DEF Inv, StatusInv
  <2>4. /\ p.rowCount = 0 /\ p.rows = <<>> /\ call.truth.count = 0 /\ call.truth.rows = <<>>
        /\ shown.rows = p.rows /\ shown.parts \o p.rst = p.rows
    BY <1>1, <2>1 DEF Inv, RowsInv
  <2>5. shown.parts = <<>>
    <3> DEFINE parts == shown.parts
               rst == p.rst
    <3>1. parts \in Seq(RowIds) /\ rst \in Seq(RowIds) /\ parts \o rst = <<>>
      BY <1>2, <2>4
    <3> HIDE DEF parts, rst
    <3>2. Len(parts) + Len(rst) = 0 /\ Len(parts) \in Nat /\ Len(rst) \in Nat
      BY <3>1, ConcatProperties, LenProperties
    <3>3. parts = <<>>
      BY <3>1, <3>2, EmptySeq
    <3> QED
      BY <3>3 DEF parts
  <2> QED
    BY <1>1, <1>2, <2>1, <2>2, <2>3, <2>4, <2>5, EndedStep
<1> QED
  BY <1>4, <1>5

LEMMA ExecuteStep == ASSUME Inv, ServerExecutes PROVE Inv'
<1>1. /\ Busy /\ call.finished /\ ~call.executed
      /\ UNCHANGED <<state, status, req, ticks, calls, pending, used, stained, late, leaked, misled, shown, told>>
  BY DEF ServerExecutes, Busy
<1>2. PICK a \in Replies :
        /\ answer' = a.tokens
        /\ call' = [call EXCEPT !.executed = TRUE,
                                !.truth = [failed |-> a.failed, count |-> a.count, rows |-> a.rows]]
        /\ handles' = IF a.failed THEN handles
                      ELSE IF call.op = "prepare" THEN handles \cup {[handle |-> call.id, request |-> Mine]}
                      ELSE IF call.op = "unprepare" THEN {h \in handles : h.handle # call.handle}
                      ELSE handles
  BY DEF ServerExecutes
<1>3. /\ call \in Flights /\ Mine \in Requests /\ call.id \in Nat /\ call.id # 0 /\ req[Mine] \in Fields
  BY <1>1, MineExists DEF Inv
<1>4. Tells(a, call.id, call.op) /\ (call.ignore => a.failed /\ a.rows = <<>> /\ a.count = 0)
  BY <1>1, RepliesTell DEF Inv
<1> DEFINE t == a.tokens
           kind == t[Len(t)].kind
<1>5. /\ t \in Seq(Tokens) /\ a.failed \in BOOLEAN /\ a.rows \in Seq(RowIds) /\ a.count \in Nat
      /\ t # <<>> /\ kind \in {"done", "doneProc"}
      /\ t \in Seq(Sayable(call.id, call.op, a.failed, kind))
      /\ a.failed => t[Len(t)].failed
  BY <1>4 DEF Tells
<1>6. ~a.failed =>
        /\ Bring(t, a.rows, 0, Len(a.rows), 0, a.count)
        /\ call.op = "prepare" => \E i \in 1 .. Len(t) : t[i].kind = "handle"
  BY <1>4 DEF Tells
<1>7. \A i \in 1 .. Len(t) :
        /\ t[i].kind = "status" => t[i].v = call.id /\ kind = "doneProc"
        /\ t[i].kind = "handle" => /\ call.op \in {"prepare", "execute"}
                                   /\ call.op = "prepare" => t[i].v = call.id
        /\ ~a.failed => t[i].kind # "error" /\ ~t[i].failed
  <2>1. \A i \in 1 .. Len(t) : t[i] \in Sayable(call.id, call.op, a.failed, kind)
    <3> DEFINE S == Sayable(call.id, call.op, a.failed, kind)
    <3> HIDE DEF S
    <3>1. t \in Seq(S)
      BY <1>5 DEF S
    <3>2. \A i \in 1 .. Len(t) : t[i] \in S
      BY <3>1, ElementOfSeq
    <3> QED
      BY <3>2 DEF S
  <2> QED
    BY <2>1 DEF Sayable
<1>8. /\ call' \in Flights /\ call'.id = call.id /\ call'.op = call.op /\ call'.request = call.request
      /\ call'.handle = call.handle /\ call'.finished = call.finished /\ call'.ignore = call.ignore
      /\ call'.executed /\ call'.truth.failed = a.failed /\ call'.truth.count = a.count
      /\ call'.truth.rows = a.rows
  <2> DEFINE truth == [failed |-> a.failed, count |-> a.count, rows |-> a.rows]
  <2>1. /\ truth \in Truths /\ truth.failed = a.failed /\ truth.count = a.count /\ truth.rows = a.rows
        /\ call' = [call EXCEPT !.executed = TRUE, !.truth = truth]
    BY <1>2, <1>5 DEF Truths
  <2> HIDE DEF truth
  <2>2. /\ call' \in Flights /\ call'.id = call.id /\ call'.op = call.op /\ call'.request = call.request
        /\ call'.handle = call.handle /\ call'.finished = call.finished /\ call'.ignore = call.ignore
        /\ call'.executed /\ call'.truth = truth
    BY <1>3, <2>1 DEF Flights
  <2> QED
    BY <2>1, <2>2
<1>9. Busy' /\ Mine' = Mine /\ (Wanted' <=> Wanted)
  BY <1>1, <1>8, FlightIsBusy DEF Busy, Mine, Wanted
<1> HIDE DEF Mine, Wanted, Busy
<1>10. TypeOK'
  <2>1. handles' \subseteq [handle : Nat, request : Requests]
    <3>1. handles \subseteq [handle : Nat, request : Requests]
      BY DEF Inv, TypeOK
    <3>2. [handle |-> call.id, request |-> Mine] \in [handle : Nat, request : Requests]
      BY <1>3
    <3> QED
      BY <1>2, <3>1, <3>2
  <2>2. answer' \in Seq(Tokens)
    BY <1>2, <1>5
  <2> QED
    BY <1>1, <1>8, <2>1, <2>2 DEF Inv, TypeOK
<1>11. CallsInv'
  BY <1>1, <1>8, <1>9 DEF Inv, CallsInv
<1>12. FlightInv'
  BY <1>1, <1>4, <1>8, <1>9 DEF Inv, FlightInv
<1>13. AnswerInv'
  <2>1. answer' = t /\ call'.id = call.id /\ call'.op = call.op
    BY <1>2, <1>8
  <2> HIDE DEF t
  <2>2. t[Len(t)].kind = kind
    BY DEF t
  <2>3. t # <<>> /\ kind \in {"done", "doneProc"}
    BY <1>5 DEF t
  <2> HIDE DEF kind
  <2>4. \A i \in 1 .. Len(t) :
          /\ t[i].kind = "status" => t[i].v = call.id /\ kind = "doneProc"
          /\ t[i].kind = "handle" => /\ call.op \in {"prepare", "execute"}
                                     /\ call.op = "prepare" => t[i].v = call.id
    BY <1>7 DEF t, kind
  <2> QED
    BY <2>1, <2>2, <2>3, <2>4 DEF AnswerInv, Closing
<1>14. ErrorInv'
  <2> SUFFICES ASSUME Wanted
               PROVE  IF call'.truth.failed
                      THEN Mistaken(req'[Mine].error) \/ (answer' # <<>> /\ answer'[Len(answer')].failed)
                      ELSE /\ \A i \in 1 .. Len(answer') : answer'[i].kind # "error" /\ ~answer'[i].failed
                           /\ call'.id \in stained' \/ req'[Mine].error = Ok
                           /\ call'.op = "prepare" =>
                                \/ req'[Mine].handle = call'.id
                                \/ \E i \in 1 .. Len(answer') : answer'[i].kind = "handle"
    BY <1>9 DEF ErrorInv
  <2>1. call.id \in stained \/ req[Mine].error = Ok
    BY <1>1 DEF Inv, FlightInv
  <2>2. answer' = t /\ call'.id = call.id /\ call'.op = call.op /\ call'.truth.failed = a.failed
    BY <1>2, <1>8
  <2>3. a.failed => answer' # <<>> /\ answer'[Len(answer')].failed
    BY <1>5, <2>2
  <2>4. ~a.failed => \A i \in 1 .. Len(answer') : answer'[i].kind # "error" /\ ~answer'[i].failed
    BY <1>7, <2>2
  <2>5. ~a.failed /\ call.op = "prepare" =>
          \E i \in 1 .. Len(answer') : answer'[i].kind = "handle"
    BY <1>6, <2>2
  <2> HIDE DEF t
  <2> QED
    BY <1>1, <2>1, <2>2, <2>3, <2>4, <2>5
<1>15. ToldInv'
  BY <1>1 DEF Inv, ToldInv, OutcomeIsServers
<1>16. StatusInv'
  BY <1>1 DEF Inv, StatusInv
<1>17. HandlesInv'
  <2> DEFINE new == [handle |-> call.id, request |-> Mine]
  <2>1. /\ call.op = "prepare" => used[Mine] = "prepare" /\ req[Mine].handle \in {0, call.id}
        /\ calls \in Nat
    BY <1>1, <1>3 DEF Inv, CallsInv, HandlesInv, Own, TypeOK
  <2>2. /\ \A h \in handles' : h \in handles \/ (call.op = "prepare" /\ h = new)
        /\ new.handle = call.id /\ new.request = Mine
    BY <1>2
  <2>3. call.op = "prepare" => \A h \in handles : h.request # Mine /\ h.handle # call.id
    BY <1>1 DEF Inv, HandlesInv, Own
  <2>4. \A r \in Own : req[r].handle = call.id => r = Mine
    BY <1>1 DEF Inv, HandlesInv, Own
  <2>5. call.id \in 1 .. calls
    <3>1. call.id <= calls
      BY <1>1, <1>3 DEF Inv, CallsInv
    <3> QED
      BY <1>3, <2>1, <3>1
  <2> HIDE DEF new
  <2>6. ASSUME NEW h \in handles'
        PROVE  /\ h.handle \in 1 .. calls /\ used[h.request] = "prepare"
               /\ h.request \in Own => req[h.request].handle \in {0, h.handle}
               /\ \A r \in Own : req[r].handle = h.handle => r = h.request
    <3>1. CASE h \in handles
      BY <3>1 DEF Inv, HandlesInv, Own
    <3>2. CASE call.op = "prepare" /\ h = new
      BY <2>1, <2>2, <2>4, <2>5, <3>2
    <3> QED
      BY <2>2, <3>1, <3>2
  <2>7. ASSUME NEW g \in handles', NEW h \in handles', g.handle = h.handle \/ g.request = h.request
        PROVE  g = h
    <3>1. CASE g \in handles /\ h \in handles
      BY <2>7, <3>1 DEF Inv, HandlesInv, Own
    <3>2. CASE ~(g \in handles /\ h \in handles)
      BY <2>2, <2>3, <2>7, <3>2
    <3> QED
      BY <3>1, <3>2
  <2>8. /\ (call.op \in {"prepare", "execute", "unprepare"} <=> used[Mine] = "prepare")
        /\ \A h \in handles' : h.handle = call.id => h.request = Mine
        /\ \A r \in Own : r # Mine => req[r].handle # call.id
    BY <1>1, <2>2 DEF Inv, HandlesInv, Own
  <2>9. IF call.op = "prepare"
        THEN /\ Mine \in Own /\ req[Mine].handle \in {0, call.id}
             /\ \A h \in handles' : h.request = Mine => h.handle = call.id
        ELSE Mine \in Own => call.handle = req[Mine].handle /\ req[Mine].handle # call.id
    BY <1>1, <2>2 DEF Inv, HandlesInv, Own
  <2>10. /\ \A r \in misled : used[r] = "prepare"
         /\ \A r \in Own : req[r].handle <= calls /\ (used[r] = "new" => req[r].handle = 0)
         /\ Own' = Own
    BY <1>1 DEF Inv, HandlesInv, Own
  <2> QED
    BY <1>1, <1>8, <1>9, <2>6, <2>7, <2>8, <2>9, <2>10 DEF HandlesInv, Own
<1>18. RowsInv'
  <2>1. ResultsAddUp'
    BY <1>1 DEF Inv, RowsInv, ResultsAddUp
  <2>2. /\ shown.rows = req[Mine].rows /\ shown.parts \o req[Mine].rst = req[Mine].rows
        /\ req[Mine].rowCount = 0 /\ req[Mine].rows = <<>>
    BY <1>1 DEF Inv, RowsInv
  <2>3. Len(req[Mine].rows) = 0 /\ answer' # <<>>
    BY <1>2, <1>5, <2>2
  <2>4. ~a.failed => Bring(answer', a.rows, Len(req[Mine].rows), Len(a.rows), req[Mine].rowCount, a.count)
    BY <1>2, <1>6, <2>2, <2>3
  <2>5. \A i \in 1 .. Len(req[Mine].rows) : req[Mine].rows[i] = a.rows[i]
    BY <2>3
  <2>6. call.ignore => a.count = 0 /\ a.rows = <<>>
    BY <1>4
  <2> HIDE DEF t
  <2> QED
    BY <1>1, <1>8, <1>9, <2>1, <2>2, <2>3, <2>4, <2>5, <2>6 DEF RowsInv
<1> QED
  BY <1>10, <1>11, <1>12, <1>13, <1>14, <1>15, <1>16, <1>17, <1>18 DEF Inv

LEMMA AppendConcat ==
  ASSUME NEW S, NEW s \in Seq(S), NEW u \in Seq(S), NEW e \in S
  PROVE  s \o Append(u, e) = Append(s \o u, e)
<1> DEFINE a == s \o Append(u, e)
           b == Append(s \o u, e)
<1>1. /\ Append(u, e) \in Seq(S) /\ Len(Append(u, e)) = Len(u) + 1
      /\ \A i \in 1 .. Len(u) : Append(u, e)[i] = u[i]
      /\ Append(u, e)[Len(u) + 1] = e
      /\ Len(s) \in Nat /\ Len(u) \in Nat
  OBVIOUS
<1>2. /\ s \o u \in Seq(S) /\ Len(s \o u) = Len(s) + Len(u)
      /\ \A i \in 1 .. Len(s) + Len(u) : (s \o u)[i] = IF i <= Len(s) THEN s[i] ELSE u[i - Len(s)]
  BY ConcatProperties
<1> DEFINE v == Append(u, e)
           c == s \o u
<1>3. v \in Seq(S) /\ c \in Seq(S) /\ Len(v) = Len(u) + 1 /\ Len(c) = Len(s) + Len(u)
  BY <1>1, <1>2
<1>4. /\ a \in Seq(S) /\ Len(a) = Len(s) + Len(v)
      /\ \A i \in 1 .. Len(s) + Len(v) : a[i] = IF i <= Len(s) THEN s[i] ELSE v[i - Len(s)]
  <2> HIDE DEF v
  <2>1. v \in Seq(S) /\ a = s \o v
    BY <1>3 DEF v
  <2> HIDE DEF a
  <2> QED
    BY <2>1, ConcatProperties
<1>5. /\ b \in Seq(S) /\ Len(b) = Len(c) + 1 /\ b[Len(c) + 1] = e
      /\ \A i \in 1 .. Len(c) : b[i] = c[i]
  <2> HIDE DEF c
  <2>1. c \in Seq(S) /\ b = Append(c, e)
    BY <1>3 DEF c
  <2> HIDE DEF b
  <2> QED
    BY <2>1
<1> HIDE DEF a, b
<1>6. Len(a) = Len(b)
  BY <1>1, <1>3, <1>4, <1>5
<1>7. ASSUME NEW i \in 1 .. Len(a) PROVE a[i] = b[i]
  <2>1. /\ \A k \in 1 .. Len(u) : v[k] = u[k]
        /\ v[Len(u) + 1] = e
        /\ \A k \in 1 .. Len(s) + Len(u) : c[k] = IF k <= Len(s) THEN s[k] ELSE u[k - Len(s)]
    BY <1>1, <1>2
  <2> HIDE DEF v, c
  <2>2. CASE i <= Len(s) + Len(u)
    <3>1. b[i] = IF i <= Len(s) THEN s[i] ELSE u[i - Len(s)]
      BY <1>1, <1>3, <1>5, <2>1, <2>2
    <3>2. ~(i <= Len(s)) => i - Len(s) \in 1 .. Len(u)
      BY <1>1, <2>2
    <3>3. a[i] = IF i <= Len(s) THEN s[i] ELSE u[i - Len(s)]
      BY <1>1, <1>3, <1>4, <2>1, <3>2
    <3> QED
      BY <3>1, <3>3
  <2>3. CASE i = Len(s) + Len(u) + 1
    <3>1. i - Len(s) = Len(u) + 1 /\ ~(i <= Len(s))
      BY <1>1, <2>3
    <3> QED
      BY <1>1, <1>3, <1>4, <1>5, <2>1, <2>3, <3>1
  <2>4. i \in 1 .. Len(s) + (Len(u) + 1)
    BY <1>3, <1>4
  <2>5. i <= Len(s) + Len(u) \/ i = Len(s) + Len(u) + 1
    BY <1>1, <2>4
  <2> QED
    BY <2>2, <2>3, <2>5
<1>8. a = b
  BY <1>4, <1>5, <1>6, <1>7, SeqEqual
<1> QED
  BY <1>8 DEF a, b

LEMMA HandlerInv == ASSUME Inv, Handler PROVE Inv'
<1> DEFINE p == req[Mine]
           t == answer[1]
           last == answer[Len(answer)]
<1>1. /\ Busy /\ call.executed /\ Wanted
      /\ answer # <<>> /\ Len(answer) \in Nat /\ Len(answer) >= 1
      /\ t \in Tokens
      /\ answer' \in Seq(Tokens) /\ Len(answer') = Len(answer) - 1
      /\ \A i \in 1 .. Len(answer') : answer'[i] = answer[i + 1]
      /\ UNCHANGED <<state, call, ticks, calls, pending, used, late, leaked, told, handles>>
  BY HandledToken DEF Inv
<1>2. /\ status' \in Nat /\ stained' \subseteq Nat /\ shown' \in Showings /\ misled' \subseteq Requests
  BY HandlerStep DEF Inv
<1>3. PICK q \in Fields : HandlerDoes(q)
  BY HandlerStep DEF Inv
<1>4. /\ call \in Flights /\ Mine \in Requests /\ call.id \in Nat /\ call.id # 0 /\ p \in Fields
      /\ req \in [Requests -> Fields]
  BY <1>1, MineExists DEF Inv, TypeOK
<1>5. /\ req' = [req EXCEPT ![Mine] = q]
      /\ FieldsHandled(p, q, t) /\ ErrorHandled(p, q, t) /\ StatusHandled(t) /\ RowsHandled(p, q, t)
  BY <1>3 DEF HandlerDoes
<1>6. /\ req' \in [Requests -> Fields] /\ req'[Mine] = q
      /\ \A x \in Requests : x # Mine => req'[x] = req[x]
  BY <1>4, <1>5
<1>7. q.preparing = p.preparing /\ q.canceled = p.canceled /\ q.listening = p.listening
  BY <1>5 DEF FieldsHandled
<1>8. Busy' /\ Mine' = Mine /\ Wanted' /\ CallKept
  BY <1>1, <1>4, <1>6, <1>7 DEF Busy, Mine, Wanted, CallKept
\* The last token stays the last, unless it is the one that was handled.
<1>9. /\ last.kind \in {"done", "doneProc"}
      /\ answer' # <<>> => answer'[Len(answer')] = last
      /\ answer' = <<>> => t = last
  <2>1. last.kind \in {"done", "doneProc"}
    BY <1>1 DEF Inv, AnswerInv, Closing
  <2>2. answer' # <<>> => Len(answer') >= 1
    BY <1>1
  <2>3. answer' = <<>> => Len(answer') = 0
    OBVIOUS
  <2> QED
    BY <1>1, <2>1, <2>2, <2>3
<1>10. /\ t.kind = "status" => t.v = call.id /\ last.kind = "doneProc"
       /\ t.kind = "handle" => /\ call.op \in {"prepare", "execute"}
                               /\ call.op = "prepare" => t.v = call.id
  BY <1>1 DEF Inv, AnswerInv
\* The handle of the statement that is being prepared is learned, or an execution's parameter for it.
<1>11. /\ call.op = "prepare" => misled' = misled
       /\ call.op = "prepare" /\ q.handle # p.handle => q.handle = call.id
       /\ call.op = "prepare" /\ t.kind = "handle" => q.handle = call.id
       /\ call.op # "prepare" /\ q.handle # p.handle => call.op = "execute" /\ Mine \in misled'
       /\ misled' = misled \/ (call.op = "execute" /\ misled' = misled \cup {Mine})
  <2>1. call.op = "prepare" => p.listening
    BY <1>1 DEF Inv, FlightInv
  <2>2. /\ q.handle = IF t.kind = "handle" /\ p.listening THEN t.v ELSE p.handle
        /\ misled' = IF t.kind = "handle" /\ p.listening /\ call.op # "prepare" THEN misled \cup {Mine} ELSE misled
    BY <1>5 DEF FieldsHandled
  <2> QED
    BY <1>10, <2>1, <2>2
<1> HIDE DEF p, t, last
<1>p. p = req[Mine]
  BY DEF p
<1>12. TypeOK'
  BY <1>1, <1>2, <1>6 DEF Inv, TypeOK
<1>13. CallsInv'
  <2>1. \A x \in Requests : req'[x].preparing = req[x].preparing /\ req'[x].listening = req[x].listening
    BY <1>6, <1>7, <1>p
  <2> QED
    BY <1>1, <1>8, <2>1 DEF Inv, CallsInv
<1>14. FlightInv'
  <2>1. ~call.ignore
    BY <1>1 DEF Inv, FlightInv
  <2> QED
    BY <1>1, <1>6, <1>7, <1>8, <1>p, <2>1 DEF Inv, FlightInv
<1>15. AnswerInv'
  <2>1. answer' # <<>> => Closing'
    BY <1>9 DEF Closing
  <2>2. ASSUME NEW i \in 1 .. Len(answer')
        PROVE  /\ answer'[i].kind = "status" => /\ answer'[i].v = call'.id
                                                /\ answer'[Len(answer')].kind = "doneProc"
               /\ answer'[i].kind = "handle" => /\ call'.op \in {"prepare", "execute"}
                                                /\ call'.op = "prepare" => answer'[i].v = call'.id
    <3>1. i + 1 \in 1 .. Len(answer) /\ answer'[i] = answer[i + 1] /\ call' = call
      BY <1>1
    <3>2. answer'[Len(answer')] = last
      <4>1. answer' # <<>>
        OBVIOUS
      <4> QED
        BY <1>9, <4>1
    <3> QED
      BY <3>1, <3>2 DEF Inv, AnswerInv, last
  <2> QED
    BY <2>1, <2>2 DEF AnswerInv
<1>16. ErrorInv'
  <2>1. CASE call.truth.failed
    <3>1. Mistaken(p.error) \/ last.failed
      BY <1>1, <1>p, <2>1 DEF Inv, ErrorInv, last
    <3>2. Mistaken(q.error) \/ (answer' # <<>> /\ answer'[Len(answer')].failed)
      BY <1>5, <1>9, <3>1 DEF ErrorHandled
    <3> QED
      BY <1>1, <1>6, <1>8, <2>1, <3>2 DEF ErrorInv
  <2>2. CASE ~call.truth.failed
    <3>1. /\ \A i \in 1 .. Len(answer) : answer[i].kind # "error" /\ ~answer[i].failed
          /\ call.id \in stained \/ p.error = Ok
          /\ call.op = "prepare" =>
               \/ p.handle = call.id
               \/ \E i \in 1 .. Len(answer) : answer[i].kind = "handle"
      BY <1>1, <1>p, <2>2 DEF Inv, ErrorInv
    <3>2. \A i \in 1 .. Len(answer') : answer'[i].kind # "error" /\ ~answer'[i].failed
      BY <1>1, <3>1
    <3>3. call.id \in stained' \/ q.error = Ok
      <4>1. t.kind # "error" /\ ~t.failed
        BY <1>1, <3>1 DEF t
      <4> QED
        BY <1>5, <3>1, <4>1 DEF ErrorHandled
    <3>4. ASSUME call.op = "prepare"
          PROVE  \/ q.handle = call.id
                 \/ \E i \in 1 .. Len(answer') : answer'[i].kind = "handle"
      <4>1. CASE p.handle = call.id
        BY <1>11, <3>4, <4>1
      <4>2. ASSUME NEW i \in 1 .. Len(answer), answer[i].kind = "handle"
            PROVE  \/ q.handle = call.id
                   \/ \E k \in 1 .. Len(answer') : answer'[k].kind = "handle"
        <5>1. CASE i = 1
          BY <1>11, <3>4, <4>2, <5>1 DEF t
        <5>2. CASE i # 1
          <6>1. i - 1 \in 1 .. Len(answer') /\ (i - 1) + 1 = i
            BY <1>1, <5>2
          <6>2. answer'[i - 1] = answer[i]
            BY <1>1, <6>1
          <6> QED
            BY <4>2, <6>1, <6>2
        <5> QED
          BY <5>1, <5>2
      <4> QED
        BY <3>1, <3>4, <4>1, <4>2
    <3> QED
      BY <1>1, <1>6, <1>8, <2>2, <3>2, <3>3, <3>4 DEF ErrorInv
  <2> QED
    BY <2>1, <2>2
<1>17. ToldInv'
  <2>1. OutcomeIsServers'
    <3>1. stained \subseteq stained' /\ OutcomeIsServers /\ told' = told /\ late' = late
      BY <1>1, <1>5 DEF Inv, ToldInv, ErrorHandled
    <3> QED
      BY <3>1 DEF OutcomeIsServers
  <2> QED
    BY <1>1, <2>1 DEF Inv, ToldInv
<1>18. StatusInv'
  <2> SUFFICES ASSUME ~leaked
               PROVE  /\ shown'.status \in {NoStatus, shown'.of}
                      /\ status' # NoStatus => /\ status' = call.id
                                               /\ answer' # <<>> /\ answer'[Len(answer')].kind = "doneProc"
    BY <1>1, <1>8 DEF StatusInv
  <2>1. /\ shown.status \in {NoStatus, shown.of}
        /\ status # NoStatus => status = call.id /\ last.kind = "doneProc"
    BY DEF Inv, StatusInv, last
  <2>2. shown'.status \in {NoStatus, shown'.of}
    BY <1>5, <2>1 DEF StatusHandled
  <2>3. ASSUME status' # NoStatus PROVE status' = call.id /\ last.kind = "doneProc" /\ t.kind # "doneProc"
    BY <1>5, <1>10, <2>1, <2>3 DEF StatusHandled
  <2> QED
    BY <1>9, <2>2, <2>3
<1>19. HandlesInv'
  <2>1. /\ misled' \subseteq misled \cup {Mine} /\ misled \subseteq misled' /\ Own' \subseteq Own
        /\ \A x \in Own' : x = Mine => req'[x].handle \in {req[x].handle, call.id}
        /\ \A x \in Own' : x = Mine /\ req'[x].handle # req[x].handle => call.op = "prepare"
        /\ \A x \in Own' : x # Mine => req'[x].handle = req[x].handle
    BY <1>6, <1>11, <1>p DEF Own
  <2>2. call.id <= calls
    BY <1>1, <1>4 DEF Inv, CallsInv
  <2>3. /\ (call.op \in {"prepare", "execute", "unprepare"} <=> used[Mine] = "prepare")
        /\ \A h \in handles : h.handle = call.id => h.request = Mine
        /\ \A r \in Own : r # Mine => req[r].handle # call.id
        /\ IF call.op = "prepare"
           THEN /\ Mine \in Own /\ req[Mine].handle \in {0, call.id}
                /\ \A h \in handles : h.request = Mine => h.handle = call.id /\ call.executed
           ELSE Mine \in Own => call.handle = req[Mine].handle /\ req[Mine].handle # call.id
    BY <1>1 DEF Inv, HandlesInv
  <2>4. \A r \in misled' : used[r] = "prepare"
    BY <1>11, <2>3 DEF Inv, HandlesInv
  <2>5. ASSUME NEW h \in handles
        PROVE  /\ h.handle \in 1 .. calls /\ used[h.request] = "prepare"
               /\ h.request \in Own' => req'[h.request].handle \in {0, h.handle}
               /\ \A r \in Own' : req'[r].handle = h.handle => r = h.request
    <3>1. /\ h.handle \in 1 .. calls /\ used[h.request] = "prepare"
          /\ h.request \in Own => req[h.request].handle \in {0, h.handle}
          /\ \A r \in Own : req[r].handle = h.handle => r = h.request
      BY DEF Inv, HandlesInv
    <3>2. h.request \in Own' => req'[h.request].handle \in {0, h.handle}
      BY <2>1, <2>3, <3>1
    <3>3. \A r \in Own' : req'[r].handle = h.handle => r = h.request
      BY <2>1, <2>3, <3>1
    <3> QED
      BY <3>1, <3>2, <3>3
  <2>6. ASSUME NEW r \in Own'
        PROVE  req'[r].handle <= calls /\ (used[r] = "new" => req'[r].handle = 0)
    <3>1. req[r].handle <= calls /\ (used[r] = "new" => req[r].handle = 0)
      BY <2>1 DEF Inv, HandlesInv
    <3> QED
      BY <2>1, <2>2, <2>3, <3>1
  <2>7. \A g, h \in handles : (g.handle = h.handle \/ g.request = h.request) => g = h
    BY DEF Inv, HandlesInv
  <2>8. \A r \in Own' : r # Mine => req'[r].handle # call.id
    BY <2>1, <2>3
  <2>9. IF call.op = "prepare"
        THEN /\ Mine \in Own' /\ req'[Mine].handle \in {0, call.id}
             /\ \A h \in handles : h.request = Mine => h.handle = call.id /\ call.executed
        ELSE Mine \in Own' => call.handle = req'[Mine].handle /\ req'[Mine].handle # call.id
    <3>1. CASE call.op = "prepare"
      <4>1. Mine \in Own'
        BY <1>11, <2>3, <3>1 DEF Own
      <4> QED
        BY <2>1, <2>3, <3>1, <4>1
    <3>2. CASE call.op # "prepare"
      BY <2>1, <2>3, <3>2
    <3> QED
      BY <3>1, <3>2
  <2> QED
    BY <1>1, <1>8, <2>3, <2>4, <2>5, <2>6, <2>7, <2>8, <2>9 DEF HandlesInv
<1>20. RowsInv'
  <2> DEFINE truth == call.truth
  <2>1. /\ shown.rows = p.rows /\ shown.parts \o p.rst = p.rows
        /\ ~truth.failed =>
             /\ Bring(answer, truth.rows, Len(p.rows), Len(truth.rows), p.rowCount, truth.count)
             /\ \A i \in 1 .. Len(p.rows) : p.rows[i] = truth.rows[i]
    BY <1>1, <1>p DEF Inv, RowsInv
  <2>2. /\ p.rows \in Seq(RowIds) /\ p.rst \in Seq(RowIds) /\ p.rowCount \in Nat
        /\ shown.parts \in Seq(RowIds) /\ shown.rows \in Seq(RowIds)
        /\ truth.rows \in Seq(RowIds) /\ truth.count \in Nat
    BY <1>4 DEF Inv, TypeOK, Showings, Fields, Flights, Truths
  <2>3. /\ t.kind = "row" => t.v \in RowIds
        /\ t.kind = "row" => t.kind \notin Dones
    BY <1>1 DEF Tokens, Dones
  <2>4. shown'.rows = q.rows
    BY <1>5, <2>1 DEF RowsHandled
  <2>5. shown'.parts \o q.rst = q.rows
    <3>1. CASE t.kind = "row"
      <4>1. /\ q.rows = Append(p.rows, t.v) /\ q.rst = Append(p.rst, t.v) /\ shown'.parts = shown.parts
        BY <1>5, <3>1 DEF RowsHandled
      <4>2. shown.parts \o Append(p.rst, t.v) = Append(shown.parts \o p.rst, t.v)
        <5> DEFINE parts == shown.parts
                   rst == p.rst
                   row == t.v
        <5>1. parts \in Seq(RowIds) /\ rst \in Seq(RowIds) /\ row \in RowIds
          BY <2>2, <2>3, <3>1
        <5> HIDE DEF parts, rst, row
        <5>2. parts \o Append(rst, row) = Append(parts \o rst, row)
          BY <5>1, AppendConcat
        <5> QED
          BY <5>2 DEF parts, rst, row
      <4> QED
        BY <2>1, <4>1, <4>2
    <3>2. CASE t.kind \in Dones
      <4>1. q.rows = p.rows /\ q.rst = <<>> /\ shown'.parts = p.rows
        BY <1>5, <2>1, <2>3, <3>2 DEF RowsHandled
      <4> QED
        BY <2>2, <4>1, ConcatEmptySeq
    <3>3. CASE t.kind \notin Dones \cup {"row"}
      BY <1>5, <2>1, <3>3 DEF RowsHandled
    <3> QED
      BY <3>1, <3>2, <3>3
  <2>6. q.rst # <<>> => answer' # <<>>
    BY <1>5, <1>9 DEF RowsHandled, Dones
  <2>7. ASSUME ~truth.failed
        PROVE  /\ Bring(answer', truth.rows, Len(q.rows), Len(truth.rows), q.rowCount, truth.count)
               /\ \A i \in 1 .. Len(q.rows) : q.rows[i] = truth.rows[i]
    <3> DEFINE j == Len(p.rows)
               k == Len(truth.rows)
               m == p.rowCount
               n == truth.count
    <3>1. /\ answer \in Seq(Tokens) /\ answer' = Tail(answer)
          /\ j \in Nat /\ k \in Nat /\ m \in Nat /\ n \in Nat
          /\ Bring(answer, truth.rows, j, k, m, n)
      <4>1. answer \in Seq(Tokens)
        BY DEF Inv, TypeOK
      <4>2. answer' = Tail(answer)
        BY DEF Handler, OnErrorMessage, OnRow, OnReturnStatus, OnReturnValue, OnDone, OnDoneInProc,
               OnDoneProc, Handled
      <4> QED
        BY <2>1, <2>2, <2>7, <4>1, <4>2
    <3> HIDE DEF truth, j, k, m, n
    <3>2. /\ t.kind = "row" => t.v = truth.rows[j + 1]
          /\ Bring(answer', truth.rows, IF t.kind = "row" THEN j + 1 ELSE j, k, m + Amount(t), n)
      BY <1>1, <3>1, BringNext DEF t
    <3>3. q.rowCount = m + Amount(t)
      BY <1>5 DEF RowsHandled, m
    <3>4. CASE t.kind = "row"
      <4>1. q.rows = Append(p.rows, t.v)
        BY <1>5, <3>4 DEF RowsHandled
      <4>2. Len(q.rows) = j + 1
        BY <2>2, <4>1 DEF j
      <4>3. \A i \in 1 .. Len(q.rows) : q.rows[i] = truth.rows[i]
        <5>1. \A i \in 1 .. j : q.rows[i] = p.rows[i]
          BY <2>2, <4>1 DEF j
        <5>2. q.rows[j + 1] = t.v
          BY <2>2, <4>1 DEF j
        <5>3. \A i \in 1 .. j : p.rows[i] = truth.rows[i]
          BY <2>1, <2>7 DEF j, truth
        <5> QED
          BY <3>1, <3>2, <3>4, <4>2, <5>1, <5>2, <5>3
      <4> QED
        BY <3>2, <3>3, <3>4, <4>2, <4>3 DEF k, n
    <3>5. CASE t.kind # "row"
      <4>1. q.rows = p.rows
        BY <1>5, <3>5 DEF RowsHandled
      <4>2. Len(q.rows) = j
        BY <4>1 DEF j
      <4>3. \A i \in 1 .. Len(q.rows) : q.rows[i] = truth.rows[i]
        BY <2>1, <2>7, <4>1 DEF truth
      <4> QED
        BY <3>2, <3>3, <3>5, <4>2, <4>3 DEF k, n
    <3> QED
      BY <3>4, <3>5
  <2>8. ResultsAddUp'
    BY <1>1 DEF Inv, RowsInv, ResultsAddUp
  <2>9. Busy' /\ Mine' = Mine /\ call' = call /\ call.executed /\ ~call.ignore /\ req'[Mine] = q
    BY <1>1, <1>6, <1>8 DEF Inv, FlightInv
  <2> QED
    BY <2>4, <2>5, <2>6, <2>7, <2>8, <2>9 DEF RowsInv
<1> QED
  BY <1>12, <1>13, <1>14, <1>15, <1>16, <1>17, <1>18, <1>19, <1>20 DEF Inv

\* What every call leaves: the answer of others, and whose handle is whose.
Aside(r, op, q) ==
  /\ pending[r] = 0 /\ calls \in Nat /\ calls' = calls + 1
  /\ UNCHANGED <<status, answer, late, leaked, misled, handles>>
  /\ req' \in [Requests -> Fields] /\ req'[r] = q
  /\ \A x \in Requests : /\ req'[x].handle = req[x].handle
                         /\ x # r => req'[x] = req[x] /\ used'[x] = used[x]
  /\ used' \in [Requests -> Ops \cup {"new"}]
  /\ (used'[r] = "prepare" <=> op \in {"prepare", "execute", "unprepare"}) /\ used'[r] # "new"
  /\ op = "prepare" => req[r].handle = 0 /\ \A h \in handles : h.request # r
  /\ stained \subseteq stained' /\ stained' \subseteq Nat
  /\ calls + 1 \in stained' \/ req[r].error = Ok
  /\ \A t \in ticks : t.request # r /\ t.request \in Requests
  /\ Busy => Mine # r /\ Mine \in Requests /\ req'[Mine] = req[Mine]
  /\ \A h \in handles' : /\ h.handle \in 1 .. calls /\ h.handle \in 1 .. calls'
                         /\ used'[h.request] = "prepare"
                         /\ h.request \in Own => req'[h.request].handle \in {0, h.handle}
                         /\ \A x \in Own : req'[x].handle = h.handle => x = h.request
  /\ \A g, h \in handles' : (g.handle = h.handle \/ g.request = h.request) => g = h
  /\ \A x \in Own : /\ req'[x].handle <= calls /\ req'[x].handle <= calls'
                    /\ (used'[x] = "new" => req'[x].handle = 0)
  /\ \A x \in misled : used'[x] = "prepare"
  /\ op = "prepare" => r \in Own

LEMMA UserFrame ==
  ASSUME Inv, NEW r \in Requests, NEW op \in Ops, NEW q \in Fields,
         Called(r, op), Asked(r, q, op), req' = [req EXCEPT ![r] = q]
  PROVE  Aside(r, op, q)
<1>1. /\ pending[r] = 0 /\ calls \in Nat /\ calls' = calls + 1
      /\ UNCHANGED <<status, answer, late, leaked, misled, handles>>
      /\ used' = [used EXCEPT ![r] = IF @ = "new" THEN op ELSE @]
      /\ stained' = IF req[r].error = Ok THEN stained ELSE stained \cup {calls + 1}
      /\ stained \subseteq Nat
  BY DEF Called, Inv, TypeOK
<1>2. /\ req \in [Requests -> Fields] /\ used \in [Requests -> Ops \cup {"new"}]
      /\ handles \subseteq [handle : Nat, request : Requests]
      /\ ticks \subseteq [request : Requests, err : Errors]
  BY DEF Inv, TypeOK
<1>3. /\ q.handle = req[r].handle
      /\ used[r] = IF op \in {"execute", "unprepare"} THEN "prepare" ELSE "new"
  BY DEF Asked
<1>4. /\ req' \in [Requests -> Fields] /\ req'[r] = q
      /\ \A x \in Requests : req'[x].handle = req[x].handle /\ (x # r => req'[x] = req[x])
  BY <1>2, <1>3
<1>5. /\ \A x \in Requests : x # r => used'[x] = used[x]
      /\ used'[r] = IF op \in {"execute", "unprepare"} THEN "prepare" ELSE op
      /\ used' \in [Requests -> Ops \cup {"new"}]
  BY <1>1, <1>2, <1>3
<1>6. (used'[r] = "prepare" <=> op \in {"prepare", "execute", "unprepare"}) /\ used'[r] # "new"
  BY <1>5 DEF Ops
<1>7. \A h \in handles : /\ h.handle \in 1 .. calls /\ used[h.request] = "prepare"
                         /\ h.request \in Own => req[h.request].handle \in {0, h.handle}
                         /\ h.request \in Requests
                         /\ \A x \in Own : req[x].handle = h.handle => x = h.request
  BY <1>2 DEF Inv, HandlesInv, Own
<1>8. op = "prepare" => r \in Own /\ req[r].handle = 0 /\ \A h \in handles : h.request # r
  BY <1>3, <1>7 DEF Inv, HandlesInv, Own
<1>9. /\ stained \subseteq stained' /\ stained' \subseteq Nat
      /\ calls + 1 \in stained' \/ req[r].error = Ok
  BY <1>1
<1>10. \A t \in ticks : t.request # r /\ t.request \in Requests
  BY <1>1, <1>2 DEF Inv, CallsInv
<1>11. Busy => Mine # r /\ Mine \in Requests /\ req'[Mine] = req[Mine]
  <2>1. Busy => Mine \in Requests /\ call.id # 0
    BY MineExists DEF Inv
  <2> QED
    BY <1>1, <1>4, <2>1 DEF Inv, CallsInv
<1>12. ASSUME NEW h \in handles'
       PROVE  /\ h.handle \in 1 .. calls /\ h.handle \in 1 .. calls' /\ used'[h.request] = "prepare"
              /\ h.request \in Own => req'[h.request].handle \in {0, h.handle}
              /\ \A x \in Own : req'[x].handle = h.handle => x = h.request
  <2>1. /\ h.handle \in 1 .. calls /\ used[h.request] = "prepare"
        /\ h.request \in Own => req[h.request].handle \in {0, h.handle}
        /\ h.request \in Requests
        /\ \A x \in Own : req[x].handle = h.handle => x = h.request
    BY <1>1, <1>7
  <2>2. h.handle \in 1 .. calls'
    BY <1>1, <2>1
  <2>3. used'[h.request] = "prepare"
    BY <1>3, <1>5, <2>1
  <2> QED
    BY <1>4, <2>1, <2>2, <2>3 DEF Own
<1>13. \A g, h \in handles' : (g.handle = h.handle \/ g.request = h.request) => g = h
  BY <1>1 DEF Inv, HandlesInv, Own
<1>14. ASSUME NEW x \in Own
       PROVE  /\ req'[x].handle <= calls /\ req'[x].handle <= calls'
              /\ (used'[x] = "new" => req'[x].handle = 0)
  <2>1. req[x].handle <= calls /\ (used[x] = "new" => req[x].handle = 0) /\ req[x].handle \in Nat
    BY <1>2 DEF Inv, HandlesInv, Own, Fields
  <2>2. used'[x] = "new" => used[x] = "new"
    BY <1>5, <1>6 DEF Own
  <2>3. req'[x].handle = req[x].handle
    BY <1>4 DEF Own
  <2> QED
    BY <1>1, <2>1, <2>2, <2>3
<1>15. \A x \in misled : used'[x] = "prepare"
  <2>1. \A x \in misled : x \in Requests /\ used[x] = "prepare"
    BY DEF Inv, TypeOK, HandlesInv
  <2> QED
    BY <1>3, <1>5, <1>6, <2>1
<1> QED
  BY <1>1, <1>4, <1>5, <1>6, <1>8, <1>9, <1>10, <1>11, <1>12, <1>13, <1>14, <1>15 DEF Aside

\* A call that is not begun leaves the call in flight as it is.
LEMMA AsideStep ==
  ASSUME Inv, NEW r \in Requests, NEW op \in Ops, NEW q \in Fields,
         Called(r, op), Asked(r, q, op), Refused(r, q) \/ Deferred(r, q), told' \in Outcomes
  PROVE  Inv'
<1>1. req' = [req EXCEPT ![r] = q] /\ UNCHANGED <<state, call, shown>>
  BY DEF Refused, Deferred
<1>a. Aside(r, op, q)
  BY <1>1, UserFrame
<1>2. /\ pending[r] = 0 /\ calls \in Nat /\ calls' = calls + 1
      /\ UNCHANGED <<status, answer, late, leaked, misled, handles>>
      /\ req' \in [Requests -> Fields] /\ req'[r] = q
      /\ \A x \in Requests : /\ req'[x].handle = req[x].handle
                             /\ x # r => req'[x] = req[x] /\ used'[x] = used[x]
      /\ used' \in [Requests -> Ops \cup {"new"}]
      /\ stained \subseteq stained' /\ stained' \subseteq Nat
      /\ \A t \in ticks : t.request # r /\ t.request \in Requests
      /\ Busy => Mine # r /\ Mine \in Requests /\ req'[Mine] = req[Mine]
  BY <1>1, <1>a DEF Aside
<1>3. /\ Busy' = Busy /\ Mine' = Mine
      /\ Busy => Wanted' = Wanted
  BY <1>1, <1>2 DEF Busy, Mine, Wanted
<1>4. CallKept
  BY <1>1, <1>2, <1>3 DEF CallKept
<1>5. /\ pending' \in [Requests -> Nat] /\ pending'[r] \in {0, calls + 1}
      /\ \A x \in Requests : x # r => pending'[x] = pending[x]
      /\ pending'[r] = 0 => ~q.preparing
      /\ ticks' \subseteq [request : Requests, err : Errors]
      /\ \A t \in ticks' : t \in ticks \/ (t.request = r /\ pending'[r] # 0 /\ Mistaken(t.err))
      /\ \A t, u \in ticks' : t.request = u.request => t = u
  <2>0. pending \in [Requests -> Nat] /\ ticks \subseteq [request : Requests, err : Errors]
        /\ \A t, u \in ticks : t.request = u.request => t = u
    BY DEF Inv, TypeOK, CallsInv
  <2>1. CASE Refused(r, q)
    BY <1>2, <2>0, <2>1 DEF Refused
  <2>2. CASE Deferred(r, q)
    <3>1. PICK e \in Errors : Mistaken(e) /\ ticks' = ticks \cup {[request |-> r, err |-> e]}
      BY <2>2 DEF Deferred
    <3>2. pending' = [pending EXCEPT ![r] = calls + 1]
      BY <2>2 DEF Deferred
    <3>3. /\ pending' \in [Requests -> Nat] /\ pending'[r] = calls + 1 /\ calls + 1 # 0
          /\ \A x \in Requests : x # r => pending'[x] = pending[x]
      BY <1>2, <2>0, <3>2
    <3> DEFINE new == [request |-> r, err |-> e]
    <3>4. new.request = r /\ new.err = e /\ new \in [request : Requests, err : Errors]
          /\ ticks' = ticks \cup {new}
      BY <3>1
    <3> HIDE DEF new
    <3> QED
      BY <1>2, <2>0, <3>1, <3>3, <3>4
  <2> QED
    BY <2>1, <2>2
<1>6. TypeOK'
  BY <1>1, <1>2, <1>5 DEF Inv, TypeOK
<1>7. CallsInv'
  <2>1. ASSUME NEW x \in Requests
        PROVE  /\ pending'[x] <= calls' /\ (pending'[x] = 0 => ~req'[x].preparing)
               /\ req'[x].preparing => req'[x].listening
    <3>1. CASE x = r
      BY <1>2, <1>5, <3>1 DEF Asked
    <3>2. CASE x # r
      <4>1. /\ pending[x] <= calls /\ (pending[x] = 0 => ~req[x].preparing)
            /\ req[x].preparing => req[x].listening
            /\ pending[x] \in Nat
        BY DEF Inv, CallsInv, TypeOK
      <4> QED
        BY <1>2, <1>5, <3>2, <4>1
    <3> QED
      BY <3>1, <3>2
  <2>2. \A t \in ticks' : Mistaken(t.err) /\ pending'[t.request] # 0
    BY <1>2, <1>5 DEF Inv, CallsInv
  <2>3. Busy => pending'[Mine] = call.id /\ \A t \in ticks' : t.request # Mine
    BY <1>2, <1>5 DEF Inv, CallsInv
  <2>4. state' = "BUSY" <=> Busy'
    BY <1>1, <1>3 DEF Inv, CallsInv
  <2> QED
    BY <1>1, <1>3, <1>5, <2>1, <2>2, <2>3, <2>4 DEF CallsInv
<1>8. FlightInv' /\ ErrorInv'
  <2>1. FlightInv /\ ErrorInv
    BY DEF Inv
  <2>2. call' = call /\ answer' = answer /\ stained \subseteq stained' /\ late' = late
        /\ (Busy => req'[Mine] = req[Mine])
    BY <1>1, <1>2
  <2>3. FlightInv'
    BY <1>3, <2>1, <2>2 DEF FlightInv
  <2>4. ErrorInv'
    BY <1>3, <2>1, <2>2 DEF ErrorInv
  <2> QED
    BY <2>3, <2>4
<1>9. AnswerInv'
  BY <1>1, <1>2 DEF Inv, AnswerInv, Closing
<1>10. ToldInv' /\ ResultsAddUp'
  <2>1. CASE Refused(r, q)
    <3>1. told'.err # Ok /\ told'.truth.failed
      BY <2>1, Basics DEF Refused
    <3> QED
      BY <3>1 DEF ToldInv, OutcomeIsServers, ResultsAddUp
  <2>2. CASE Deferred(r, q)
    <3>1. told' = told
      BY <2>2 DEF Deferred
    <3> QED
      BY <1>2, <3>1 DEF Inv, ToldInv, OutcomeIsServers, RowsInv, ResultsAddUp
  <2> QED
    BY <2>1, <2>2
<1>11. StatusInv'
  BY <1>1, <1>2, <1>3 DEF Inv, StatusInv
<1>12. HandlesInv'
  <2>1. /\ \A h \in handles' : /\ h.handle \in 1 .. calls' /\ used'[h.request] = "prepare"
                               /\ h.request \in Own => req'[h.request].handle \in {0, h.handle}
                               /\ \A x \in Own : req'[x].handle = h.handle => x = h.request
        /\ \A g, h \in handles' : (g.handle = h.handle \/ g.request = h.request) => g = h
        /\ \A x \in Own : req'[x].handle <= calls' /\ (used'[x] = "new" => req'[x].handle = 0)
        /\ \A x \in misled' : used'[x] = "prepare"
        /\ Own' = Own
    BY <1>1, <1>2, <1>a DEF Aside, Own
  <2>2. ASSUME Busy
        PROVE  /\ (call.op \in {"prepare", "execute", "unprepare"} <=> used'[Mine] = "prepare")
               /\ \A h \in handles' : h.handle = call.id => h.request = Mine
               /\ \A x \in Own : x # Mine => req'[x].handle # call.id
               /\ IF call.op = "prepare"
                  THEN /\ Mine \in Own /\ req'[Mine].handle \in {0, call.id}
                       /\ \A h \in handles' : h.request = Mine => h.handle = call.id /\ call.executed
                  ELSE Mine \in Own => call.handle = req'[Mine].handle /\ req'[Mine].handle # call.id
    BY <1>2, <2>2 DEF Inv, HandlesInv, Own
  <2> QED
    BY <1>1, <1>3, <2>1, <2>2 DEF HandlesInv, Own
<1>13. RowsInv'
  BY <1>1, <1>2, <1>3, <1>4, <1>10, RowsFrame DEF Inv
<1> QED
  BY <1>6, <1>7, <1>8, <1>9, <1>10, <1>11, <1>12, <1>13 DEF Inv

LEMMA BegunStep ==
  ASSUME Inv, NEW r \in Requests, NEW op \in Ops, NEW q \in Fields,
         Called(r, op), Asked(r, q, op), Begun(r, q, op)
  PROVE  Inv'
<1>1. /\ state = "LOGGED_IN" /\ state' = "BUSY" /\ shown' = Nothing
      /\ req' = [req EXCEPT ![r] = q]
      /\ q.error = req[r].error /\ ~q.canceled /\ q.rowCount = 0 /\ q.rows = <<>> /\ q.rst = <<>>
      /\ pending' = [pending EXCEPT ![r] = calls + 1]
      /\ UNCHANGED <<ticks, told>>
  BY DEF Begun
<1>a. Aside(r, op, q)
  BY <1>1, UserFrame
<1>2. call' = [id |-> calls + 1, op |-> op, request |-> r, handle |-> q.handle, finished |-> FALSE,
               ignore |-> FALSE, executed |-> FALSE, truth |-> Truth]
  BY DEF Begun
<1>3. ~Busy /\ answer = <<>> /\ (~leaked => status = NoStatus)
  BY <1>1 DEF Inv, CallsInv, FlightInv, StatusInv
<1>4. /\ pending[r] = 0 /\ calls \in Nat /\ calls' = calls + 1
      /\ UNCHANGED <<status, answer, late, leaked, misled, handles>>
      /\ req' \in [Requests -> Fields] /\ req'[r] = q
      /\ \A x \in Requests : /\ req'[x].handle = req[x].handle
                             /\ x # r => req'[x] = req[x] /\ used'[x] = used[x]
      /\ used' \in [Requests -> Ops \cup {"new"}]
      /\ stained \subseteq stained' /\ stained' \subseteq Nat
      /\ calls + 1 \in stained' \/ req[r].error = Ok
      /\ \A t \in ticks : t.request # r /\ t.request \in Requests
  BY <1>1, <1>a DEF Aside
<1>5. /\ call' \in Flights /\ call'.id = calls + 1 /\ call'.op = op /\ call'.request = r
      /\ call'.handle = q.handle /\ ~call'.ignore /\ ~call'.executed
  BY <1>2, <1>4, Basics DEF Flights, Fields
<1>6. Busy' /\ Mine' = r
  BY <1>5, FlightIsBusy DEF Busy, Mine
<1>7. TypeOK'
  <2>1. pending' \in [Requests -> Nat]
    BY <1>1, <1>4 DEF Inv, TypeOK
  <2> QED
    BY <1>1, <1>4, <1>5, <2>1, Basics DEF Inv, TypeOK
<1>8. CallsInv'
  <2>1. pending'[r] = calls + 1 /\ \A x \in Requests : x # r => pending'[x] = pending[x]
    BY <1>1, <1>4 DEF Inv, TypeOK
  <2>2. ASSUME NEW x \in Requests
        PROVE  /\ pending'[x] <= calls' /\ (pending'[x] = 0 => ~req'[x].preparing)
               /\ req'[x].preparing => req'[x].listening
    <3>1. CASE x = r
      BY <1>4, <2>1, <3>1 DEF Asked
    <3>2. CASE x # r
      <4>1. /\ pending[x] <= calls /\ (pending[x] = 0 => ~req[x].preparing)
            /\ req[x].preparing => req[x].listening
            /\ pending[x] \in Nat
        BY DEF Inv, CallsInv, TypeOK
      <4> QED
        BY <1>4, <2>1, <3>2, <4>1
    <3> QED
      BY <3>1, <3>2
  <2>3. /\ \A t \in ticks' : Mistaken(t.err) /\ pending'[t.request] # 0
        /\ \A t, u \in ticks' : t.request = u.request => t = u
    BY <1>1, <1>4, <2>1 DEF Inv, CallsInv
  <2> QED
    BY <1>1, <1>4, <1>5, <1>6, <2>1, <2>2, <2>3 DEF CallsInv
<1>9. FlightInv'
  BY <1>1, <1>3, <1>4, <1>5, <1>6 DEF FlightInv, Asked
<1>10. ErrorInv'
  BY <1>5 DEF ErrorInv
<1>11. AnswerInv'
  <2>1. answer' = <<>> /\ Len(answer') = 0
    BY <1>3, <1>4
  <2> QED
    BY <2>1 DEF AnswerInv
<1>12. ToldInv'
  BY <1>1, <1>4 DEF Inv, ToldInv, OutcomeIsServers
<1>13. StatusInv'
  BY <1>1, <1>3, <1>4, Basics DEF StatusInv
<1>14. HandlesInv'
  <2>1. /\ \A h \in handles' : /\ h.handle \in 1 .. calls /\ h.handle \in 1 .. calls'
                               /\ used'[h.request] = "prepare"
                               /\ h.request \in Own => req'[h.request].handle \in {0, h.handle}
                               /\ \A x \in Own : req'[x].handle = h.handle => x = h.request
        /\ \A g, h \in handles' : (g.handle = h.handle \/ g.request = h.request) => g = h
        /\ \A x \in Own : /\ req'[x].handle <= calls /\ req'[x].handle <= calls'
                          /\ (used'[x] = "new" => req'[x].handle = 0)
        /\ \A x \in misled' : used'[x] = "prepare"
        /\ Own' = Own
    BY <1>1, <1>4, <1>a DEF Aside, Own
  <2>2. /\ (used'[r] = "prepare" <=> op \in {"prepare", "execute", "unprepare"})
        /\ op = "prepare" => r \in Own /\ req[r].handle = 0 /\ \A h \in handles : h.request # r
    BY <1>1, <1>a DEF Aside
  <2>3. /\ \A h \in handles' : h.handle # calls + 1
        /\ \A x \in Own : req'[x].handle # calls + 1
    <3>1. \A x \in Own : req'[x].handle \in Nat
      BY <1>4 DEF Fields, Own
    <3> QED
      BY <1>4, <2>1, <3>1
  <2>4. IF call'.op = "prepare"
        THEN /\ r \in Own /\ req'[r].handle \in {0, call'.id}
             /\ \A h \in handles' : h.request = r => h.handle = call'.id /\ call'.executed
        ELSE r \in Own => call'.handle = req'[r].handle /\ req'[r].handle # call'.id
    BY <1>4, <1>5, <2>2, <2>3
  <2>5. /\ \A h \in handles' : h.handle = call'.id => h.request = r
        /\ \A x \in Own : x # r => req'[x].handle # call'.id
        /\ (call'.op \in {"prepare", "execute", "unprepare"} <=> used'[r] = "prepare")
    BY <1>5, <2>2, <2>3
  <2> QED
    BY <1>6, <2>1, <2>4, <2>5 DEF HandlesInv, Own
<1>15. RowsInv'
  <2>1. ResultsAddUp'
    BY <1>1 DEF Inv, RowsInv, ResultsAddUp
  <2>2. shown'.rows = <<>> /\ shown'.parts \o <<>> = <<>>
    <3>1. <<>> \o <<>> = <<>>
      BY Basics, ConcatEmptySeq
    <3> QED
      BY <1>1, <3>1, Basics
  <2> QED
    BY <1>1, <1>4, <1>5, <1>6, <2>1, <2>2 DEF RowsInv
<1> QED
  BY <1>7, <1>8, <1>9, <1>10, <1>11, <1>12, <1>13, <1>14, <1>15 DEF Inv

LEMMA NextInv == Inv /\ [Next]_vars => Inv'
<1> SUFFICES ASSUME Inv, [Next]_vars PROVE Inv'
  OBVIOUS
<1>1. ASSUME NEW r \in Requests, UserCall(r) PROVE Inv'
  <2>1. PICK op \in Ops, q \in Fields :
          /\ Called(r, op) /\ Asked(r, q, op)
          /\ Refused(r, q) \/ Deferred(r, q) \/ Begun(r, q, op)
          /\ told' \in Outcomes
    BY <1>1, UserOutcome DEF Inv
  <2>2. CASE Refused(r, q) \/ Deferred(r, q)
    BY <2>1, <2>2, AsideStep
  <2>3. CASE Begun(r, q, op)
    BY <2>1, <2>3, BegunStep
  <2> QED
    BY <2>1, <2>2, <2>3
<1>2. ASSUME NEW r \in Requests, Cancel(r) \/ RequestTimeout(r) PROVE Inv'
  BY <1>2, CancelStep DEF Cancel, RequestTimeout
<1>3. CASE Tick
  BY <1>3, TickStep
<1>4. CASE MessageFinished
  BY <1>4, FinishStep
<1>5. CASE AttentionAck
  BY <1>5, AckStep
<1>6. CASE ServerExecutes
  BY <1>6, ExecuteStep
<1>7. CASE Handler
  BY <1>7, HandlerInv
<1>8. CASE Ignored
  BY <1>8, IgnoredStep
<1>9. CASE EndOfMessage
  BY <1>9, EndStep
<1>a. CASE TimeoutOfCanceled
  BY <1>a, TimeoutStep
<1>10. CASE UNCHANGED vars
  <2>1. UNCHANGED <<state, call, status, answer, req, ticks, calls, pending, used, stained, late, leaked, misled,
                     shown, told, handles>>
    BY <1>10 DEF vars
  <2>2. Busy' = Busy /\ Mine' = Mine /\ Wanted' = Wanted
    BY <2>1 DEF Busy, Mine, Wanted
  <2>3. TypeOK' /\ CallsInv' /\ FlightInv'
    BY <2>1, <2>2 DEF Inv, TypeOK, CallsInv, FlightInv
  <2>4. AnswerInv' /\ ErrorInv'
    BY <2>1, <2>2 DEF Inv, AnswerInv, ErrorInv, Closing
  <2>5. ToldInv' /\ StatusInv'
    BY <2>1, <2>2 DEF Inv, ToldInv, StatusInv, OutcomeIsServers
  <2>6. HandlesInv'
    BY <2>1, <2>2 DEF Inv, HandlesInv, Own
  <2>7. RowsInv'
    BY <2>1, <2>2 DEF Inv, RowsInv, ResultsAddUp
  <2> QED
    BY <2>3, <2>4, <2>5, <2>6, <2>7 DEF Inv
<1> QED
  BY <1>1, <1>2, <1>3, <1>4, <1>5, <1>6, <1>7, <1>8, <1>9, <1>a, <1>10 DEF Next, UserCall, Handler

---------------------------------------------------------------------------
(* What a call is told.                                                    *)

\* The invariant holds of every behaviour: connection, requests, server and what is still to be
\* handled of the answer stay together through calls, cancels, timeouts and acknowledgements.
THEOREM StatementInvariant == Spec => []Inv
<1> QED
  BY InitInv, NextInv, PTL DEF Spec

\* A call is told an error if and only if it failed at the server, was cancelled, refused or given
\* an invalid parameter (but for a success told of one cancelled late, and for the stale errors that
\* prepare()'s listener and an earlier call leave, see OutcomeIsServers): an ERROR token or an error
\* flag is never lost on its way through the handlers, and never left over for another call
\* (connection.ts makeRequest, RequestTokenHandler).
THEOREM OutcomesAreTheServers == Spec => []OutcomeIsServers
<1>1. Inv => OutcomeIsServers
  BY DEF Inv, ToldInv
<1> QED
  BY <1>1, StatementInvariant, PTL

\* The handle that a successful prepare() leaves in the request is the server's handle of a
\* statement prepared for this very request, until unprepare() or an OUTPUT parameter called
\* "handle" (the 'returnValue' listener); one that was cancelled late leaves none.
THEOREM PreparedStaysLive == Spec => []PreparedIsLive
<1>1. ASSUME Inv PROVE PreparedIsLive
  <2>1. told.op = "prepare" /\ told.err = Ok /\ told.call \notin late => told.handle = told.call
    BY <1>1 DEF Inv, ToldInv
  <2>2. ASSUME NEW r \in Requests \ misled, req[r].handle # 0, NEW h \in handles, h.request = r
        PROVE  [handle |-> req[r].handle, request |-> r] \in handles
    <3>1. req[r].handle = h.handle
      BY <1>1, <2>2 DEF Inv, HandlesInv, Own
    <3>2. h \in [handle : Nat, request : Requests]
      BY <1>1 DEF Inv, TypeOK
    <3>3. h = [handle |-> h.handle, request |-> h.request]
      BY <3>2
    <3> QED
      BY <2>2, <3>1, <3>3
  <2> QED
    BY <2>1, <2>2 DEF PreparedIsLive
<1> QED
  BY <1>1, StatementInvariant, PTL

\* The return status that a doneProc event carries is the one of its own procedure (onReturnStatus
\* and onDoneProc keep it on the connection in between), unless a cancel left one behind.
THEOREM ReturnStatusIsOwn == Spec => []ReturnStatusOwn
<1>1. Inv => ReturnStatusOwn
  BY DEF Inv, StatusInv, ReturnStatusOwn
<1> QED
  BY <1>1, StatementInvariant, PTL

\* The rows of a call without error are the server's, complete and in their order, in the row
\* events, in the done events and in the callback, and so is their count (onRow, onDone,
\* onDoneInProc, onDoneProc, and the reset of what the last call collected in makeRequest).
THEOREM ResultsAreComplete == Spec => []ResultsAddUp
<1>1. Inv => ResultsAddUp
  BY DEF Inv, RowsInv
<1> QED
  BY <1>1, StatementInvariant, PTL

\* A statement of the server's leaves only through an unprepare(), and with the very request it was
\* prepared for unless an OUTPUT parameter was taken for that one's handle: no other call, no failure
\* and no cancel discards it.
HandlesLeaveByUnprepare ==
  [][\A h \in handles \ handles' :
       call # NoCall /\ call.op = "unprepare" /\ (Mine \notin misled => h.request = Mine)]_vars

\* An unprepare() discards the statement of its own request and no other (unprepare, execute).
THEOREM StatementsAreDiscardedByTheirOwn == Spec => HandlesLeaveByUnprepare
<1>1. ASSUME Inv, [Next]_vars, NEW h \in handles \ handles'
      PROVE  call # NoCall /\ call.op = "unprepare" /\ (Mine \notin misled => h.request = Mine)
  <2>1. ServerExecutes
    <3>1. ASSUME NEW r \in Requests, UserCall(r) PROVE handles' = handles
      BY <3>1 DEF UserCall, Prepare, Unprepare, Execute, CallProcedure, ExecSqlBatch, Called
    <3>2. ASSUME NEW r \in Requests, Cancel(r) \/ RequestTimeout(r) PROVE handles' = handles
      BY <3>2 DEF Cancel, RequestTimeout, CancelWith
    <3>3. Tick \/ MessageFinished \/ TimeoutOfCanceled \/ AttentionAck \/ Ignored \/ EndOfMessage =>
            handles' = handles
      BY DEF Tick, MessageFinished, TimeoutOfCanceled, AttentionAck, Ignored, EndOfMessage
    <3>4. Handler => handles' = handles
      BY <1>1, HandledToken DEF Inv
    <3>5. UNCHANGED vars => handles' = handles
      BY DEF vars
    <3> QED
      BY <1>1, <3>1, <3>2, <3>3, <3>4, <3>5 DEF Next, UserCall, Handler
  <2>2. Busy /\ call.op = "unprepare" /\ h.handle = call.handle
    <3>1. PICK a \in Replies :
            handles' = IF a.failed THEN handles
                       ELSE IF call.op = "prepare" THEN handles \cup {[handle |-> call.id, request |-> Mine]}
                       ELSE IF call.op = "unprepare" THEN {g \in handles : g.handle # call.handle}
                       ELSE handles
      BY <2>1 DEF ServerExecutes
    <3>2. call.op = "unprepare" /\ h.handle = call.handle
      BY <1>1, <3>1
    <3> QED
      BY <2>1, <3>2 DEF ServerExecutes, Busy
  <2>3. Mine \notin misled => Mine \in Own /\ call.handle = req[Mine].handle
    BY <1>1, <2>2, MineExists DEF Inv, HandlesInv, Own
  <2>4. \A r \in Own : req[r].handle = h.handle => r = h.request
    BY <1>1 DEF Inv, HandlesInv, Own
  <2> QED
    BY <2>2, <2>3, <2>4 DEF Busy
<1>2. Inv /\ [Next]_vars =>
        [\A h \in handles \ handles' : call # NoCall /\ call.op = "unprepare" /\ (Mine \notin misled => h.request = Mine)]_vars
  BY <1>1
<1> QED
  BY <1>2, StatementInvariant, PTL DEF Spec, HandlesLeaveByUnprepare
=============================================================================
