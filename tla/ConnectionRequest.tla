------------------------- MODULE ConnectionRequest -------------------------
(***************************************************************************)
(* The life of requests on a logged-in connection of the tedious driver:   *)
(* makeRequest, cancel, the request and cancel timers, the states          *)
(* LOGGED_IN, SENT_CLIENT_REQUEST, SENT_ATTENTION and FINAL, pause, resume *)
(* and close (src/tedious/src/connection.ts, request.ts).                  *)
(*                                                                         *)
(* The driver is one JavaScript thread.  Data that has arrived is worked   *)
(* off (coroutine resumed, tokens handled) before the next timer or socket *)
(* event runs: those actions wait for Quiet.  User code runs as an event   *)
(* of its own, or inside a row handler, between two tokens (inHandler).    *)
(*                                                                         *)
(* A response message is a sequence of tokens: "row"s, then "end" or       *)
(* "fail", the last token with the message's end; "ack" is a message that  *)
(* only acknowledges an attention.  The server is external: it answers a   *)
(* request after its last packet, answers an ignored one with an empty     *)
(* response, and answers an attention with the end of the current response *)
(* followed by an acknowledgement.  Events other than row and the request  *)
(* callback, and all columns and counts, are left out.                     *)
(***************************************************************************)
EXTENDS Naturals, Sequences

CONSTANTS
  Requests,           \* the Request objects of the user
  None,
  MaxRows,            \* bound: rows in a response
  HasRequestTimeout,  \* options.requestTimeout > 0
  HasCancelTimeout,   \* options.cancelTimeout > 0
  UserPauses,         \* does the user pause requests?
  Disconnects,        \* may the connection be closed, by the user or the peer?
  CloseInHandler,     \* may it be closed from inside a row handler?
  LateCalls           \* are requests cancelled or resumed after their callback?

ASSUME ConstantsAssumption ==
  /\ None \notin Requests
  /\ MaxRows \in Nat
  /\ {HasRequestTimeout, HasCancelTimeout, UserPauses, Disconnects,
      CloseInHandler, LateCalls} \subseteq BOOLEAN

VARIABLES
  state,         \* this.state
  request,       \* this.request
  closed,        \* this.closed: cleaned up, the socket destroyed
  requestTimer, cancelTimer,   \* armed?
  crashed,       \* an exception nobody catches has ended the process
  reader,        \* the coroutine awaiting readMessage: of which state?
  parser,        \* the message being parsed, by which handler, paused?
  inHandler,     \* is the user's row handler on the stack?
  phase,         \* how far the request message is sent
  canceled, error, paused,     \* fields of each request
  onCancel,      \* the listeners of each request's cancel event
  rows,          \* row events of each request
  outcome, calls,              \* what its callback was told, and how often it ran
  toServer, serving, net,      \* the link: to the server, being served, from it
  inbox,         \* tokens received and not yet handled
  ended          \* the peer has ended the stream

connection == <<state, request, closed, requestTimer, cancelTimer, crashed>>
reading == <<reader, parser, inHandler>>
requests == <<phase, canceled, error, paused, onCancel, rows, outcome, calls>>
link == <<toServer, serving, net, inbox, ended>>
vars == <<connection, reading, requests, link>>

---------------------------------------------------------------------------
States == {"LOGGED_IN", "SENT_CLIENT_REQUEST", "SENT_ATTENTION", "FINAL"}
InFlight == {"SENT_CLIENT_REQUEST", "SENT_ATTENTION"}
Errors == {"ECANCEL", "ETIMEOUT", "EREQUEST", "EPAYLOAD"}
Outcomes == Errors \cup {"ok", "ECLOSE", "ESOCKET", "EINVALIDSTATE"}
Tokens == [kind : {"row", "end", "fail", "ack"}, req : Requests]
Messages == [kind : {"request", "ignored", "attention"}, req : Requests]
Parsers == [kind : {"response", "discard", "attention"},
            req : Requests \cup {None}, paused : BOOLEAN]
Services == [req : Requests, left : 0 .. MaxRows]

\* No parser looks like the absence of one, and no request being served either.
ASSUME NoneAssumption == None \notin Parsers /\ None \notin Services

TypeOK ==
  /\ state \in States
  /\ request \in Requests \cup {None}
  /\ closed \in BOOLEAN /\ crashed \in BOOLEAN
  /\ requestTimer \in BOOLEAN /\ cancelTimer \in BOOLEAN
  /\ inHandler \in BOOLEAN /\ ended \in BOOLEAN
  /\ reader \in {"none", "request", "attention"}
  /\ parser \in Parsers \cup {None}
  /\ phase \in [Requests -> {"new", "sending", "flushing", "ignoring",
                             "late", "sent", "ignored", "ignoredLate"}]
  /\ canceled \in [Requests -> BOOLEAN]
  /\ error \in [Requests -> Errors \cup {"none"}]
  /\ paused \in [Requests -> BOOLEAN]
  /\ onCancel \in [Requests -> SUBSET {"sending", "sent", "reading"}]
  /\ rows \in [Requests -> Nat]
  /\ outcome \in [Requests -> Outcomes \cup {"none"}]
  /\ calls \in [Requests -> Nat]
  /\ toServer \in Seq(Messages)
  /\ serving \in Services \cup {None}
  /\ net \in Seq(Tokens)
  /\ inbox \in Seq(Tokens)

Init ==
  /\ state = "LOGGED_IN" /\ request = None /\ closed = FALSE
  /\ requestTimer = FALSE /\ cancelTimer = FALSE /\ crashed = FALSE
  /\ reader = "none" /\ parser = None /\ inHandler = FALSE
  /\ phase = [r \in Requests |-> "new"]
  /\ canceled = [r \in Requests |-> FALSE]
  /\ error = [r \in Requests |-> "none"]
  /\ paused = [r \in Requests |-> FALSE]
  /\ onCancel = [r \in Requests |-> {}]
  /\ rows = [r \in Requests |-> 0]
  /\ outcome = [r \in Requests |-> "none"]
  /\ calls = [r \in Requests |-> 0]
  /\ toServer = <<>> /\ serving = None /\ net = <<>>
  /\ inbox = <<>> /\ ended = FALSE

---------------------------------------------------------------------------
(* Who may run.                                                            *)

MessageReady == reader # "none" /\ parser = None /\ inbox # <<>>
TokenReady == parser # None /\ ~parser.paused /\ inbox # <<>>
StreamEnded == reader # "none" /\ ended /\ inbox = <<>>
Quiet == ~crashed /\ ~MessageReady /\ ~TokenReady /\ ~StreamEnded

\* User code runs as an event, or inside the row handler.
UserTurn == Quiet \/ (inHandler /\ ~crashed)

\* May the user call a method of r?
MayCall(r) == UserTurn /\ (LateCalls \/ outcome[r] = "none")

---------------------------------------------------------------------------
(* What several handlers do.                                               *)

\* The callback of r runs.
Callback(r, result) ==
  /\ outcome' = [outcome EXCEPT ![r] = result]
  /\ calls' = [calls EXCEPT ![r] = @ + 1]

\* Mutant of CleanUp: the request in flight is dropped without a word.
CleanUpSilently(result) ==
  /\ state' = "FINAL" /\ closed' = TRUE
  /\ requestTimer' = FALSE
  /\ request' = None
  /\ UNCHANGED <<outcome, calls>>

\* transitionTo(FINAL) with cleanupConnection, when the request in flight is
\* told `result'.  The cancel timer is not cleared.
CleanUp(result) ==
  /\ state' = "FINAL" /\ closed' = TRUE
  /\ requestTimer' = FALSE
  /\ request' = None
  /\ IF request = None THEN UNCHANGED <<outcome, calls>>
                       ELSE Callback(request, result)

\* The socketError event of the current state.  In the two states with a
\* request in flight the handler takes this.request for granted.
SocketErrorEvent(result) ==
  \/ /\ state = "FINAL"
     /\ UNCHANGED <<state, request, closed, requestTimer, crashed, outcome, calls>>
  \/ /\ state # "FINAL"
     /\ CleanUp(result)
     /\ crashed' = (state \in InFlight /\ request = None)

\* Nothing is written to a destroyed socket.
Write(kind, r) ==
  toServer' = IF closed THEN toServer
              ELSE Append(toServer, [kind |-> kind, req |-> r])

\* Mutant of CancelAfterRequestSent: the cancel timer is not armed.
AttentionWithoutTimer(r) == Write("attention", r) /\ UNCHANGED cancelTimer

\* _cancelAfterRequestSent: an attention, and createCancelTimer.
CancelAfterRequestSent(r) == /\ Write("attention", r)
                             /\ cancelTimer' = HasCancelTimeout

\* onCancel of SENT_CLIENT_REQUEST: the rest of the response is not parsed.
GiveUpResponse ==
  /\ parser' = IF parser = None THEN None
               ELSE [kind |-> "discard", req |-> parser.req, paused |-> FALSE]
  /\ state' = "SENT_ATTENTION" /\ reader' = "attention"

\* Request.cancel: each listener of the cancel event runs once.
\*  - onCancel of makeRequest ends the message early with the ignore bit; the
\*    payload stream reports ECANCEL unless it had already ended.
\*  - _cancelAfterRequestSent sends an attention and arms the cancel timer.
\*  - onCancel of SENT_CLIENT_REQUEST gives up the response being parsed.
\* The first and the last resume a paused request.  err is the error the
\* caller stores after the event: that of requestTimeout, or none.
EmitCancel(r, err) ==
  /\ canceled' = [canceled EXCEPT ![r] = TRUE]
  /\ onCancel' = [onCancel EXCEPT ![r] = {}]
  /\ phase' = [phase EXCEPT ![r] = IF "sending" \notin onCancel[r] THEN @
                                   ELSE IF @ = "sending" THEN "ignoring"
                                   ELSE IF @ = "flushing" THEN "late"
                                   ELSE @]
  /\ error' = [error EXCEPT ![r] =
                 IF err # "none" THEN err
                 ELSE IF "sending" \in onCancel[r] /\ phase[r] = "sending"
                      THEN "ECANCEL" ELSE @]
  /\ paused' = [paused EXCEPT ![r] =
                  @ /\ onCancel[r] \cap {"sending", "reading"} = {}]
  /\ IF "sent" \in onCancel[r] THEN CancelAfterRequestSent(r)
                               ELSE UNCHANGED <<toServer, cancelTimer>>
  /\ IF "reading" \in onCancel[r] THEN GiveUpResponse
                                  ELSE UNCHANGED <<parser, state, reader>>

---------------------------------------------------------------------------
(* User calls.                                                             *)

\* makeRequest: execSql, callProcedure, execBulkLoad and the others end here.
MakeRequest(r) ==
  /\ UserTurn
  /\ phase[r] = "new" /\ outcome[r] = "none"
  /\ \/ /\ state # "LOGGED_IN"
        /\ Callback(r, "EINVALIDSTATE")
        /\ UNCHANGED <<connection, reading, phase, onCancel>>
     \/ /\ state = "LOGGED_IN" /\ canceled[r]
        /\ Callback(r, "ECANCEL")
        /\ UNCHANGED <<connection, reading, phase, onCancel>>
     \/ /\ state = "LOGGED_IN" /\ ~canceled[r]
        /\ request' = r
        /\ phase' = [phase EXCEPT ![r] = "sending"]
        /\ onCancel' = [onCancel EXCEPT ![r] = {"sending"}]
        /\ requestTimer' = HasRequestTimeout
        /\ state' = "SENT_CLIENT_REQUEST" /\ reader' = "request"
        /\ UNCHANGED <<closed, cancelTimer, crashed, parser, inHandler, outcome,
                       calls>>
  /\ UNCHANGED <<canceled, error, paused, rows, link>>

\* Connection.cancel, Request.cancel.
Cancel(r) ==
  /\ MayCall(r)
  /\ ~canceled[r]
  /\ EmitCancel(r, "none")
  /\ requestTimer' = (requestTimer /\ "reading" \notin onCancel[r])
  /\ UNCHANGED <<request, closed, crashed, inHandler, rows, outcome, calls,
                 serving, net, inbox, ended>>

\* Request.pause: heard by the parser of a response that is not given up.
Pause(r) ==
  /\ UserPauses /\ MayCall(r)
  /\ ~paused[r]
  /\ paused' = [paused EXCEPT ![r] = TRUE]
  /\ IF parser # None /\ parser.kind = "response" /\ parser.req = r
       THEN parser' = [parser EXCEPT !.paused = TRUE]
       ELSE UNCHANGED parser
  /\ UNCHANGED <<connection, reader, inHandler, phase, canceled, error, onCancel,
                 rows, outcome, calls, link>>

\* Request.resume
Resume(r) ==
  /\ UserPauses /\ MayCall(r)
  /\ paused[r]
  /\ paused' = [paused EXCEPT ![r] = FALSE]
  /\ IF parser # None /\ parser.kind = "response" /\ parser.req = r
       THEN parser' = [parser EXCEPT !.paused = FALSE]
       ELSE UNCHANGED parser
  /\ UNCHANGED <<connection, reader, inHandler, phase, canceled, error, onCancel,
                 rows, outcome, calls, link>>

\* Connection.close
Close ==
  /\ Disconnects
  /\ Quiet \/ (CloseInHandler /\ UserTurn)
  /\ state # "FINAL"
  /\ CleanUp("ECLOSE")
  /\ UNCHANGED <<crashed, cancelTimer, reading, phase, canceled, error, paused, onCancel, rows,
                 link>>

---------------------------------------------------------------------------
(* Sending the request message.                                            *)

\* The payload stream ends; the message still has data to flush.
EndPayload(r) ==
  /\ Quiet /\ phase[r] = "sending"
  /\ phase' = [phase EXCEPT ![r] = "flushing"]
  /\ inHandler' = FALSE
  /\ UNCHANGED <<connection, reader, parser, canceled, error, paused, onCancel,
                 rows, outcome, calls, link>>

\* The payload stream fails: the message is ended with the ignore bit.
PayloadError(r) ==
  /\ Quiet /\ phase[r] = "sending"
  /\ phase' = [phase EXCEPT ![r] = "ignoring"]
  /\ error' = [error EXCEPT ![r] = IF @ = "none" THEN "EPAYLOAD" ELSE @]
  /\ inHandler' = FALSE
  /\ UNCHANGED <<connection, reader, parser, canceled, paused, onCancel, rows,
                 outcome, calls, link>>

\* The finish event of the message; its last packet follows.
FinishMessage(r) ==
  /\ Quiet /\ phase[r] \in {"flushing", "ignoring", "late"}
  /\ phase' = [phase EXCEPT ![r] = CASE @ = "flushing" -> "sent"
                                     [] @ = "ignoring" -> "ignored"
                                     [] @ = "late" -> "ignoredLate"]
  /\ onCancel' = [onCancel EXCEPT ![r] = (@ \ {"sending"}) \cup {"sent"}]
  /\ Write(IF phase[r] = "flushing" THEN "request" ELSE "ignored", r)
  /\ inHandler' = FALSE
  /\ UNCHANGED <<connection, reader, parser, canceled, error, paused, rows,
                 outcome, calls, serving, net, inbox, ended>>

---------------------------------------------------------------------------
(* Timers.                                                                 *)

\* requestTimeout cancels this.request and then stores ETIMEOUT in it, also
\* when the user had cancelled it before.
RequestTimeout ==
  /\ Quiet /\ requestTimer /\ request # None
  /\ IF canceled[request]
       THEN /\ error' = [error EXCEPT ![request] = "ETIMEOUT"]
            /\ UNCHANGED <<canceled, onCancel, phase, paused, toServer,
                           cancelTimer, parser, state, reader>>
       ELSE EmitCancel(request, "ETIMEOUT")
  /\ requestTimer' = FALSE /\ inHandler' = FALSE
  /\ UNCHANGED <<request, closed, crashed, rows, outcome, calls, serving, net,
                 inbox, ended>>

\* cancelTimeout
CancelTimeout ==
  /\ Quiet /\ cancelTimer
  /\ SocketErrorEvent("ETIMEOUT")
  /\ cancelTimer' = FALSE /\ inHandler' = FALSE
  /\ UNCHANGED <<reader, parser, phase, canceled, error, paused, onCancel, rows,
                 link>>

---------------------------------------------------------------------------
(* Reading the response.                                                   *)

\* Parse the message as the response to the request, paused or not.
ParseResponse(isPaused) ==
  /\ parser' = [kind |-> "response", req |-> request, paused |-> isPaused]
  /\ onCancel' = [onCancel EXCEPT ![request] = @ \cup {"reading"}]
  /\ reader' = "none"
  /\ UNCHANGED state

\* Mutant of GotResponse: an attention that is already out is overlooked.
GotResponseAnyway ==
  /\ ~crashed /\ MessageReady /\ reader = "request"
  /\ requestTimer' = FALSE
  /\ ParseResponse(paused[request])
  /\ inHandler' = FALSE
  /\ UNCHANGED <<request, closed, cancelTimer, crashed, phase, canceled, error,
                 paused, rows, outcome, calls, link>>

\* Mutant of GotResponse: a request that was paused early is parsed at once.
GotResponseUnpaused ==
  /\ ~crashed /\ MessageReady /\ reader = "request"
  /\ requestTimer' = FALSE
  /\ ~(canceled[request] /\ cancelTimer)
  /\ ParseResponse(FALSE)
  /\ inHandler' = FALSE
  /\ UNCHANGED <<request, closed, cancelTimer, crashed, phase, canceled, error,
                 paused, rows, outcome, calls, link>>

\* Mutant of GotResponse: clearRequestTimer is forgotten.
GotResponseTimed ==
  /\ ~crashed /\ MessageReady /\ reader = "request"
  /\ ~(canceled[request] /\ cancelTimer)
  /\ ParseResponse(paused[request])
  /\ inHandler' = FALSE
  /\ UNCHANGED <<request, closed, requestTimer, cancelTimer, crashed, phase,
                 canceled, error, paused, rows, outcome, calls, link>>

\* The coroutine of SENT_CLIENT_REQUEST has a message: the request timer is
\* stopped, and the response given up at once if an attention is out for it.
GotResponse ==
  /\ ~crashed /\ MessageReady /\ reader = "request"
  /\ requestTimer' = FALSE
  /\ IF canceled[request] /\ cancelTimer
       THEN /\ parser' = [kind |-> "discard", req |-> request, paused |-> FALSE]
            /\ state' = "SENT_ATTENTION" /\ reader' = "attention"
            /\ UNCHANGED onCancel
       ELSE ParseResponse(paused[request])
  /\ inHandler' = FALSE
  /\ UNCHANGED <<request, closed, cancelTimer, crashed, phase, canceled, error,
                 paused, rows, outcome, calls, link>>

\* The coroutine of SENT_ATTENTION has a message.
GotAttentionMessage ==
  /\ ~crashed /\ MessageReady /\ reader = "attention"
  /\ parser' = [kind |-> "attention", req |-> request, paused |-> FALSE]
  /\ reader' = "none" /\ inHandler' = FALSE
  /\ UNCHANGED <<connection, requests, link>>

Token == Head(inbox)
HandleToken == /\ ~crashed /\ TokenReady
               /\ inbox' = Tail(inbox)
               /\ UNCHANGED <<toServer, serving, net, ended>>

\* A row is given to the user unless its request was cancelled.
HandleRow ==
  /\ HandleToken /\ Token.kind = "row"
  /\ IF parser.kind = "response" /\ ~canceled[parser.req]
       THEN /\ rows' = [rows EXCEPT ![parser.req] = @ + 1]
            /\ inHandler' = TRUE
       ELSE UNCHANGED rows /\ inHandler' = FALSE
  /\ UNCHANGED <<connection, reader, parser, phase, canceled, error, paused,
                 onCancel, outcome, calls>>

\* What a response leaves in request.error: an error of the server overwrites
\* what is there unless the request was cancelled (RequestTokenHandler).
ErrorAfterResponse(r) ==
  IF Token.kind = "fail" /\ ~canceled[r] THEN "EREQUEST" ELSE error[r]

\* The last token of a response and onEndOfMessage: the connection is LOGGED_IN
\* again, whatever its state was, and this.request is taken for granted.
EndOfMessage ==
  /\ HandleToken /\ Token.kind # "row" /\ parser.kind = "response"
  /\ LET r == parser.req
         err == ErrorAfterResponse(r)
     IN /\ error' = [error EXCEPT ![r] = err]
        /\ IF request = None
             THEN /\ crashed' = TRUE
                  /\ UNCHANGED <<onCancel, outcome, calls>>
             ELSE /\ onCancel' = [onCancel EXCEPT ![r] = @ \ {"sent", "reading"}]
                  /\ Callback(r, IF err = "none" THEN "ok" ELSE err)
                  /\ UNCHANGED crashed
  /\ state' = "LOGGED_IN" /\ request' = None
  /\ parser' = None /\ inHandler' = FALSE
  /\ UNCHANGED <<closed, requestTimer, cancelTimer, reader, phase, canceled,
                 paused, rows>>

\* The end of a response that was given up.
EndOfDiscarded ==
  /\ HandleToken /\ Token.kind # "row" /\ parser.kind = "discard"
  /\ parser' = None /\ inHandler' = FALSE
  /\ UNCHANGED <<connection, reader, requests>>

\* Mutant of EndOfAttention: this.request is not reset.
EndOfAttentionKeepsRequest ==
  /\ HandleToken /\ Token.kind = "ack" /\ parser.kind = "attention"
  /\ request # None
  /\ cancelTimer' = FALSE
  /\ state' = "LOGGED_IN"
  /\ Callback(request, "ECANCEL")
  /\ parser' = None /\ inHandler' = FALSE
  /\ UNCHANGED <<request, closed, requestTimer, crashed, reader, phase, canceled,
                 error, paused, onCancel, rows>>

\* AttentionTokenHandler: does the message acknowledge the attention?
AttentionReceived == Token.kind = "ack"

\* The end of the message read in SENT_ATTENTION: with the acknowledgement the
\* request is done, and taken for granted; without it nothing more is read.
EndOfAttention ==
  /\ HandleToken /\ Token.kind # "row" /\ parser.kind = "attention"
  /\ IF AttentionReceived
       THEN /\ cancelTimer' = FALSE
            /\ request' = None /\ state' = "LOGGED_IN"
            /\ IF request = None
                 THEN crashed' = TRUE /\ UNCHANGED <<outcome, calls>>
                 ELSE /\ Callback(request, IF error[request] = "ETIMEOUT"
                                             THEN "ETIMEOUT" ELSE "ECANCEL")
                      /\ UNCHANGED crashed
       ELSE UNCHANGED <<cancelTimer, request, state, crashed, outcome, calls>>
  /\ parser' = None /\ inHandler' = FALSE
  /\ UNCHANGED <<closed, requestTimer, reader, phase, canceled, error, paused,
                 onCancel, rows>>

\* The awaited message will not come: readMessage throws.
ReaderFails ==
  /\ ~crashed /\ StreamEnded
  /\ reader' = "none" /\ inHandler' = FALSE
  /\ SocketErrorEvent("ESOCKET")
  /\ UNCHANGED <<cancelTimer, parser, phase, canceled, error, paused, onCancel,
                 rows, link>>

---------------------------------------------------------------------------
(* The network and the server.                                             *)

\* Some of the data on its way arrives.
Receive ==
  /\ Quiet /\ ~closed
  /\ \E n \in 1 .. Len(net) :
       /\ inbox' = inbox \o SubSeq(net, 1, n)
       /\ net' = SubSeq(net, n + 1, Len(net))
  /\ inHandler' = FALSE
  /\ UNCHANGED <<connection, reader, parser, requests, toServer, serving, ended>>

\* The socket reports an error.
SocketError ==
  /\ Disconnects /\ Quiet /\ ~closed
  /\ SocketErrorEvent("ESOCKET")
  /\ inHandler' = FALSE
  /\ UNCHANGED <<cancelTimer, reader, parser, phase, canceled, error, paused,
                 onCancel, rows, link>>

\* The peer ends the stream (socketEnd).
SocketEnd ==
  /\ Disconnects /\ Quiet /\ ~closed /\ net = <<>>
  /\ ended' = TRUE
  /\ SocketErrorEvent("ESOCKET")
  /\ inHandler' = FALSE
  /\ UNCHANGED <<cancelTimer, reader, parser, phase, canceled, error, paused,
                 onCancel, rows, toServer, serving, net, inbox>>

Send(tokens) == net' = net \o tokens
ToClient(kind, r) == [kind |-> kind, req |-> r]

\* The server takes the next message (external).
ServerTakes ==
  /\ ~closed /\ toServer # <<>>
  /\ LET m == Head(toServer)
     IN \/ /\ m.kind = "request" /\ serving = None
           /\ serving' = [req |-> m.req, left |-> MaxRows]
           /\ UNCHANGED net
        \/ /\ m.kind = "ignored" /\ serving = None
           /\ Send(<<ToClient("end", m.req)>>)
           /\ UNCHANGED serving
        \/ /\ m.kind = "attention"
           /\ Send(IF serving = None
                   THEN <<ToClient("ack", m.req)>>
                   ELSE <<ToClient("end", serving.req), ToClient("ack", m.req)>>)
           /\ serving' = None
  /\ toServer' = Tail(toServer)
  /\ UNCHANGED <<connection, reading, requests, inbox, ended>>

ServerRow ==
  /\ ~closed /\ serving # None /\ serving.left > 0
  /\ Send(<<ToClient("row", serving.req)>>)
  /\ serving' = [serving EXCEPT !.left = @ - 1]
  /\ UNCHANGED <<connection, reading, requests, toServer, inbox, ended>>

ServerDone ==
  /\ ~closed /\ serving # None
  /\ \E kind \in {"end", "fail"} : Send(<<ToClient(kind, serving.req)>>)
  /\ serving' = None
  /\ UNCHANGED <<connection, reading, requests, toServer, inbox, ended>>

---------------------------------------------------------------------------
User(r) == MakeRequest(r) \/ Cancel(r) \/ Pause(r) \/ Resume(r)
Sending(r) == EndPayload(r) \/ FinishMessage(r)
Reading == \/ GotResponse \/ GotAttentionMessage \/ HandleRow \/ EndOfMessage
           \/ EndOfDiscarded \/ EndOfAttention \/ ReaderFails
Server == ServerTakes \/ ServerRow \/ ServerDone

Next == \/ \E r \in Requests : User(r) \/ Sending(r) \/ PayloadError(r)
        \/ Close
        \/ RequestTimeout \/ CancelTimeout
        \/ Reading
        \/ Receive \/ SocketError \/ SocketEnd
        \/ Server

Spec == Init /\ [][Next]_vars

\* The event loop runs what is ready: messages are sent, timers fire, data is
\* received and handled.  User code returns from a row handler, however often it
\* pauses and resumes in it, and resumes a request it leaves paused.
ClientFairness ==
  /\ \A r \in Requests : WF_vars(Sending(r)) /\ SF_vars(Resume(r))
  /\ WF_vars(RequestTimeout) /\ WF_vars(CancelTimeout)
  /\ SF_vars(Reading) /\ WF_vars(Receive)

\* Nothing is asked of the server: it may fall silent at any time.
LiveSpec == Spec /\ ClientFairness

\* A server that works off every message.
ServerWorks == WF_vars(ServerTakes) /\ WF_vars(ServerDone)

---------------------------------------------------------------------------
(* Safety.                                                                 *)

\* The callback of a request runs at most once, however cancels, timeouts,
\* disconnects and responses are interleaved (Request.callback).
CallbackOnce == \A r \in Requests : calls[r] <= 1

\* this.request is set exactly while a request is in flight: the socketError
\* handlers, requestTimeout and onEndOfMessage use it without a check.
InFlightHasRequest == state \in InFlight <=> request # None

\* An armed request timer belongs to the request whose response is awaited
\* (createRequestTimer, clearRequestTimer): it never fires into a later one.
RequestTimerOwned ==
  requestTimer => /\ request # None /\ reader = "request"
                  /\ state = "SENT_CLIENT_REQUEST"

\* On a live connection an armed cancel timer belongs to the cancelled request
\* in flight (createCancelTimer, clearCancelTimer).  It does not survive the
\* acknowledgement, or it would later close a healthy connection.
CancelTimerOwned ==
  cancelTimer /\ state # "FINAL" => request # None /\ canceled[request]

\* Neither timer is ever left to strike another request or a healthy connection.
TimersOwned == RequestTimerOwned /\ CancelTimerOwned

\* A response is read by its own request: when the coroutine or a parser is due
\* for a token, that token answers the request in flight, and no attention
\* acknowledgement is ever taken for a response (SENT_ATTENTION).
Stream == inbox \o net
ResponsesMatch ==
  Stream # <<>> /\ ~closed =>
    /\ reader = "request" /\ parser = None =>
         Head(Stream).req = request /\ Head(Stream).kind # "ack"
    /\ parser # None => Head(Stream).req = parser.req
    /\ state # "LOGGED_IN"

\* Rows reach the user only while the request is in flight, neither cancelled
\* nor paused (onRow, pause, cancel).
RowsOnlyWhenWanted ==
  [][\A r \in Requests : rows'[r] # rows[r] =>
       outcome[r] = "none" /\ ~canceled[r] /\ ~paused[r]]_vars

\* A cancelled request does not report success, unless it was cancelled when
\* its payload had ended and its message had not (onCancel in makeRequest).
CancelledNotOk ==
  [][\A r \in Requests : outcome'[r] = "ok" /\ outcome[r] = "none" =>
       ~canceled[r] \/ phase[r] = "ignoredLate"]_vars

\* What the casts and non-null assertions on this.request say where onEndOfMessage
\* and the socketError handlers use it: there is a request.
RequestAtHand == ~crashed

\* The connection keeps the promise of RequestContract: one request at a time,
\* one result for each, and none left pending by a connection that is gone.
Contract == INSTANCE RequestContract
              WITH pending <- request, result <- outcome, open <- state # "FINAL"
KeepsContract == Contract!Spec

---------------------------------------------------------------------------
(* Liveness.                                                               *)

\* With a working server every request made completes.
RequestsComplete ==
  ServerWorks => \A r \in Requests : (request = r) ~> (outcome[r] # "none")

\* With a silent server the request timer ends the wait for a response to a
\* request that was sent off (requestTimeout, cancelTimeout).
SentAreAnswered ==
  \A r \in Requests : (request = r /\ reader = "request" /\ phase[r] = "sent")
                        ~> (outcome[r] # "none" \/ reader # "request")

\* With a silent server the cancel timer ends the wait for an attention's
\* acknowledgement (_cancelAfterRequestSent, cancelTimeout).
AttentionsEnd ==
  \A r \in Requests : (request = r /\ canceled[r] /\ phase[r] = "sent")
                        ~> (outcome[r] # "none")

\* A silent server keeps no request waiting for a response or an acknowledgement.
WaitsEnd == SentAreAnswered /\ AttentionsEnd

\* What the documentation of cancelTimeout says: after that time a cancel has
\* failed, so a cancelled request is over in any case.
CancelsEnd ==
  \A r \in Requests : (request = r /\ canceled[r]) ~> (outcome[r] # "none")
=============================================================================
