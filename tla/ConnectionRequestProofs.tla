---------------------- MODULE ConnectionRequestProofs ----------------------
(* Proofs about requests on a logged-in connection: each callback runs at  *)
(* most once, this.request is there whenever it is used, timers belong to  *)
(* the request in flight, the connection implements RequestContract, and a *)
(* response is read by the request it answers, for any number of requests  *)
(* and rows, any options and any server.                                   *)
EXTENDS ConnectionRequest, SequenceTheorems, TLAPS

\* A user that calls no method of a request after its callback and does not
\* close the connection inside a row handler.
CarefulUser == ~LateCalls /\ ~CloseInHandler

---------------------------------------------------------------------------
(* The inductive invariant.                                                *)

\* A callback has run once if its request has an outcome, and never if not.
CallsCounted ==
  \A r \in Requests : calls[r] = IF outcome[r] = "none" THEN 0 ELSE 1

\* this.request is the one request that was made and not yet called back.
OnePending ==
  \A r \in Requests : (outcome[r] = "none" /\ phase[r] # "new") <=> request = r

\* Only a request that was made has listeners.
ListenersMade == \A r \in Requests : onCancel[r] # {} => phase[r] # "new"

\* A response is parsed for the request in flight, which can still give it up,
\* or lies dead: paused or without data, its request long called back.
Parsing(kind) == parser # None /\ parser.kind = kind
ResponseLive ==
  /\ state = "SENT_CLIENT_REQUEST" /\ reader = "none" /\ ~cancelTimer
  /\ parser.req = request /\ "reading" \in onCancel[request]
ResponseDead ==
  /\ state = "FINAL"
  /\ parser.req \in Requests /\ outcome[parser.req] # "none"
  /\ parser.paused \/ inbox = <<>>
ResponseOwned == Parsing("response") => ResponseLive \/ ResponseDead

\* A request that would give up a response has one to give up.
ReadingHeard ==
  \A r \in Requests : "reading" \in onCancel[r] /\ outcome[r] = "none" =>
    Parsing("response") /\ parser.req = r

\* The coroutines await messages in their own state, or in FINAL, where they
\* find none.
ReaderAwaits ==
  /\ reader = "request" =>
       /\ parser = None
       /\ state = "SENT_CLIENT_REQUEST" \/ (state = "FINAL" /\ inbox = <<>>)
  /\ reader = "attention" =>
       /\ parser = None \/ Parsing("discard")
       /\ state = "SENT_ATTENTION" \/ (state = "FINAL" /\ inbox = <<>>)

\* Messages are parsed for an attention only while it is out, or in FINAL, where
\* they have no data left; they are not paused.
AttentionOwned ==
  /\ Parsing("discard") \/ Parsing("attention") =>
       /\ ~parser.paused
       /\ state = "SENT_ATTENTION" \/ (state = "FINAL" /\ inbox = <<>>)
  /\ Parsing("attention") => reader = "none"

\* Nothing is read in LOGGED_IN, and nothing received in FINAL.
IdleReadsNothing == state = "LOGGED_IN" => reader = "none" /\ parser = None
FinalIsClosed == state = "FINAL" => closed

RequestInv ==
  /\ CallsCounted /\ OnePending /\ ListenersMade
  /\ ResponseOwned /\ ReadingHeard /\ ReaderAwaits /\ AttentionOwned
  /\ IdleReadsNothing /\ FinalIsClosed
  /\ InFlightHasRequest /\ RequestTimerOwned /\ CancelTimerOwned
  /\ RequestAtHand
---------------------------------------------------------------------------
(* Type correctness.  That a response is parsed for a request needs the    *)
(* invariant.                                                              *)

LEMMA TypeInit == Init => TypeOK
<1> SUFFICES ASSUME Init PROVE TypeOK
  OBVIOUS
<1>1. /\ toServer \in Seq(Messages) /\ net \in Seq(Tokens) /\ inbox \in Seq(Tokens)
  BY DEF Init
<1>2. /\ state \in States /\ reader \in {"none", "request", "attention"}
      /\ request \in Requests \cup {None} /\ parser \in Parsers \cup {None}
      /\ serving \in Services \cup {None}
  BY DEF Init, States
<1>3. /\ phase \in [Requests -> {"new", "sending", "flushing", "ignoring",
                                 "late", "sent", "ignored", "ignoredLate"}]
      /\ canceled \in [Requests -> BOOLEAN] /\ paused \in [Requests -> BOOLEAN]
      /\ error \in [Requests -> Errors \cup {"none"}]
      /\ onCancel \in [Requests -> SUBSET {"sending", "sent", "reading"}]
      /\ rows \in [Requests -> Nat] /\ calls \in [Requests -> Nat]
      /\ outcome \in [Requests -> Outcomes \cup {"none"}]
  BY DEF Init
<1>4. /\ closed \in BOOLEAN /\ crashed \in BOOLEAN /\ requestTimer \in BOOLEAN
      /\ cancelTimer \in BOOLEAN /\ inHandler \in BOOLEAN /\ ended \in BOOLEAN
  BY DEF Init
<1> QED
  BY <1>1, <1>2, <1>3, <1>4, Zenon DEF TypeOK

\* A message on its way to the server (Write).
LEMMA WriteType ==
  ASSUME TypeOK, NEW r \in Requests, NEW kind \in {"request", "ignored", "attention"},
         Write(kind, r)
  PROVE  toServer' \in Seq(Messages)
<1>1. [kind |-> kind, req |-> r] \in Messages
  BY DEF Messages
<1> QED
  BY <1>1, AppendProperties DEF TypeOK, Write

LEMMA CallbackType ==
  ASSUME TypeOK, NEW r \in Requests, NEW result \in Outcomes, Callback(r, result)
  PROVE  outcome' \in [Requests -> Outcomes \cup {"none"}] /\ calls' \in [Requests -> Nat]
  BY DEF TypeOK, Callback

LEMMA CleanUpType ==
  ASSUME TypeOK, NEW result \in Outcomes, CleanUp(result)
  PROVE  /\ state' \in States /\ request' \in Requests \cup {None}
         /\ closed' \in BOOLEAN /\ requestTimer' \in BOOLEAN
         /\ outcome' \in [Requests -> Outcomes \cup {"none"}]
         /\ calls' \in [Requests -> Nat]
<1>1. CASE request = None
  BY <1>1 DEF TypeOK, CleanUp, States
<1>2. CASE request \in Requests
  <2>1. Callback(request, result)
    BY <1>2, ConstantsAssumption DEF CleanUp, ConstantsAssumption
  <2> QED
    BY <1>2, <2>1, CallbackType DEF TypeOK, CleanUp, States
<1> QED
  BY <1>1, <1>2 DEF TypeOK

LEMMA SocketErrorType ==
  ASSUME TypeOK, NEW result \in Outcomes, SocketErrorEvent(result)
  PROVE  /\ state' \in States /\ request' \in Requests \cup {None}
         /\ closed' \in BOOLEAN /\ requestTimer' \in BOOLEAN /\ crashed' \in BOOLEAN
         /\ outcome' \in [Requests -> Outcomes \cup {"none"}]
         /\ calls' \in [Requests -> Nat]
<1>1. CASE state = "FINAL"
  BY <1>1 DEF TypeOK, SocketErrorEvent
<1>2. CASE state # "FINAL"
  BY <1>2, CleanUpType DEF TypeOK, SocketErrorEvent
<1> QED
  BY <1>1, <1>2

\* Request.cancel (EmitCancel).
LEMMA EmitCancelType ==
  ASSUME TypeOK, NEW r \in Requests, NEW err \in Errors \cup {"none"},
         EmitCancel(r, err)
  PROVE  /\ canceled' \in [Requests -> BOOLEAN]
         /\ onCancel' \in [Requests -> SUBSET {"sending", "sent", "reading"}]
         /\ phase' \in [Requests -> {"new", "sending", "flushing", "ignoring",
                                     "late", "sent", "ignored", "ignoredLate"}]
         /\ error' \in [Requests -> Errors \cup {"none"}]
         /\ paused' \in [Requests -> BOOLEAN]
         /\ toServer' \in Seq(Messages) /\ cancelTimer' \in BOOLEAN
         /\ parser' \in Parsers \cup {None}
         /\ state' \in States /\ reader' \in {"none", "request", "attention"}
<1>1. /\ canceled' \in [Requests -> BOOLEAN]
      /\ onCancel' \in [Requests -> SUBSET {"sending", "sent", "reading"}]
  BY DEF TypeOK, EmitCancel
<1>2. phase' \in [Requests -> {"new", "sending", "flushing", "ignoring",
                              "late", "sent", "ignored", "ignoredLate"}]
  BY DEF TypeOK, EmitCancel
<1>3. error' \in [Requests -> Errors \cup {"none"}]
  BY DEF TypeOK, EmitCancel, Errors
<1>4. paused' \in [Requests -> BOOLEAN]
  BY DEF TypeOK, EmitCancel
<1>5. toServer' \in Seq(Messages) /\ cancelTimer' \in BOOLEAN
  <2>1. CASE "sent" \in onCancel[r]
    BY <2>1, WriteType, ConstantsAssumption
       DEF TypeOK, EmitCancel, CancelAfterRequestSent, ConstantsAssumption
  <2>2. CASE "sent" \notin onCancel[r]
    BY <2>2 DEF TypeOK, EmitCancel
  <2> QED
    BY <2>1, <2>2
<1>6. /\ parser' \in Parsers \cup {None}
      /\ state' \in States /\ reader' \in {"none", "request", "attention"}
  <2>1. CASE "reading" \in onCancel[r]
    <3>1. GiveUpResponse
      BY <2>1 DEF EmitCancel
    <3>2. parser' \in Parsers \cup {None}
      <4>1. CASE parser = None
        BY <3>1, <4>1 DEF GiveUpResponse
      <4>2. CASE parser \in Parsers /\ parser # None
        <5>1. parser.req \in Requests \cup {None}
          BY <4>2 DEF Parsers
        <5>2. parser' = [kind |-> "discard", req |-> parser.req, paused |-> FALSE]
          BY <3>1, <4>2 DEF GiveUpResponse
        <5> QED
          BY <5>1, <5>2 DEF Parsers
      <4> QED
        BY <4>1, <4>2 DEF TypeOK
    <3> QED
      BY <3>1, <3>2 DEF GiveUpResponse, States
  <2>2. CASE "reading" \notin onCancel[r]
    BY <2>2 DEF TypeOK, EmitCancel
  <2> QED
    BY <2>1, <2>2
<1> QED
  BY <1>1, <1>2, <1>3, <1>4, <1>5, <1>6

LEMMA TokenType ==
  ASSUME TypeOK, HandleToken
  PROVE  /\ Token \in Tokens /\ parser \in Parsers
         /\ inbox' \in Seq(Tokens)
         /\ toServer' = toServer /\ serving' = serving /\ net' = net /\ ended' = ended
  BY HeadTailProperties DEF TypeOK, HandleToken, TokenReady, Token

LEMMA TypeUser ==
  ASSUME TypeOK, NEW r \in Requests, User(r)
  PROVE  TypeOK'
<1> USE DEF connection, reading, requests, link
<1>1. CASE MakeRequest(r)
  <2>1. CASE state # "LOGGED_IN" \/ canceled[r]
    <3>1. PICK result \in {"EINVALIDSTATE", "ECANCEL"} : Callback(r, result)
      BY <1>1, <2>1 DEF MakeRequest
    <3>2. /\ outcome' \in [Requests -> Outcomes \cup {"none"}]
          /\ calls' \in [Requests -> Nat]
      BY <3>1, CallbackType DEF Outcomes, Errors
    <3>3. UNCHANGED <<connection, reading, phase, onCancel>>
      BY <1>1, <2>1 DEF MakeRequest
    <3> QED
      BY <1>1, <3>2, <3>3, SMTT(30) DEF TypeOK, MakeRequest
  <2>2. CASE state = "LOGGED_IN" /\ ~canceled[r]
    <3>1. /\ request' = r /\ requestTimer' = HasRequestTimeout
          /\ state' = "SENT_CLIENT_REQUEST" /\ reader' = "request"
          /\ UNCHANGED <<closed, cancelTimer, crashed, parser, inHandler, outcome,
                         calls, canceled, error, paused, rows, link>>
      BY <1>1, <2>2 DEF MakeRequest
    <3>2. phase' \in [Requests -> {"new", "sending", "flushing", "ignoring",
                                  "late", "sent", "ignored", "ignoredLate"}]
      BY <1>1, <2>2 DEF TypeOK, MakeRequest
    <3>3. onCancel' \in [Requests -> SUBSET {"sending", "sent", "reading"}]
      <4>1. onCancel' = [onCancel EXCEPT ![r] = {"sending"}]
        BY <1>1, <2>2 DEF MakeRequest
      <4>2. {"sending"} \in SUBSET {"sending", "sent", "reading"}
        OBVIOUS
      <4> QED
        BY <4>1, <4>2 DEF TypeOK
    <3> QED
      BY <3>1, <3>2, <3>3, ConstantsAssumption
         DEF TypeOK, States, ConstantsAssumption
  <2> QED
    BY <2>1, <2>2
<1>2. CASE Cancel(r)
  <2>1. EmitCancel(r, "none") /\ requestTimer' \in BOOLEAN
    BY <1>2 DEF Cancel
  <2> QED
    BY <1>2, <2>1, EmitCancelType DEF TypeOK, Cancel
<1>3. CASE Pause(r)
  <2>1. parser' \in Parsers \cup {None} /\ paused' \in [Requests -> BOOLEAN]
    BY <1>3, ZenonT(40) DEF TypeOK, Pause, Parsers
  <2> QED
    BY <1>3, <2>1 DEF TypeOK, Pause
<1>4. CASE Resume(r)
  <2>1. parser' \in Parsers \cup {None} /\ paused' \in [Requests -> BOOLEAN]
    BY <1>4, ZenonT(40) DEF TypeOK, Resume, Parsers
  <2> QED
    BY <1>4, <2>1 DEF TypeOK, Resume
<1> QED
  BY <1>1, <1>2, <1>3, <1>4 DEF User

LEMMA TypeSending ==
  ASSUME TypeOK, NEW r \in Requests, Sending(r) \/ PayloadError(r)
  PROVE  TypeOK'
<1> USE DEF connection, reading, requests, link
<1>1. CASE EndPayload(r)
  BY <1>1, ZenonT(40) DEF TypeOK, EndPayload
<1>2. CASE FinishMessage(r)
  <2>1. toServer' \in Seq(Messages)
    BY <1>2, WriteType DEF FinishMessage
  <2>2. phase' \in [Requests -> {"new", "sending", "flushing", "ignoring",
                               "late", "sent", "ignored", "ignoredLate"}]
    BY <1>2 DEF TypeOK, FinishMessage
  <2> QED
    BY <1>2, <2>1, <2>2, ZenonT(40) DEF TypeOK, FinishMessage
<1>3. CASE PayloadError(r)
  BY <1>3, ZenonT(40) DEF TypeOK, PayloadError, Errors
<1> QED
  BY <1>1, <1>2, <1>3 DEF Sending

LEMMA TypeEvents ==
  ASSUME TypeOK, Close \/ RequestTimeout \/ CancelTimeout \/ SocketError \/ SocketEnd
  PROVE  TypeOK'
<1> USE DEF connection, reading, requests, link
<1>1. "ECLOSE" \in Outcomes /\ "ESOCKET" \in Outcomes /\ "ETIMEOUT" \in Outcomes \cap Errors
  BY DEF Outcomes, Errors
<1>2. CASE Close
  <2>1. CleanUp("ECLOSE")
    BY <1>2 DEF Close
  <2> QED
    BY <1>1, <1>2, <2>1, CleanUpType DEF TypeOK, Close
<1>3. CASE RequestTimeout
  <2>1. request \in Requests
    BY <1>3 DEF TypeOK, RequestTimeout
  <2>2. CASE canceled[request]
    BY <1>1, <1>3, <2>1, <2>2, ZenonT(40) DEF TypeOK, RequestTimeout
  <2>3. CASE ~canceled[request]
    <3>1. EmitCancel(request, "ETIMEOUT")
      BY <1>3, <2>3 DEF RequestTimeout
    <3> QED
      BY <1>1, <1>3, <2>1, <3>1, EmitCancelType DEF TypeOK, RequestTimeout
  <2> QED
    BY <2>2, <2>3
<1>4. CASE CancelTimeout
  <2>1. SocketErrorEvent("ETIMEOUT")
    BY <1>4 DEF CancelTimeout
  <2> QED
    BY <1>1, <1>4, <2>1, SocketErrorType DEF TypeOK, CancelTimeout
<1>5. CASE SocketError
  <2>1. SocketErrorEvent("ESOCKET")
    BY <1>5 DEF SocketError
  <2> QED
    BY <1>1, <1>5, <2>1, SocketErrorType DEF TypeOK, SocketError
<1>6. CASE SocketEnd
  <2>1. SocketErrorEvent("ESOCKET")
    BY <1>6 DEF SocketEnd
  <2> QED
    BY <1>1, <1>6, <2>1, SocketErrorType DEF TypeOK, SocketEnd
<1> QED
  BY <1>2, <1>3, <1>4, <1>5, <1>6

LEMMA TypeReading == ASSUME TypeOK, RequestInv, Reading PROVE TypeOK'
<1> USE DEF connection, reading, requests, link
<1>1. CASE GotResponse
  <2>1. request \in Requests
    BY <1>1 DEF TypeOK, GotResponse, MessageReady, RequestInv, ReaderAwaits,
                InFlightHasRequest, InFlight
  <2>2. CASE canceled[request] /\ cancelTimer
    <3>1. parser' \in Parsers
      <4>1. parser' = [kind |-> "discard", req |-> request, paused |-> FALSE]
        BY <1>1, <2>2 DEF GotResponse
      <4> QED
        BY <2>1, <4>1 DEF Parsers
    <3> QED
      BY <1>1, <2>2, <3>1 DEF TypeOK, GotResponse, States
  <2>3. CASE ~(canceled[request] /\ cancelTimer)
    <3>1. ParseResponse(paused[request])
      BY <1>1, <2>3 DEF GotResponse
    <3>2. onCancel' \in [Requests -> SUBSET {"sending", "sent", "reading"}]
      BY <3>1 DEF TypeOK, ParseResponse
    <3>3. parser' \in Parsers \cup {None}
      BY <2>1, <3>1 DEF TypeOK, ParseResponse, Parsers
    <3> QED
      BY <1>1, <3>1, <3>2, <3>3 DEF TypeOK, GotResponse, ParseResponse
  <2> QED
    BY <2>2, <2>3
<1>2. CASE GotAttentionMessage
  BY <1>2 DEF TypeOK, GotAttentionMessage, Parsers
<1>3. CASE HandleRow
  <2>1. HandleToken
    BY <1>3 DEF HandleRow
  <2>2. rows' \in [Requests -> Nat]
    <3>1. CASE rows' = rows
      BY <3>1 DEF TypeOK
    <3>2. CASE rows' = [rows EXCEPT ![parser.req] = @ + 1]
      <4>1. PICK n : rows' = [rows EXCEPT ![parser.req] = n]
                     /\ n = rows[parser.req] + 1
        BY <3>2
      <4>2. parser.req \in Requests => n \in Nat
        BY <4>1 DEF TypeOK
      <4> QED
        BY <4>1, <4>2 DEF TypeOK
    <3> QED
      BY <1>3, <3>1, <3>2 DEF HandleRow
  <2>3. inHandler' \in BOOLEAN
    BY <1>3 DEF HandleRow
  <2> QED
    BY <1>3, <2>1, <2>2, <2>3, TokenType, SMTT(30) DEF TypeOK, HandleRow
<1>4. CASE EndOfMessage
  <2>1. HandleToken /\ parser \in Parsers
    BY <1>4, TokenType DEF EndOfMessage
  <2>2. error' \in [Requests -> Errors \cup {"none"}]
    BY <1>4 DEF TypeOK, EndOfMessage, ErrorAfterResponse, Errors
  <2>3. CASE request = None
    BY <1>4, <2>1, <2>2, <2>3, TokenType DEF TypeOK, EndOfMessage, States
  <2>4. CASE request # None
    <3>1. parser.req \in Requests /\ parser.req = request
      BY <1>4, <2>4 DEF TypeOK, EndOfMessage, RequestInv, ResponseOwned, Parsing,
                        ResponseLive, ResponseDead, HandleToken, TokenReady,
                        InFlightHasRequest, InFlight
    <3>2. PICK result \in Outcomes : Callback(parser.req, result)
      <4>1. error[parser.req] \in Errors \cup {"none"}
        BY <3>1 DEF TypeOK
      <4> QED
        BY <1>4, <2>4, <4>1 DEF EndOfMessage, ErrorAfterResponse, Outcomes, Errors
    <3>3. onCancel' \in [Requests -> SUBSET {"sending", "sent", "reading"}]
      <4> DEFINE left == onCancel[parser.req] \ {"sent", "reading"}
      <4>1. onCancel' = [onCancel EXCEPT ![parser.req] = left]
        BY <1>4, <2>4 DEF EndOfMessage
      <4>2. left \in SUBSET {"sending", "sent", "reading"}
        BY <3>1 DEF TypeOK
      <4> QED
        BY <4>1, <4>2 DEF TypeOK
    <3> QED
      BY <1>4, <2>1, <2>2, <2>4, <3>1, <3>2, <3>3, CallbackType, TokenType, ZenonT(40)
         DEF TypeOK, EndOfMessage, States
  <2> QED
    BY <2>3, <2>4
<1>5. CASE EndOfDiscarded
  BY <1>5, TokenType DEF TypeOK, EndOfDiscarded
<1>6. CASE EndOfAttention
  <2>1. HandleToken
    BY <1>6 DEF EndOfAttention
  <2>2. CASE AttentionReceived /\ request # None
    <3>1. PICK result \in Outcomes : Callback(request, result)
      BY <1>6, <2>2 DEF EndOfAttention, Outcomes, Errors
    <3> QED
      BY <1>6, <2>1, <2>2, <3>1, CallbackType, TokenType
         DEF TypeOK, EndOfAttention, States
  <2>3. CASE ~(AttentionReceived /\ request # None)
    <3>1. inbox' \in Seq(Tokens)
      BY <2>1, TokenType
    <3>2. /\ parser' = None /\ inHandler' = FALSE
          /\ UNCHANGED <<closed, requestTimer, requests, reader, toServer, serving,
                         net, ended>>
      BY <1>6, <2>1, <2>3 DEF EndOfAttention, HandleToken
    <3>3. /\ state' \in States /\ request' \in Requests \cup {None}
          /\ cancelTimer' \in BOOLEAN /\ crashed' \in BOOLEAN
      BY <1>6, <2>3 DEF EndOfAttention, TypeOK, States
    <3> QED
      BY <3>1, <3>2, <3>3 DEF TypeOK
  <2> QED
    BY <2>2, <2>3
<1>7. CASE ReaderFails
  <2>1. SocketErrorEvent("ESOCKET") /\ "ESOCKET" \in Outcomes
    BY <1>7 DEF ReaderFails, Outcomes
  <2> QED
    BY <1>7, <2>1, SocketErrorType DEF TypeOK, ReaderFails
<1> QED
  BY <1>1, <1>2, <1>3, <1>4, <1>5, <1>6, <1>7 DEF Reading

\* What the server sends (Send, ToClient).
LEMMA SendType ==
  ASSUME TypeOK, NEW kind \in {"row", "end", "fail", "ack"}, NEW r \in Requests,
         Send(<<ToClient(kind, r)>>)
  PROVE  net' \in Seq(Tokens)
<1>1. ToClient(kind, r) \in Tokens
  BY DEF ToClient, Tokens
<1> HIDE DEF ToClient
<1>2. <<ToClient(kind, r)>> \in Seq(Tokens)
  BY <1>1
<1> QED
  BY <1>2, ConcatProperties DEF TypeOK, Send

LEMMA SendTwoType ==
  ASSUME TypeOK, NEW r \in Requests, NEW q \in Requests,
         Send(<<ToClient("end", r), ToClient("ack", q)>>)
  PROVE  net' \in Seq(Tokens)
<1>1. ToClient("end", r) \in Tokens /\ ToClient("ack", q) \in Tokens
  BY DEF ToClient, Tokens
<1> HIDE DEF ToClient
<1>2. <<ToClient("end", r), ToClient("ack", q)>> \in Seq(Tokens)
  BY <1>1
<1> QED
  BY <1>2, ConcatProperties DEF TypeOK, Send

LEMMA TypeLink == ASSUME TypeOK, Receive \/ Server PROVE TypeOK'
<1> USE DEF connection, reading, requests, link, Services
<1>1. CASE Receive
  <2>1. PICK n \in 1 .. Len(net) : /\ inbox' = inbox \o SubSeq(net, 1, n)
                                  /\ net' = SubSeq(net, n + 1, Len(net))
    BY <1>1 DEF Receive
  <2>2. \A i \in 1 .. Len(net) : net[i] \in Tokens
    BY ElementOfSeq DEF TypeOK
  <2>3. Len(net) \in Nat
    BY LenProperties DEF TypeOK
  <2>4. SubSeq(net, 1, n) \in Seq(Tokens)
    BY <2>2, <2>3, SubSeqProperties
  <2>5. net' \in Seq(Tokens)
    BY <2>1, <2>2, <2>3, SubSeqProperties
  <2>6. inbox' \in Seq(Tokens)
    BY <2>1, <2>4, ConcatProperties DEF TypeOK
  <2> QED
    BY <1>1, <2>5, <2>6 DEF TypeOK, Receive
<1>2. CASE ServerTakes
  <2>1. Head(toServer) \in Messages /\ Tail(toServer) \in Seq(Messages)
    BY <1>2, HeadTailProperties DEF TypeOK, ServerTakes
  <2>2. Head(toServer).req \in Requests
    BY <2>1 DEF Messages
  <2>3. CASE Head(toServer).kind = "request"
    <3>1. serving' = [req |-> Head(toServer).req, left |-> MaxRows] /\ net' = net
      BY <1>2, <2>3 DEF ServerTakes
    <3>2. serving' \in [req : Requests, left : 0 .. MaxRows]
      BY <2>2, <3>1, ConstantsAssumption DEF ConstantsAssumption
    <3> QED
      BY <1>2, <2>1, <3>1, <3>2, SMTT(30) DEF TypeOK, ServerTakes
  <2>4. CASE Head(toServer).kind = "ignored"
    <3>1. Send(<<ToClient("end", Head(toServer).req)>>) /\ serving' = serving
      BY <1>2, <2>4 DEF ServerTakes
    <3>2. net' \in Seq(Tokens)
      BY <2>2, <3>1, SendType
    <3> QED
      BY <1>2, <2>1, <3>1, <3>2, SMTT(30) DEF TypeOK, ServerTakes
  <2>5. CASE Head(toServer).kind = "attention"
    <3>1. serving' = None
      BY <1>2, <2>5 DEF ServerTakes
    <3>2. net' \in Seq(Tokens)
      <4>1. CASE serving = None
        <5>1. Send(<<ToClient("ack", Head(toServer).req)>>)
          BY <1>2, <2>5, <4>1 DEF ServerTakes
        <5> QED
          BY <2>2, <5>1, SendType
      <4>2. CASE serving # None
        <5>1. Send(<<ToClient("end", serving.req), ToClient("ack", Head(toServer).req)>>)
          BY <1>2, <2>5, <4>2 DEF ServerTakes
        <5>2. serving.req \in Requests
          BY <4>2 DEF TypeOK
        <5> QED
          BY <2>2, <5>1, <5>2, SendTwoType
      <4> QED
        BY <4>1, <4>2
    <3> QED
      BY <1>2, <2>1, <3>1, <3>2 DEF TypeOK, ServerTakes
  <2> QED
    BY <2>1, <2>3, <2>4, <2>5 DEF Messages
<1>3. CASE ServerRow
  <2>1. serving \in [req : Requests, left : 0 .. MaxRows] /\ serving.left > 0
    BY <1>3 DEF TypeOK, ServerRow
  <2>2. serving' \in [req : Requests, left : 0 .. MaxRows]
    BY <1>3, <2>1, ConstantsAssumption DEF ServerRow, ConstantsAssumption
  <2>3. net' \in Seq(Tokens)
    BY <1>3, <2>1, SendType DEF ServerRow
  <2> QED
    BY <1>3, <2>2, <2>3, ZenonT(40) DEF TypeOK, ServerRow
<1>4. CASE ServerDone
  <2>1. serving.req \in Requests
    BY <1>4 DEF TypeOK, ServerDone
  <2>2. net' \in Seq(Tokens)
    BY <1>4, <2>1, SendType DEF ServerDone
  <2> QED
    BY <1>4, <2>2, SMTT(30) DEF TypeOK, ServerDone
<1> QED
  BY <1>1, <1>2, <1>3, <1>4 DEF Server

LEMMA TypeNext == TypeOK /\ RequestInv /\ [Next]_vars => TypeOK'
<1> SUFFICES ASSUME TypeOK, RequestInv, [Next]_vars PROVE TypeOK'
  OBVIOUS
<1>1. CASE UNCHANGED vars
  BY <1>1 DEF TypeOK, vars, connection, reading, requests, link
<1>2. CASE Next
  BY <1>2, TypeUser, TypeSending, TypeEvents, TypeReading, TypeLink DEF Next
<1> QED
  BY <1>1, <1>2

---------------------------------------------------------------------------
(* The invariant is inductive.                                             *)

LEMMA RequestInit == Init => RequestInv
<1> SUFFICES ASSUME Init PROVE RequestInv
  OBVIOUS
<1>1. CallsCounted /\ OnePending /\ ListenersMade /\ ReadingHeard
  BY ConstantsAssumption
     DEF Init, CallsCounted, OnePending, ListenersMade, ReadingHeard, ConstantsAssumption
<1>2. ResponseOwned /\ ReaderAwaits /\ AttentionOwned
  BY DEF Init, ResponseOwned, ReaderAwaits, AttentionOwned, Parsing
<1>3. IdleReadsNothing /\ FinalIsClosed /\ InFlightHasRequest
  BY DEF Init, IdleReadsNothing, FinalIsClosed, InFlightHasRequest, InFlight
<1>4. RequestTimerOwned /\ CancelTimerOwned /\ RequestAtHand
  BY DEF Init, RequestTimerOwned, CancelTimerOwned, RequestAtHand
<1> QED
  BY <1>1, <1>2, <1>3, <1>4 DEF RequestInv

LEMMA CallbackCounted ==
  ASSUME TypeOK, CallsCounted, NEW r \in Requests, outcome[r] = "none",
         NEW result \in Outcomes, Callback(r, result)
  PROVE  /\ CallsCounted'
         /\ outcome'[r] = result /\ outcome'[r] # "none"
         /\ \A q \in Requests : q # r => outcome'[q] = outcome[q]
<1>1. PICK n : calls' = [calls EXCEPT ![r] = n] /\ n = calls[r] + 1
  BY DEF Callback
<1>2. n = 1
  BY <1>1 DEF CallsCounted
<1>3. result # "none"
  BY DEF Outcomes, Errors
<1>4. /\ outcome'[r] = result
      /\ \A q \in Requests : q # r => outcome'[q] = outcome[q]
  BY DEF Callback, TypeOK
<1> QED
  BY <1>1, <1>2, <1>3, <1>4 DEF TypeOK, CallsCounted

\* A connection that is cleaned up while nothing is left to read stays in FINAL
\* with the request in flight called back (CleanUp).
LEMMA CleanUpKeeps ==
  ASSUME TypeOK, RequestInv, NEW result \in Outcomes, CleanUp(result),
         ~MessageReady, ~TokenReady,
         reader' \in {reader, "none"},
         crashed' = FALSE,
         UNCHANGED <<parser, phase, onCancel, canceled, inbox>>
  PROVE  RequestInv'
<1> USE DEF RequestInv
<1>1. /\ CallsCounted'
      /\ \A q \in Requests : q # request => outcome'[q] = outcome[q]
      /\ request # None => outcome'[request] # "none"
  <2>1. CASE request = None
    BY <2>1 DEF CleanUp, CallsCounted
  <2>2. CASE request \in Requests
    <3>1. outcome[request] = "none" /\ Callback(request, result)
      BY <2>2, ConstantsAssumption DEF OnePending, CleanUp, ConstantsAssumption
    <3> QED
      BY <2>2, <3>1, CallbackCounted
  <2> QED
    BY <2>1, <2>2 DEF TypeOK
<1>2. OnePending'
  BY <1>1, ConstantsAssumption DEF OnePending, CleanUp, ConstantsAssumption, TypeOK
<1>3. ListenersMade'
  BY DEF ListenersMade
<1>4. ResponseOwned'
  <2> SUFFICES ASSUME Parsing("response")
               PROVE  ResponseDead'
    BY DEF ResponseOwned, Parsing
  <2>1. parser.req \in Requests /\ outcome'[parser.req] # "none"
    <3>1. CASE ResponseLive
      BY <1>1, <3>1 DEF ResponseLive, InFlightHasRequest, InFlight, TypeOK
    <3>2. CASE ResponseDead
      BY <1>1, <3>2, ConstantsAssumption
         DEF ResponseDead, InFlightHasRequest, InFlight, ConstantsAssumption
    <3> QED
      BY <3>1, <3>2 DEF ResponseOwned
  <2>2. parser.paused \/ inbox = <<>>
    BY DEF TokenReady, Parsing
  <2> QED
    BY <2>1, <2>2 DEF ResponseDead, CleanUp
<1>5. ReadingHeard'
  <2> SUFFICES ASSUME NEW r \in Requests, "reading" \in onCancel[r], outcome'[r] = "none"
               PROVE  Parsing("response") /\ parser.req = r
    BY DEF ReadingHeard, Parsing
  <2>1. outcome[r] = "none"
    BY <1>1, ConstantsAssumption DEF ConstantsAssumption
  <2> QED
    BY <2>1 DEF ReadingHeard
<1>6. reader # "none" \/ Parsing("discard") \/ Parsing("attention") => inbox = <<>>
  BY DEF TypeOK, ReaderAwaits, AttentionOwned, MessageReady, TokenReady, Parsing
<1>7. ReaderAwaits' /\ AttentionOwned'
  <2>1. state' = "FINAL" /\ parser' = parser /\ inbox' = inbox
    BY DEF CleanUp
  <2>2. ReaderAwaits'
    BY <1>6, <2>1 DEF ReaderAwaits, Parsing
  <2>3. AttentionOwned'
    BY <1>6, <2>1 DEF AttentionOwned, Parsing
  <2> QED
    BY <2>2, <2>3
<1>8. IdleReadsNothing' /\ FinalIsClosed'
  BY DEF IdleReadsNothing, FinalIsClosed, CleanUp
<1>9. InFlightHasRequest' /\ RequestTimerOwned' /\ CancelTimerOwned' /\ RequestAtHand'
  BY DEF InFlightHasRequest, InFlight, RequestTimerOwned, CancelTimerOwned,
         RequestAtHand, CleanUp
<1> QED
  BY <1>1, <1>2, <1>3, <1>4, <1>5, <1>6, <1>7, <1>8, <1>9

LEMMA SocketErrorKeeps ==
  ASSUME TypeOK, RequestInv, NEW result \in Outcomes, SocketErrorEvent(result),
         ~MessageReady, ~TokenReady,
         reader' \in {reader, "none"}, cancelTimer' \in {cancelTimer, FALSE},
         UNCHANGED <<parser, phase, onCancel, canceled, inbox>>
  PROVE  RequestInv'
<1>1. CASE state = "FINAL"
  BY <1>1 DEF SocketErrorEvent, RequestInv, CallsCounted, OnePending, ListenersMade,
       ResponseOwned, ResponseLive, ResponseDead, ReadingHeard, ReaderAwaits,
       AttentionOwned, Parsing, IdleReadsNothing, FinalIsClosed, InFlightHasRequest,
       InFlight, RequestTimerOwned, CancelTimerOwned, RequestAtHand
<1>2. CASE state # "FINAL"
  <2>1. CleanUp(result)
    BY <1>2 DEF SocketErrorEvent
  <2>2. crashed' = FALSE
    BY <1>2 DEF SocketErrorEvent, RequestInv, InFlightHasRequest, TypeOK
  <2> QED
    BY <2>1, <2>2, CleanUpKeeps
<1> QED
  BY <1>1, <1>2

LEMMA EventsKeep ==
  ASSUME CarefulUser, TypeOK, RequestInv,
         Close \/ CancelTimeout \/ SocketError \/ SocketEnd \/ ReaderFails
  PROVE  RequestInv'
<1>1. "ECLOSE" \in Outcomes /\ "ESOCKET" \in Outcomes /\ "ETIMEOUT" \in Outcomes
  BY DEF Outcomes, Errors
<1>2. CASE Close
  BY <1>1, <1>2, CleanUpKeeps
     DEF Close, CarefulUser, Quiet, RequestInv, RequestAtHand, TypeOK, reading, link
<1>3. CASE CancelTimeout
  BY <1>1, <1>3, SocketErrorKeeps DEF CancelTimeout, Quiet, link
<1>4. CASE SocketError
  BY <1>1, <1>4, SocketErrorKeeps DEF SocketError, Quiet, link, reading
<1>5. CASE SocketEnd
  BY <1>1, <1>5, SocketErrorKeeps DEF SocketEnd, Quiet, reading
<1>6. CASE ReaderFails
  <2>1. ~MessageReady /\ ~TokenReady
    BY <1>6 DEF ReaderFails, StreamEnded, MessageReady, TokenReady
  <2> QED
    BY <1>1, <1>6, <2>1, SocketErrorKeeps DEF ReaderFails, link
<1> QED
  BY <1>2, <1>3, <1>4, <1>5, <1>6

\* Cancelling a request that was not called back (EmitCancel).
LEMMA EmitCancelKeeps ==
  ASSUME TypeOK, RequestInv, NEW r \in Requests, outcome[r] = "none",
         NEW err \in Errors \cup {"none"}, EmitCancel(r, err),
         requestTimer' => requestTimer /\ "reading" \notin onCancel[r],
         UNCHANGED <<request, closed, crashed, outcome, calls, inbox>>
  PROVE  RequestInv'
<1> USE DEF RequestInv
<1>1. /\ onCancel' = [onCancel EXCEPT ![r] = {}]
      /\ onCancel'[r] = {} /\ \A q \in Requests : q # r => onCancel'[q] = onCancel[q]
  BY DEF EmitCancel, TypeOK
<1>2. \A q \in Requests : phase'[q] = "new" <=> phase[q] = "new"
  BY DEF EmitCancel, TypeOK
<1>3. canceled'[r] /\ \A q \in Requests : canceled[q] => canceled'[q]
  BY DEF EmitCancel, TypeOK
<1>4. onCancel[r] # {} => request = r
  BY DEF ListenersMade, OnePending
<1>5. CallsCounted' /\ OnePending' /\ RequestAtHand' /\ FinalIsClosed' /\ ListenersMade'
  <2>1. CallsCounted' /\ RequestAtHand'
    BY DEF CallsCounted, RequestAtHand
  <2>2. OnePending'
    BY <1>2 DEF OnePending
  <2>3. ListenersMade'
    BY <1>1, <1>2 DEF ListenersMade
  <2>4. FinalIsClosed'
    BY DEF FinalIsClosed, EmitCancel, GiveUpResponse
  <2> QED
    BY <2>1, <2>2, <2>3, <2>4
<1>6. CASE "reading" \in onCancel[r]
  <2>1. /\ request = r /\ parser # None /\ state = "SENT_CLIENT_REQUEST"
    BY <1>4, <1>6 DEF ReadingHeard, ResponseOwned, ResponseLive, ResponseDead, Parsing
  <2>2. /\ parser' = [kind |-> "discard", req |-> parser.req, paused |-> FALSE]
        /\ state' = "SENT_ATTENTION" /\ reader' = "attention"
    BY <1>6, <2>1 DEF EmitCancel, GiveUpResponse
  <2>3. parser' # None
    <3>1. parser.req \in Requests \cup {None}
      BY <2>1 DEF TypeOK, Parsers
    <3>2. parser' \in Parsers
      BY <2>2, <3>1 DEF Parsers
    <3> QED
      BY <3>2, NoneAssumption
  <2>4. ResponseOwned' /\ ReaderAwaits' /\ AttentionOwned' /\ IdleReadsNothing'
    BY <2>2, <2>3 DEF ResponseOwned, ReaderAwaits, AttentionOwned, IdleReadsNothing, Parsing
  <2>5. ReadingHeard'
    <3>1. \A q \in Requests : q # r => ~("reading" \in onCancel[q] /\ outcome[q] = "none")
      BY <1>6 DEF ReadingHeard
    <3> QED
      BY <1>1, <3>1 DEF ReadingHeard
  <2>6. InFlightHasRequest' /\ RequestTimerOwned' /\ CancelTimerOwned'
    BY <1>3, <1>6, <2>1, <2>2, ConstantsAssumption
       DEF InFlightHasRequest, InFlight, RequestTimerOwned, CancelTimerOwned,
           ConstantsAssumption
  <2> QED
    BY <1>5, <2>4, <2>5, <2>6
<1>7. CASE "reading" \notin onCancel[r]
  <2>1. UNCHANGED <<parser, state, reader>>
    BY <1>7 DEF EmitCancel
  <2>2. cancelTimer' # cancelTimer => request = r
    BY <1>4 DEF EmitCancel
  <2>3. ResponseOwned'
    <3>1. CASE Parsing("response") /\ ResponseLive
      <4>1. request \in Requests /\ request # r
        BY <1>7, <3>1 DEF ResponseLive, InFlightHasRequest, InFlight, TypeOK
      <4> QED
        BY <1>1, <2>1, <2>2, <3>1, <4>1 DEF ResponseOwned, ResponseLive, Parsing
    <3>2. CASE Parsing("response") /\ ResponseDead
      BY <2>1, <3>2 DEF ResponseOwned, ResponseDead, Parsing
    <3>3. CASE ~Parsing("response")
      BY <2>1, <3>3 DEF ResponseOwned, Parsing
    <3> QED
      BY <3>1, <3>2, <3>3 DEF ResponseOwned
  <2>4. ReadingHeard'
    BY <1>1, <2>1 DEF ReadingHeard, Parsing
  <2>5. ReaderAwaits' /\ AttentionOwned' /\ IdleReadsNothing'
    BY <2>1 DEF ReaderAwaits, AttentionOwned, IdleReadsNothing, Parsing
  <2>6. InFlightHasRequest' /\ RequestTimerOwned'
    BY <2>1 DEF InFlightHasRequest, InFlight, RequestTimerOwned
  <2>7. CancelTimerOwned'
    BY <1>3, <2>1, <2>2, ConstantsAssumption, ZenonT(40)
       DEF CancelTimerOwned, ConstantsAssumption, TypeOK
  <2> QED
    BY <1>5, <2>3, <2>4, <2>5, <2>6, <2>7
<1> QED
  BY <1>6, <1>7

LEMMA UserKeeps ==
  ASSUME CarefulUser, TypeOK, RequestInv, NEW r \in Requests, User(r)
  PROVE  RequestInv'
<1> USE DEF RequestInv, connection, reading, link
<1>1. CASE MakeRequest(r)
  <2>1. outcome[r] = "none" /\ phase[r] = "new" /\ request # r
    BY <1>1 DEF MakeRequest, OnePending
  <2>2. CASE state # "LOGGED_IN" \/ canceled[r]
    <3>1. PICK result \in {"EINVALIDSTATE", "ECANCEL"} : Callback(r, result)
      BY <1>1, <2>2 DEF MakeRequest
    <3>2. UNCHANGED <<connection, reading, phase, onCancel, canceled, inbox>>
      BY <1>1, <2>2 DEF MakeRequest
    <3>3. /\ CallsCounted' /\ outcome'[r] # "none"
          /\ \A q \in Requests : q # r => outcome'[q] = outcome[q]
      BY <2>1, <3>1, CallbackCounted DEF Outcomes, Errors
    <3>4. OnePending' /\ ListenersMade' /\ ReadingHeard'
      BY <2>1, <3>2, <3>3 DEF OnePending, ListenersMade, ReadingHeard, Parsing
    <3>5. ResponseOwned'
      <4>1. ResponseDead => ResponseDead'
        BY <3>2, <3>3 DEF ResponseDead
      <4>2. ResponseLive => ResponseLive'
        BY <3>2 DEF ResponseLive
      <4> QED
        BY <3>2, <4>1, <4>2 DEF ResponseOwned, Parsing
    <3>6. ReaderAwaits' /\ AttentionOwned' /\ IdleReadsNothing' /\ FinalIsClosed'
      BY <3>2 DEF ReaderAwaits, AttentionOwned, Parsing, IdleReadsNothing, FinalIsClosed
    <3>7. /\ InFlightHasRequest' /\ RequestTimerOwned' /\ CancelTimerOwned'
          /\ RequestAtHand'
      BY <3>2 DEF InFlightHasRequest, InFlight, RequestTimerOwned, CancelTimerOwned,
                  RequestAtHand
    <3> QED
      BY <3>3, <3>4, <3>5, <3>6, <3>7
  <2>3. CASE state = "LOGGED_IN" /\ ~canceled[r]
    <3>1. /\ request' = r /\ state' = "SENT_CLIENT_REQUEST" /\ reader' = "request"
          /\ phase' = [phase EXCEPT ![r] = "sending"]
          /\ onCancel' = [onCancel EXCEPT ![r] = {"sending"}]
          /\ UNCHANGED <<closed, cancelTimer, crashed, parser, outcome, calls, canceled,
                         inbox>>
      BY <1>1, <2>3 DEF MakeRequest
    <3>2. request = None /\ parser = None /\ reader = "none" /\ ~cancelTimer
      BY <2>3 DEF InFlightHasRequest, InFlight, IdleReadsNothing, CancelTimerOwned
    <3>3. OnePending' /\ ListenersMade' /\ CallsCounted'
      <4>1. phase'[r] = "sending" /\ \A q \in Requests : q # r => phase'[q] = phase[q]
        BY <3>1 DEF TypeOK
      <4>2. \A q \in Requests : q # r => onCancel'[q] = onCancel[q]
        BY <3>1 DEF TypeOK
      <4>3. OnePending'
        BY <2>1, <3>1, <3>2, <4>1, ConstantsAssumption DEF OnePending, ConstantsAssumption
      <4>4. ListenersMade'
        BY <4>1, <4>2 DEF ListenersMade
      <4> QED
        BY <3>1, <4>3, <4>4 DEF CallsCounted
    <3>4. ReadingHeard'
      <4>1. \A q \in Requests : "reading" \in onCancel'[q] => "reading" \in onCancel[q]
        BY <3>1 DEF TypeOK
      <4> QED
        BY <3>1, <4>1 DEF ReadingHeard, Parsing
    <3>5. /\ ResponseOwned' /\ ReaderAwaits' /\ AttentionOwned' /\ IdleReadsNothing'
          /\ FinalIsClosed'
      BY <3>1, <3>2 DEF ResponseOwned, ReaderAwaits, AttentionOwned, Parsing,
                        IdleReadsNothing, FinalIsClosed
    <3>6. /\ InFlightHasRequest' /\ RequestTimerOwned' /\ CancelTimerOwned'
          /\ RequestAtHand'
      BY <3>1, <3>2, ConstantsAssumption
         DEF InFlightHasRequest, InFlight, RequestTimerOwned, CancelTimerOwned,
             RequestAtHand, ConstantsAssumption
    <3> QED
      BY <3>3, <3>4, <3>5, <3>6
  <2> QED
    BY <2>2, <2>3
<1>2. CASE Cancel(r)
  <2>1. outcome[r] = "none" /\ EmitCancel(r, "none")
    BY <1>2 DEF Cancel, MayCall, CarefulUser
  <2> QED
    BY <1>2, <2>1, EmitCancelKeeps DEF Cancel
<1>3. CASE Pause(r) \/ Resume(r)
  <2>1. outcome[r] = "none"
    BY <1>3 DEF Pause, Resume, MayCall, CarefulUser
  <2>2. UNCHANGED <<connection, reader, phase, canceled, onCancel, outcome, calls, inbox>>
    BY <1>3 DEF Pause, Resume
  <2>3. /\ parser' = None <=> parser = None
        /\ parser # None => parser'.kind = parser.kind /\ parser'.req = parser.req
        /\ parser # None /\ parser.req # r => parser' = parser
        /\ parser # None /\ parser.kind # "response" => parser' = parser
    <3>1. CASE parser = None
      BY <1>3, <3>1 DEF Pause, Resume
    <3>2. CASE parser # None
      <4>1. parser \in Parsers
        BY <3>2 DEF TypeOK
      <4>2. \/ parser' = parser
            \/ /\ parser.req = r /\ parser.kind = "response"
               /\ \E b \in BOOLEAN : parser' = [parser EXCEPT !.paused = b]
        BY <1>3, <3>2 DEF Pause, Resume
      <4>3. parser' \in Parsers /\ parser'.kind = parser.kind /\ parser'.req = parser.req
        BY <4>1, <4>2 DEF Parsers
      <4> QED
        BY <3>2, <4>2, <4>3, NoneAssumption
    <3> QED
      BY <3>1, <3>2
  <2>4. ResponseOwned'
    <3>1. CASE Parsing("response") /\ ResponseLive
      BY <2>2, <2>3, <3>1 DEF ResponseOwned, ResponseLive, Parsing
    <3>2. CASE Parsing("response") /\ ResponseDead
      BY <2>1, <2>2, <2>3, <3>2 DEF ResponseOwned, ResponseDead, Parsing
    <3>3. CASE ~Parsing("response")
      BY <2>3, <3>3 DEF ResponseOwned, Parsing
    <3> QED
      BY <3>1, <3>2, <3>3 DEF ResponseOwned
  <2>5. ReaderAwaits' /\ AttentionOwned'
    BY <2>2, <2>3 DEF connection, ReaderAwaits, AttentionOwned, Parsing
  <2>6. CallsCounted' /\ OnePending' /\ ListenersMade'
    BY <2>2 DEF CallsCounted, OnePending, ListenersMade
  <2>7. ReadingHeard' /\ IdleReadsNothing'
    BY <2>2, <2>3 DEF ReadingHeard, IdleReadsNothing, Parsing
  <2>8. /\ FinalIsClosed' /\ InFlightHasRequest' /\ RequestTimerOwned'
        /\ CancelTimerOwned' /\ RequestAtHand'
    BY <2>2 DEF FinalIsClosed, InFlightHasRequest, InFlight, RequestTimerOwned,
                CancelTimerOwned, RequestAtHand
  <2> QED
    BY <2>4, <2>5, <2>6, <2>7, <2>8
<1> QED
  BY <1>1, <1>2, <1>3 DEF User

LEMMA SendingKeeps ==
  ASSUME TypeOK, RequestInv, NEW r \in Requests, Sending(r) \/ PayloadError(r)
  PROVE  RequestInv'
<1> USE DEF RequestInv, connection
<1>1. phase[r] # "new" /\ (\A q \in Requests : phase'[q] = "new" <=> phase[q] = "new")
  BY DEF Sending, EndPayload, FinishMessage, PayloadError, TypeOK
<1>2. UNCHANGED <<connection, reader, parser, canceled, outcome, calls, inbox>>
  BY DEF Sending, EndPayload, FinishMessage, PayloadError, link
<1>3. \A q \in Requests :
        /\ onCancel'[q] # {} => onCancel[q] # {} \/ phase[q] # "new"
        /\ "reading" \in onCancel'[q] <=> "reading" \in onCancel[q]
  <2>1. CASE UNCHANGED onCancel
    BY <2>1
  <2>2. CASE onCancel' = [onCancel EXCEPT ![r] = (@ \ {"sending"}) \cup {"sent"}]
    BY <1>1, <2>2 DEF TypeOK
  <2> QED
    BY <2>1, <2>2 DEF Sending, EndPayload, FinishMessage, PayloadError
<1>4. CallsCounted' /\ OnePending' /\ ListenersMade'
  BY <1>1, <1>2, <1>3 DEF CallsCounted, OnePending, ListenersMade
<1>5. ResponseOwned'
  <2>1. CASE Parsing("response") /\ ResponseLive
    <3>1. request \in Requests
      BY <2>1 DEF ResponseLive, InFlightHasRequest, InFlight, TypeOK
    <3> QED
      BY <1>2, <1>3, <2>1, <3>1 DEF ResponseOwned, ResponseLive, Parsing
  <2>2. CASE Parsing("response") /\ ResponseDead
    BY <1>2, <2>2 DEF ResponseOwned, ResponseDead, Parsing
  <2>3. CASE ~Parsing("response")
    BY <1>2, <2>3 DEF ResponseOwned, Parsing
  <2> QED
    BY <2>1, <2>2, <2>3 DEF ResponseOwned
<1>6. ReadingHeard' /\ ReaderAwaits' /\ AttentionOwned' /\ IdleReadsNothing'
  BY <1>2, <1>3 DEF ReadingHeard, ReaderAwaits, AttentionOwned, IdleReadsNothing, Parsing
<1>7. /\ FinalIsClosed' /\ InFlightHasRequest' /\ RequestTimerOwned'
      /\ CancelTimerOwned' /\ RequestAtHand'
  BY <1>2 DEF FinalIsClosed, InFlightHasRequest, InFlight, RequestTimerOwned,
              CancelTimerOwned, RequestAtHand
<1> QED
  BY <1>4, <1>5, <1>6, <1>7

LEMMA RequestTimeoutKeeps ==
  ASSUME TypeOK, RequestInv, RequestTimeout
  PROVE  RequestInv'
<1> USE DEF RequestInv
<1>1. request \in Requests /\ outcome[request] = "none" /\ ~requestTimer'
  BY ConstantsAssumption DEF RequestTimeout, OnePending, TypeOK, ConstantsAssumption
<1>2. CASE ~canceled[request]
  BY <1>1, <1>2, EmitCancelKeeps DEF RequestTimeout, Errors
<1>3. CASE canceled[request]
  <2>1. UNCHANGED <<state, request, closed, cancelTimer, crashed, reader, parser, phase,
                    canceled, onCancel, outcome, calls, inbox>>
    BY <1>3 DEF RequestTimeout
  <2>2. CallsCounted' /\ OnePending' /\ ListenersMade' /\ ResponseOwned'
    BY <2>1 DEF CallsCounted, OnePending, ListenersMade, ResponseOwned, ResponseLive,
                ResponseDead, Parsing
  <2>3. ReadingHeard' /\ ReaderAwaits' /\ AttentionOwned' /\ IdleReadsNothing'
    BY <2>1 DEF ReadingHeard, ReaderAwaits, AttentionOwned, IdleReadsNothing, Parsing
  <2>4. /\ FinalIsClosed' /\ InFlightHasRequest' /\ RequestTimerOwned'
        /\ CancelTimerOwned' /\ RequestAtHand'
    BY <1>1, <2>1 DEF FinalIsClosed, InFlightHasRequest, InFlight, RequestTimerOwned,
                CancelTimerOwned, RequestAtHand
  <2> QED
    BY <2>2, <2>3, <2>4
<1> QED
  BY <1>2, <1>3

\* The network and the server touch nothing of the connection but its inbox.
LEMMA LinkKeeps == ASSUME TypeOK, RequestInv, Receive \/ Server PROVE RequestInv'
<1> USE DEF RequestInv
<1>1. UNCHANGED <<state, request, closed, requestTimer, cancelTimer, crashed, reader,
                  parser, phase, canceled, onCancel, outcome, calls>>
  BY DEF Receive, Server, ServerTakes, ServerRow, ServerDone, connection, reading, requests
<1>2. state = "FINAL" => inbox' = inbox
  BY DEF Receive, Server, ServerTakes, ServerRow, ServerDone, FinalIsClosed
<1>3. CallsCounted' /\ OnePending' /\ ListenersMade' /\ ResponseOwned'
  BY <1>1, <1>2 DEF CallsCounted, OnePending, ListenersMade, ResponseOwned, ResponseLive,
                    ResponseDead, Parsing
<1>4. ReadingHeard' /\ ReaderAwaits' /\ AttentionOwned' /\ IdleReadsNothing'
  BY <1>1, <1>2 DEF ReadingHeard, ReaderAwaits, AttentionOwned, IdleReadsNothing, Parsing
<1>5. /\ FinalIsClosed' /\ InFlightHasRequest' /\ RequestTimerOwned'
      /\ CancelTimerOwned' /\ RequestAtHand'
  BY <1>1 DEF FinalIsClosed, InFlightHasRequest, InFlight, RequestTimerOwned,
              CancelTimerOwned, RequestAtHand
<1> QED
  BY <1>3, <1>4, <1>5

LEMMA GotResponseKeeps == ASSUME TypeOK, RequestInv, GotResponse PROVE RequestInv'
<1> USE DEF RequestInv
<1>1. /\ state = "SENT_CLIENT_REQUEST" /\ parser = None /\ reader = "request"
      /\ request \in Requests
  BY DEF GotResponse, MessageReady, ReaderAwaits, InFlightHasRequest, InFlight, TypeOK
<1>2. /\ ~requestTimer'
      /\ UNCHANGED <<request, closed, cancelTimer, crashed, phase, canceled, outcome,
                     calls, inbox>>
  BY DEF GotResponse, link
<1>3. CallsCounted' /\ OnePending' /\ RequestAtHand' /\ RequestTimerOwned'
  BY <1>2 DEF CallsCounted, OnePending, RequestAtHand, RequestTimerOwned
<1>4. CASE canceled[request] /\ cancelTimer
  <2>1. /\ parser' = [kind |-> "discard", req |-> request, paused |-> FALSE]
        /\ state' = "SENT_ATTENTION" /\ reader' = "attention" /\ onCancel' = onCancel
    BY <1>4 DEF GotResponse
  <2>2. parser' # None
    <3>1. parser' \in Parsers
      BY <1>1, <2>1 DEF Parsers
    <3> QED
      BY <3>1, NoneAssumption
  <2>3. /\ ListenersMade' /\ ResponseOwned' /\ ReadingHeard' /\ ReaderAwaits'
        /\ AttentionOwned' /\ IdleReadsNothing' /\ FinalIsClosed'
    BY <1>1, <1>2, <2>1, <2>2
       DEF ListenersMade, ResponseOwned, ReadingHeard, ReaderAwaits, AttentionOwned,
           Parsing, IdleReadsNothing, FinalIsClosed
  <2>4. InFlightHasRequest' /\ CancelTimerOwned'
    BY <1>1, <1>2, <1>4, <2>1, ConstantsAssumption
       DEF InFlightHasRequest, InFlight, CancelTimerOwned, ConstantsAssumption
  <2> QED
    BY <1>3, <2>3, <2>4
<1>5. CASE ~(canceled[request] /\ cancelTimer)
  <2>1. /\ parser' = [kind |-> "response", req |-> request, paused |-> paused[request]]
        /\ onCancel' = [onCancel EXCEPT ![request] = @ \cup {"reading"}]
        /\ state' = state /\ reader' = "none"
    BY <1>5 DEF GotResponse, ParseResponse
  <2>2. parser' \in Parsers
    BY <1>1, <2>1 DEF Parsers, TypeOK
  <2>3. Parsing("response")' /\ parser'.req = request /\ parser'.kind = "response"
    BY <2>1, <2>2, NoneAssumption DEF Parsing
  <2>4. ~cancelTimer
    BY <1>1, <1>5 DEF CancelTimerOwned
  <2>5. ResponseOwned'
    BY <1>1, <1>2, <2>1, <2>3, <2>4 DEF ResponseOwned, ResponseLive, TypeOK
  <2>6. ReadingHeard'
    <3>1. \A q \in Requests : q # request => onCancel'[q] = onCancel[q]
      BY <2>1 DEF TypeOK
    <3> QED
      BY <1>1, <1>2, <2>3, <3>1 DEF ReadingHeard, Parsing
  <2>7. ListenersMade'
    BY <1>1, <1>2, <2>1 DEF ListenersMade, OnePending, TypeOK
  <2>8. /\ ReaderAwaits' /\ AttentionOwned' /\ IdleReadsNothing' /\ FinalIsClosed'
        /\ InFlightHasRequest' /\ CancelTimerOwned'
    BY <1>1, <1>2, <2>1, <2>3
       DEF ReaderAwaits, AttentionOwned, Parsing, IdleReadsNothing, FinalIsClosed,
           InFlightHasRequest, InFlight, CancelTimerOwned
  <2> QED
    BY <1>3, <2>5, <2>6, <2>7, <2>8
<1> QED
  BY <1>4, <1>5

LEMMA EndOfMessageKeeps == ASSUME TypeOK, RequestInv, EndOfMessage PROVE RequestInv'
<1> USE DEF RequestInv
<1>1. Parsing("response") /\ inbox # <<>> /\ ~parser.paused
  BY DEF EndOfMessage, HandleToken, TokenReady, Parsing
<1>2. ResponseLive /\ request \in Requests /\ parser.req = request
  BY <1>1 DEF ResponseOwned, ResponseDead, ResponseLive, InFlightHasRequest, InFlight,
              TypeOK
<1>3. request # None
  BY <1>2, ConstantsAssumption DEF ConstantsAssumption
<1>4. PICK result \in Outcomes : Callback(request, result)
  <2>1. error[request] \in Errors \cup {"none"}
    BY <1>2 DEF TypeOK
  <2> QED
    BY <1>2, <1>3, <2>1 DEF EndOfMessage, ErrorAfterResponse, Outcomes, Errors
<1>5. outcome[request] = "none"
  BY <1>2 DEF OnePending
<1>6. /\ CallsCounted' /\ outcome'[request] # "none"
      /\ \A q \in Requests : q # request => outcome'[q] = outcome[q]
  BY <1>2, <1>4, <1>5, CallbackCounted
<1>7. /\ state' = "LOGGED_IN" /\ request' = None /\ parser' = None /\ ~crashed'
      /\ UNCHANGED <<requestTimer, cancelTimer, reader, phase>>
      /\ onCancel' = [onCancel EXCEPT ![request] = @ \ {"sent", "reading"}]
  BY <1>2, <1>3 DEF EndOfMessage, RequestAtHand
<1>8. reader = "none" /\ ~cancelTimer /\ ~requestTimer
  BY <1>2 DEF ResponseLive, RequestTimerOwned
<1>9. OnePending'
  BY <1>2, <1>6, <1>7, ConstantsAssumption DEF OnePending, ConstantsAssumption
<1>10. ListenersMade' /\ ReadingHeard'
  <2>1. \A q \in Requests : q # request => onCancel'[q] = onCancel[q]
    BY <1>7 DEF TypeOK
  <2>2. phase[request] # "new"
    BY <1>2 DEF OnePending
  <2> QED
    BY <1>2, <1>6, <1>7, <2>1, <2>2 DEF ListenersMade, ReadingHeard, Parsing
<1>11. /\ ResponseOwned' /\ ReaderAwaits' /\ AttentionOwned' /\ IdleReadsNothing'
       /\ FinalIsClosed' /\ InFlightHasRequest' /\ RequestTimerOwned'
       /\ CancelTimerOwned' /\ RequestAtHand'
  BY <1>7, <1>8
     DEF ResponseOwned, ReaderAwaits, AttentionOwned, Parsing, IdleReadsNothing,
         FinalIsClosed, InFlightHasRequest, InFlight, RequestTimerOwned,
         CancelTimerOwned, RequestAtHand
<1> QED
  BY <1>6, <1>9, <1>10, <1>11

LEMMA EndOfAttentionKeeps == ASSUME TypeOK, RequestInv, EndOfAttention PROVE RequestInv'
<1> USE DEF RequestInv
<1>1. /\ Parsing("attention") /\ reader = "none"
      /\ state = "SENT_ATTENTION" /\ request # None
  BY DEF EndOfAttention, HandleToken, TokenReady, Parsing, AttentionOwned,
         InFlightHasRequest, InFlight
<1>2. /\ parser' = None /\ crashed' = crashed
      /\ UNCHANGED <<closed, requestTimer, reader, phase, canceled, onCancel>>
  BY <1>1 DEF EndOfAttention
<1>3. /\ ResponseOwned' /\ ReaderAwaits' /\ AttentionOwned' /\ IdleReadsNothing'
      /\ ListenersMade' /\ RequestTimerOwned' /\ RequestAtHand'
  BY <1>1, <1>2 DEF ResponseOwned, ReaderAwaits, AttentionOwned, Parsing,
       IdleReadsNothing, ListenersMade, RequestTimerOwned, RequestAtHand
<1>4. \A q \in Requests : ~("reading" \in onCancel[q] /\ outcome[q] = "none")
  BY <1>1 DEF ReadingHeard, Parsing
<1>5. CASE AttentionReceived
  <2>1. request \in Requests /\ outcome[request] = "none"
    BY <1>1 DEF OnePending, TypeOK
  <2>2. PICK result \in Outcomes : Callback(request, result)
    BY <1>1, <1>5 DEF EndOfAttention, Outcomes, Errors
  <2>3. ~cancelTimer' /\ request' = None /\ state' = "LOGGED_IN"
    BY <1>5 DEF EndOfAttention
  <2>4. /\ CallsCounted' /\ outcome'[request] # "none"
        /\ \A q \in Requests : q # request => outcome'[q] = outcome[q]
    BY <2>1, <2>2, CallbackCounted
  <2>5. OnePending' /\ ReadingHeard'
    BY <1>2, <1>4, <2>1, <2>3, <2>4, ConstantsAssumption
       DEF OnePending, ReadingHeard, ConstantsAssumption
  <2>6. InFlightHasRequest' /\ CancelTimerOwned' /\ FinalIsClosed'
    BY <2>3 DEF InFlightHasRequest, InFlight, CancelTimerOwned, FinalIsClosed
  <2> QED
    BY <1>3, <2>4, <2>5, <2>6
<1>6. CASE ~AttentionReceived
  <2>1. UNCHANGED <<cancelTimer, request, state, outcome, calls>>
    BY <1>6 DEF EndOfAttention
  <2>2. CallsCounted' /\ OnePending' /\ ReadingHeard'
    BY <1>2, <1>4, <2>1 DEF CallsCounted, OnePending, ReadingHeard
  <2>3. InFlightHasRequest' /\ CancelTimerOwned' /\ FinalIsClosed'
    BY <1>2, <2>1 DEF InFlightHasRequest, InFlight, CancelTimerOwned, FinalIsClosed
  <2> QED
    BY <1>3, <2>2, <2>3
<1> QED
  BY <1>5, <1>6

LEMMA ReadingKeeps ==
  ASSUME CarefulUser, TypeOK, RequestInv, Reading
  PROVE  RequestInv'
<1>1. CASE GotAttentionMessage
  <2>1. /\ parser' = [kind |-> "attention", req |-> request, paused |-> FALSE]
        /\ parser = None /\ reader = "attention" /\ reader' = "none"
        /\ state = "SENT_ATTENTION"
        /\ UNCHANGED <<connection, requests, link>>
    BY <1>1 DEF GotAttentionMessage, MessageReady, RequestInv, ReaderAwaits
  <2>2. ~requestTimer
    BY <2>1 DEF RequestInv, RequestTimerOwned
  <2>3. /\ ResponseOwned' /\ ReadingHeard' /\ ReaderAwaits' /\ AttentionOwned'
        /\ IdleReadsNothing'
    BY <2>1 DEF requests, connection, RequestInv, ResponseOwned, ReadingHeard,
         ReaderAwaits, AttentionOwned, Parsing, IdleReadsNothing
  <2>4. /\ CallsCounted' /\ OnePending' /\ ListenersMade' /\ FinalIsClosed'
        /\ InFlightHasRequest' /\ RequestTimerOwned' /\ CancelTimerOwned'
        /\ RequestAtHand'
    BY <2>1, <2>2 DEF requests, connection, RequestInv, CallsCounted, OnePending,
         ListenersMade, FinalIsClosed, InFlightHasRequest, InFlight, RequestTimerOwned,
         CancelTimerOwned, RequestAtHand
  <2> QED
    BY <2>3, <2>4 DEF RequestInv
<1>2. CASE HandleRow \/ EndOfDiscarded
  <2>1. /\ UNCHANGED <<connection, reader, phase, canceled, onCancel, outcome, calls>>
        /\ parser' = parser \/ (parser' = None /\ Parsing("discard"))
        /\ inbox # <<>> /\ parser # None /\ ~parser.paused
    BY <1>2 DEF HandleRow, EndOfDiscarded, HandleToken, TokenReady, Parsing, requests
  <2>2. reader # "request"
    BY <2>1 DEF RequestInv, ReaderAwaits
  <2>3. /\ ResponseOwned' /\ ReadingHeard' /\ ReaderAwaits' /\ AttentionOwned'
        /\ IdleReadsNothing'
    BY <2>1, <2>2 DEF connection, RequestInv, ResponseOwned, ResponseLive, ResponseDead,
         ReadingHeard, ReaderAwaits, AttentionOwned, Parsing, IdleReadsNothing
  <2>4. /\ CallsCounted' /\ OnePending' /\ ListenersMade' /\ FinalIsClosed'
        /\ InFlightHasRequest' /\ RequestTimerOwned' /\ CancelTimerOwned'
        /\ RequestAtHand'
    BY <2>1 DEF connection, RequestInv, CallsCounted, OnePending,
         ListenersMade, FinalIsClosed, InFlightHasRequest, InFlight, RequestTimerOwned,
         CancelTimerOwned, RequestAtHand
  <2> QED
    BY <2>3, <2>4 DEF RequestInv
<1> QED
  BY <1>1, <1>2, GotResponseKeeps, EndOfMessageKeeps, EndOfAttentionKeeps, EventsKeep
     DEF Reading

LEMMA RequestNext == CarefulUser /\ TypeOK /\ RequestInv /\ [Next]_vars => RequestInv'
<1> SUFFICES ASSUME CarefulUser, TypeOK, RequestInv, [Next]_vars PROVE RequestInv'
  OBVIOUS
<1>1. CASE UNCHANGED vars
  <2>1. UNCHANGED <<connection, reading, phase, canceled, onCancel, outcome, calls, inbox>>
    BY <1>1 DEF vars, requests, link
  <2>2. /\ CallsCounted' /\ OnePending' /\ ListenersMade' /\ ResponseOwned'
        /\ ReadingHeard' /\ ReaderAwaits' /\ AttentionOwned' /\ IdleReadsNothing'
    BY <2>1 DEF connection, reading, RequestInv, CallsCounted, OnePending,
         ListenersMade, ResponseOwned, ResponseLive, ResponseDead, ReadingHeard,
         ReaderAwaits, AttentionOwned, Parsing, IdleReadsNothing
  <2>3. /\ FinalIsClosed' /\ InFlightHasRequest' /\ RequestTimerOwned'
        /\ CancelTimerOwned' /\ RequestAtHand'
    BY <2>1 DEF connection, reading, RequestInv, FinalIsClosed, InFlightHasRequest,
         InFlight, RequestTimerOwned, CancelTimerOwned, RequestAtHand
  <2> QED
    BY <2>2, <2>3 DEF RequestInv
<1>2. CASE Next
  BY <1>2, UserKeeps, SendingKeeps, EventsKeep, RequestTimeoutKeeps, ReadingKeeps,
     LinkKeeps DEF Next
<1> QED
  BY <1>1, <1>2

\* Who reads and parses what in each state (makeRequest to callback).
THEOREM RequestInvariant == ASSUME CarefulUser PROVE Spec => [](TypeOK /\ RequestInv)
<1>1. Init => TypeOK /\ RequestInv
  BY TypeInit, RequestInit
<1>2. TypeOK /\ RequestInv /\ [Next]_vars => (TypeOK /\ RequestInv)'
  BY TypeNext, RequestNext
<1> QED
  BY <1>1, <1>2, PTL DEF Spec

---------------------------------------------------------------------------
(* What follows from it.                                                   *)

\* The state stays well typed.
THEOREM RequestTypes == ASSUME CarefulUser PROVE Spec => []TypeOK
<1> QED
  BY RequestInvariant, PTL

\* No callback runs twice.
THEOREM CallbackRunsOnce == ASSUME CarefulUser PROVE Spec => []CallbackOnce
<1>1. TypeOK /\ RequestInv => CallbackOnce
  <2> SUFFICES ASSUME RequestInv, NEW r \in Requests PROVE calls[r] <= 1
    BY DEF CallbackOnce
  <2>1. calls[r] = 0 \/ calls[r] = 1
    BY DEF RequestInv, CallsCounted
  <2> QED
    BY <2>1
<1> QED
  BY <1>1, RequestInvariant, PTL

\* this.request is set exactly while a request is in flight, so that nothing that
\* relies on it crashes.
THEOREM RequestIsThere ==
  ASSUME CarefulUser PROVE Spec => [](InFlightHasRequest /\ RequestAtHand)
<1>1. TypeOK /\ RequestInv => InFlightHasRequest /\ RequestAtHand
  BY DEF RequestInv
<1> QED
  BY <1>1, RequestInvariant, PTL

\* Neither timer outlives what it was armed for on a live connection.
THEOREM TimersAreOwned ==
  ASSUME CarefulUser PROVE Spec => []TimersOwned
<1>1. TypeOK /\ RequestInv => TimersOwned
  BY DEF RequestInv, TimersOwned
<1> QED
  BY <1>1, RequestInvariant, PTL

---------------------------------------------------------------------------
(* Rows.                                                                   *)

\* The parser of a response is paused when its request is.
PauseHeard == Parsing("response") => parser.paused = paused[parser.req]

LEMMA PauseHeardNext ==
  ASSUME CarefulUser, TypeOK, RequestInv, PauseHeard, [Next]_vars
  PROVE  PauseHeard'
<1>1. CASE UNCHANGED <<parser, paused>>
  BY <1>1 DEF PauseHeard, Parsing
<1>2. ASSUME NEW r \in Requests, Pause(r) \/ Resume(r) PROVE PauseHeard'
  <2>1. CASE Parsing("response") /\ parser.req = r
    <3>1. parser \in Parsers
      BY <2>1 DEF Parsing, TypeOK
    <3>2. PICK b \in BOOLEAN : /\ paused' = [paused EXCEPT ![r] = b]
                              /\ parser' = [parser EXCEPT !.paused = b]
      BY <1>2, <2>1 DEF Pause, Resume, Parsing
    <3>3. parser'.paused = b /\ parser'.req = r
      BY <2>1, <3>1, <3>2 DEF Parsers
    <3>4. paused'[r] = b
      BY <3>2 DEF TypeOK
    <3> QED
      BY <3>3, <3>4 DEF PauseHeard
  <2>2. CASE ~(Parsing("response") /\ parser.req = r)
    <3>1. parser' = parser
      BY <1>2, <2>2 DEF Pause, Resume, Parsing
    <3>2. \A q \in Requests : q # r => paused'[q] = paused[q]
      BY <1>2 DEF Pause, Resume, TypeOK
    <3>3. Parsing("response") => parser.req \in Requests
      BY DEF RequestInv, ResponseOwned, ResponseLive, ResponseDead, InFlightHasRequest,
             InFlight, TypeOK
    <3> QED
      BY <2>2, <3>1, <3>2, <3>3 DEF PauseHeard, Parsing
  <2> QED
    BY <2>1, <2>2
<1>3. ASSUME NEW r \in Requests, outcome[r] = "none", NEW err, EmitCancel(r, err)
      PROVE  PauseHeard'
  <2>1. CASE "reading" \in onCancel[r]
    BY <1>3, <2>1 DEF EmitCancel, GiveUpResponse, PauseHeard, Parsing
  <2>2. CASE "reading" \notin onCancel[r]
    <3>1. parser' = parser /\ \A q \in Requests : q # r => paused'[q] = paused[q]
      BY <1>3, <2>2 DEF EmitCancel, TypeOK
    <3>2. Parsing("response") => parser.req \in Requests /\ parser.req # r
      BY <1>3, <2>2 DEF RequestInv, ResponseOwned, ResponseLive, ResponseDead,
                        InFlightHasRequest, InFlight, TypeOK
    <3> QED
      BY <3>1, <3>2 DEF PauseHeard, Parsing
  <2> QED
    BY <2>1, <2>2
<1>4. ASSUME NEW r \in Requests, Cancel(r) PROVE PauseHeard'
  BY <1>3, <1>4 DEF Cancel, MayCall, CarefulUser
<1>5. CASE RequestTimeout
  <2>1. request \in Requests /\ outcome[request] = "none"
    BY <1>5, ConstantsAssumption
       DEF RequestTimeout, RequestInv, OnePending, TypeOK, ConstantsAssumption
  <2> QED
    BY <1>1, <1>3, <1>5, <2>1 DEF RequestTimeout
<1>6. CASE GotResponse
  BY <1>6 DEF GotResponse, ParseResponse, PauseHeard, Parsing
<1>7. CASE EndOfMessage \/ EndOfDiscarded \/ EndOfAttention \/ GotAttentionMessage
  BY <1>7 DEF EndOfMessage, EndOfDiscarded, EndOfAttention, GotAttentionMessage,
              PauseHeard, Parsing
<1>8. CASE HandleRow \/ ReaderFails \/ Close \/ CancelTimeout \/ SocketError \/ SocketEnd
  BY <1>1, <1>8 DEF HandleRow, ReaderFails, Close, CancelTimeout, SocketError, SocketEnd,
                    reading
<1>9. CASE Receive \/ Server
  BY <1>1, <1>9 DEF Receive, Server, ServerTakes, ServerRow, ServerDone, reading, requests
<1>10. ASSUME NEW r \in Requests, MakeRequest(r) \/ Sending(r) \/ PayloadError(r)
       PROVE  PauseHeard'
  BY <1>1, <1>10 DEF MakeRequest, Sending, EndPayload, FinishMessage, PayloadError, reading
<1>11. CASE UNCHANGED vars
  BY <1>1, <1>11 DEF vars, reading, requests
<1> QED
  BY <1>2, <1>4, <1>5, <1>6, <1>7, <1>8, <1>9, <1>10, <1>11
     DEF Next, User, Reading

LEMMA RowsAreWanted ==
  ASSUME TypeOK, RequestInv, PauseHeard, [Next]_vars
  PROVE  \A r \in Requests : rows'[r] # rows[r] =>
           outcome[r] = "none" /\ ~canceled[r] /\ ~paused[r]
<1>1. CASE HandleRow
  <2>1. /\ inbox # <<>> /\ parser # None /\ ~parser.paused
    BY <1>1 DEF HandleRow, HandleToken, TokenReady
  <2>2. CASE parser.kind = "response" /\ ~canceled[parser.req]
    <3>1. ResponseLive
      BY <2>1, <2>2 DEF RequestInv, ResponseOwned, ResponseDead, Parsing
    <3>2. /\ parser.req \in Requests /\ outcome[parser.req] = "none"
          /\ ~paused[parser.req]
      BY <2>1, <2>2, <3>1 DEF RequestInv, ResponseLive, OnePending, InFlightHasRequest,
           InFlight, PauseHeard, Parsing, TypeOK
    <3>3. \A r \in Requests : r # parser.req => rows'[r] = rows[r]
      <4>1. PICK n : rows' = [rows EXCEPT ![parser.req] = n]
        BY <1>1, <2>2 DEF HandleRow
      <4> QED
        BY <4>1 DEF TypeOK
    <3> QED
      BY <2>2, <3>2, <3>3
  <2>3. CASE ~(parser.kind = "response" /\ ~canceled[parser.req])
    BY <1>1, <2>3 DEF HandleRow
  <2> QED
    BY <2>2, <2>3
<1>2. CASE ~HandleRow
  <2>1. rows' = rows
    BY <1>2 DEF Next, User, MakeRequest, Cancel, Pause, Resume, Sending, EndPayload,
         FinishMessage, PayloadError, Close, RequestTimeout, CancelTimeout, Reading,
         GotResponse, GotAttentionMessage, EndOfMessage, EndOfDiscarded, EndOfAttention,
         ReaderFails, Receive, SocketError, SocketEnd, Server, ServerTakes, ServerRow,
         ServerDone, vars, requests
  <2> QED
    BY <2>1
<1> QED
  BY <1>1, <1>2

\* A row reaches the user only while its request waits for it: not after the
\* callback, not once cancelled, and not while paused.
THEOREM RowsReachOnlyTheWaiting == ASSUME CarefulUser PROVE Spec => RowsOnlyWhenWanted
<1>1. Init => PauseHeard
  BY DEF Init, PauseHeard, Parsing
<1>2. TypeOK /\ RequestInv /\ PauseHeard /\ [Next]_vars => PauseHeard'
  BY PauseHeardNext
<1>3. TypeOK /\ RequestInv /\ PauseHeard /\ [Next]_vars =>
        [\A r \in Requests : rows'[r] # rows[r] =>
           outcome[r] = "none" /\ ~canceled[r] /\ ~paused[r]]_vars
  BY RowsAreWanted
<1> QED
  BY <1>1, <1>2, <1>3, RequestInvariant, PTL DEF Spec, RowsOnlyWhenWanted

---------------------------------------------------------------------------
(* The connection implements RequestContract.                              *)

LEMMA CleanUpDisconnects ==
  ASSUME NEW result \in {"ECLOSE", "ESOCKET", "ETIMEOUT"}, state # "FINAL", CleanUp(result)
  PROVE  Contract!Disconnect
  BY DEF CleanUp, Callback, Contract!Disconnect, Contract!Tell

LEMMA SocketErrorDisconnects ==
  ASSUME NEW result \in {"ECLOSE", "ESOCKET", "ETIMEOUT"}, SocketErrorEvent(result)
  PROVE  [Contract!Next]_(Contract!contract)
<1>1. CASE state = "FINAL"
  BY <1>1 DEF SocketErrorEvent, Contract!contract
<1>2. CASE state # "FINAL"
  BY <1>2, CleanUpDisconnects DEF SocketErrorEvent, Contract!Next
<1> QED
  BY <1>1, <1>2

LEMMA EmitCancelStutters ==
  ASSUME RequestInv, NEW r \in Requests, outcome[r] = "none",
         NEW err, EmitCancel(r, err), UNCHANGED <<request, outcome>>
  PROVE  UNCHANGED Contract!contract
<1>1. CASE "reading" \in onCancel[r]
  <2>1. state # "FINAL"
    BY <1>1 DEF RequestInv, ReadingHeard, ResponseOwned, ResponseLive, ResponseDead
  <2> QED
    BY <1>1, <2>1 DEF EmitCancel, GiveUpResponse, Contract!contract
<1>2. CASE "reading" \notin onCancel[r]
  BY <1>2 DEF EmitCancel, Contract!contract
<1> QED
  BY <1>1, <1>2

LEMMA UserKeepsContract ==
  ASSUME CarefulUser, TypeOK, RequestInv, NEW r \in Requests, User(r)
  PROVE  [Contract!Next]_(Contract!contract)
<1>1. CASE MakeRequest(r)
  <2>1. outcome[r] = "none" /\ request # r
    BY <1>1 DEF MakeRequest, RequestInv, OnePending
  <2>2. CASE state # "LOGGED_IN" \/ canceled[r]
    <3>1. UNCHANGED <<state, request>>
      BY <1>1, <2>2 DEF MakeRequest, connection
    <3>2. Contract!Tell(r, {"EINVALIDSTATE", "ECANCEL"})
      BY <1>1, <2>2 DEF MakeRequest, Callback, Contract!Tell
    <3> QED
      BY <2>1, <3>1, <3>2 DEF Contract!Refuse, Contract!Next
  <2>3. CASE state = "LOGGED_IN" /\ ~canceled[r]
    <3>1. request = None
      BY <2>3 DEF RequestInv, InFlightHasRequest, InFlight
    <3>2. request' = r /\ state' = "SENT_CLIENT_REQUEST" /\ outcome' = outcome
      BY <1>1, <2>3 DEF MakeRequest
    <3> QED
      BY <2>1, <2>3, <3>1, <3>2 DEF Contract!Submit, Contract!Next
  <2> QED
    BY <2>2, <2>3
<1>2. CASE Cancel(r)
  <2>1. outcome[r] = "none" /\ EmitCancel(r, "none") /\ UNCHANGED <<request, outcome>>
    BY <1>2 DEF Cancel, MayCall, CarefulUser
  <2> QED
    BY <2>1, EmitCancelStutters
<1>3. CASE Pause(r) \/ Resume(r)
  BY <1>3 DEF Pause, Resume, connection, Contract!contract
<1> QED
  BY <1>1, <1>2, <1>3 DEF User

LEMMA ReadingKeepsContract ==
  ASSUME TypeOK, RequestInv, Reading
  PROVE  [Contract!Next]_(Contract!contract)
<1>1. CASE GotResponse
  <2>1. state = "SENT_CLIENT_REQUEST" /\ state' # "FINAL" /\ UNCHANGED <<request, outcome>>
    BY <1>1 DEF GotResponse, ParseResponse, MessageReady, RequestInv, ReaderAwaits
  <2> QED
    BY <2>1 DEF Contract!contract
<1>2. CASE EndOfMessage
  <2>1. Parsing("response") /\ inbox # <<>> /\ ~parser.paused
    BY <1>2 DEF EndOfMessage, HandleToken, TokenReady, Parsing
  <2>2. /\ state = "SENT_CLIENT_REQUEST" /\ request \in Requests /\ request # None
        /\ parser.req = request
    BY <2>1 DEF RequestInv, ResponseOwned, ResponseDead, ResponseLive,
                InFlightHasRequest, InFlight, TypeOK
  <2>3. error[request] \in Errors \cup {"none"}
    BY <2>2 DEF TypeOK
  <2>4. Contract!Tell(request, {"ok", "EREQUEST", "EPAYLOAD", "ECANCEL", "ETIMEOUT"})
    BY <1>2, <2>2, <2>3
       DEF EndOfMessage, ErrorAfterResponse, Callback, Contract!Tell, Errors
  <2>5. state' = "LOGGED_IN" /\ request' = None
    BY <1>2 DEF EndOfMessage
  <2> QED
    BY <2>2, <2>4, <2>5 DEF Contract!Complete, Contract!Next
<1>3. CASE EndOfAttention
  <2>1. CASE AttentionReceived
    <3>1. state # "FINAL" /\ request # None
      BY <1>3 DEF EndOfAttention, HandleToken, TokenReady, Parsing, RequestInv,
                  AttentionOwned, InFlightHasRequest, InFlight
    <3>2. state' = "LOGGED_IN" /\ request' = None
      BY <1>3, <2>1 DEF EndOfAttention
    <3>3. Contract!Tell(request, {"ok", "EREQUEST", "EPAYLOAD", "ECANCEL", "ETIMEOUT"})
      BY <1>3, <2>1, <3>1 DEF EndOfAttention, Callback, Contract!Tell
    <3> QED
      BY <3>1, <3>2, <3>3 DEF Contract!Complete, Contract!Next
  <2>2. CASE ~AttentionReceived
    BY <1>3, <2>2 DEF EndOfAttention, Contract!contract
  <2> QED
    BY <2>1, <2>2
<1>4. CASE ReaderFails
  BY <1>4, SocketErrorDisconnects DEF ReaderFails
<1>5. CASE GotAttentionMessage \/ HandleRow \/ EndOfDiscarded
  BY <1>5 DEF GotAttentionMessage, HandleRow, EndOfDiscarded, connection, requests,
              Contract!contract
<1> QED
  BY <1>1, <1>2, <1>3, <1>4, <1>5 DEF Reading

LEMMA StepKeepsContract ==
  ASSUME CarefulUser, TypeOK, RequestInv, [Next]_vars
  PROVE  [Contract!Next]_(Contract!contract)
<1>1. CASE UNCHANGED vars
  BY <1>1 DEF vars, connection, requests, Contract!contract
<1>2. CASE \E r \in Requests : User(r) \/ Sending(r) \/ PayloadError(r)
  <2>1. CASE \E r \in Requests : User(r)
    BY <2>1, UserKeepsContract
  <2>2. CASE \E r \in Requests : Sending(r) \/ PayloadError(r)
    BY <2>2 DEF Sending, EndPayload, FinishMessage, PayloadError, connection,
                Contract!contract
  <2> QED
    BY <1>2, <2>1, <2>2
<1>3. CASE Close
  BY <1>3, CleanUpDisconnects DEF Close, Contract!Next
<1>4. CASE RequestTimeout
  <2>1. request \in Requests /\ outcome[request] = "none"
    BY <1>4, ConstantsAssumption
       DEF RequestTimeout, RequestInv, OnePending, TypeOK, ConstantsAssumption
  <2>2. CASE canceled[request]
    BY <1>4, <2>2 DEF RequestTimeout, Contract!contract
  <2>3. CASE ~canceled[request]
    BY <1>4, <2>1, <2>3, EmitCancelStutters DEF RequestTimeout
  <2> QED
    BY <2>2, <2>3
<1>5. CASE CancelTimeout \/ SocketError \/ SocketEnd
  BY <1>5, SocketErrorDisconnects DEF CancelTimeout, SocketError, SocketEnd
<1>6. CASE Reading
  BY <1>6, ReadingKeepsContract
<1>7. CASE Receive \/ Server
  BY <1>7 DEF Receive, Server, ServerTakes, ServerRow, ServerDone, connection, requests,
              Contract!contract
<1> QED
  BY <1>1, <1>2, <1>3, <1>4, <1>5, <1>6, <1>7 DEF Next

\* One request at a time, one result for each, and a connection that is gone
\* leaves none pending: for every interleaving of cancels, timeouts, pauses,
\* disconnects and responses.
THEOREM ContractIsKept == ASSUME CarefulUser PROVE Spec => KeepsContract
<1>1. Init => Contract!Init
  BY DEF Init, Contract!Init
<1>2. TypeOK /\ RequestInv /\ [Next]_vars => [Contract!Next]_(Contract!contract)
  BY StepKeepsContract
<1> QED
  BY <1>1, <1>2, RequestInvariant, PTL DEF Spec, KeepsContract, Contract!Spec

---------------------------------------------------------------------------
(* Responses.  What is in the stream and on the link is owed to the request *)
(* in flight: its response and, when an attention is out for it, the        *)
(* acknowledgement.  r is that request, out tells whether the attention is  *)
(* out.                                                                     *)

Message(kind, r) == [kind |-> kind, req |-> r]
NothingOwed == toServer = <<>> /\ serving = None /\ Stream = <<>>

\* What the server has not seen yet when it has taken the request.
Attention(r, out) == IF out THEN <<Message("attention", r)>> ELSE <<>>

\* The first n tokens of s are a response to r.
ResponseUpTo(s, n, r) ==
  /\ n \in 1 .. Len(s)
  /\ \A i \in 1 .. n : /\ s[i].req = r /\ s[i].kind # "ack"
                       /\ s[i].kind = "row" <=> i # n

\* How far the server is with r.
Unserved(r, out) ==
  /\ serving = None /\ Stream = <<>>
  /\ \E kind \in {"request", "ignored"} :
       toServer = IF out THEN <<Message(kind, r), Message("attention", r)>>
                         ELSE <<Message(kind, r)>>
Served(r, out) ==
  /\ serving # None /\ serving.req = r
  /\ \A i \in 1 .. Len(Stream) : Stream[i].kind = "row" /\ Stream[i].req = r
  /\ toServer = Attention(r, out)
Answered(r, out) ==
  /\ serving = None /\ toServer = Attention(r, out)
  /\ ResponseUpTo(Stream, Len(Stream), r)
Acknowledged(r, out) ==
  /\ out /\ serving = None /\ toServer = <<>>
  /\ ResponseUpTo(Stream, Len(Stream) - 1, r)
  /\ Stream[Len(Stream)] = ToClient("ack", r)
Owing(r, out) == \/ Unserved(r, out) \/ Served(r, out)
                 \/ Answered(r, out) \/ Acknowledged(r, out)

\* The response is over, the acknowledgement is to come.
AckToSend(r) ==
  serving = None /\ Stream = <<>> /\ toServer = <<Message("attention", r)>>
AckToRead(r) ==
  serving = None /\ Stream = <<ToClient("ack", r)>> /\ toServer = <<>>

\* How far the client is with r.
SentOff(r) == phase[r] \in {"sent", "ignored", "ignoredLate"}
AttentionOut(r) == SentOff(r) /\ "sent" \notin onCancel[r]
ResponseOwed(r) == IF AttentionOut(r) THEN Owing(r, TRUE) ELSE Owing(r, FALSE)

BeingSent(r) == /\ ~SentOff(r) /\ NothingOwed /\ "sent" \notin onCancel[r]
                /\ reader = "request" /\ parser = None /\ ~cancelTimer
AwaitsResponse(r) ==
  /\ SentOff(r) /\ ResponseOwed(r)
  /\ reader = "request" /\ parser = None
  /\ cancelTimer <=> AttentionOut(r)
  /\ AttentionOut(r) => canceled[r]
ReadsResponse(r) ==
  /\ SentOff(r) /\ ResponseOwed(r)
  /\ Parsing("response") /\ ~AttentionOut(r)
SkipsResponse(r) ==
  /\ SentOff(r) /\ ResponseOwed(r)
  /\ Parsing("discard") /\ parser.req = r
  /\ AttentionOut(r) /\ reader = "attention"
AwaitsAck(r) ==
  /\ AttentionOut(r)
  /\ AckToSend(r) \/ AckToRead(r)
  /\ reader = "attention" /\ parser = None
ReadsAck(r) ==
  AttentionOut(r) /\ AckToRead(r) /\ Parsing("attention") /\ parser.req = r

\* Only the request in flight is being sent.
OthersNotSending ==
  \A r \in Requests :
    phase[r] \in {"sending", "flushing", "ignoring", "late"} => request = r

StreamInv ==
  ~closed =>
    /\ OthersNotSending
    /\ request = None => NothingOwed
    /\ \A r \in Requests : request = r =>
         \/ BeingSent(r) \/ AwaitsResponse(r) \/ ReadsResponse(r)
         \/ SkipsResponse(r) \/ AwaitsAck(r) \/ ReadsAck(r)

\* The token that is handled is the first of the stream.
LEMMA StreamHead ==
  ASSUME TypeOK, inbox # <<>>
  PROVE  /\ Stream \in Seq(Tokens) /\ Stream # <<>> /\ Len(Stream) > 0
         /\ Stream[1] = Head(inbox) /\ Head(Stream) = Head(inbox)
         /\ Tail(inbox) \o net = Tail(Stream)
<1>1. inbox \in Seq(Tokens) /\ net \in Seq(Tokens)
  BY DEF TypeOK
<1> QED
  BY <1>1, ConcatProperties, EmptySeq, LenProperties, SMTT(30) DEF Stream

LEMMA Regroup ==
  ASSUME NEW s \in Seq(Tokens), NEW t \in Seq(Tokens), NEW u \in Seq(Tokens)
  PROVE  (s \o t) \o u = s \o (t \o u)
  BY ConcatAssociative, SMTT(30)

\* Receiving moves tokens and changes nothing else.
LEMMA ReceivedStays == ASSUME TypeOK, Receive PROVE Stream' = Stream
<1>1. inbox \in Seq(Tokens) /\ net \in Seq(Tokens)
  BY DEF TypeOK
<1>2. PICK n \in 1 .. Len(net) : /\ inbox' = inbox \o SubSeq(net, 1, n)
                                /\ net' = SubSeq(net, n + 1, Len(net))
  BY DEF Receive
<1> DEFINE first == SubSeq(net, 1, n)
           rest == SubSeq(net, n + 1, Len(net))
<1>3. first \in Seq(Tokens) /\ rest \in Seq(Tokens)
  BY <1>1
<1>4. first \o rest = net
  <2>1. /\ 1 \in 1 .. Len(net) + 1 /\ n \in 1 - 1 .. Len(net)
        /\ Len(net) \in n .. Len(net)
    BY <1>1
  <2> QED
    BY <1>1, <2>1, ConcatAdjacentSubSeq, SubSeqFull, SMTT(30)
<1>5. (inbox \o first) \o rest = inbox \o (first \o rest)
  <2> HIDE DEF first, rest
  <2> QED
    BY <1>1, <1>3, Regroup
<1> QED
  BY <1>2, <1>4, <1>5 DEF Stream

LEMMA SentAtTheEnd ==
  ASSUME TypeOK, NEW tokens \in Seq(Tokens), Send(tokens), UNCHANGED inbox
  PROVE  /\ Len(Stream') = Len(Stream) + Len(tokens)
         /\ \A i \in 1 .. Len(Stream) : Stream'[i] = Stream[i]
         /\ \A i \in 1 .. Len(tokens) : Stream'[Len(Stream) + i] = tokens[i]
<1>1. inbox \in Seq(Tokens) /\ net \in Seq(Tokens)
  BY DEF TypeOK
<1> QED
  BY <1>1 DEF Stream, Send

\* What is left of a response when its first token has been handled.
LEMMA ResponseGoesOn ==
  ASSUME NEW s \in Seq(Tokens), NEW n, NEW r, ResponseUpTo(s, n, r)
  PROVE  /\ Head(s).req = r /\ Head(s).kind # "ack"
         /\ Head(s).kind = "row" => n > 1 /\ ResponseUpTo(Tail(s), n - 1, r)
         /\ Head(s).kind # "row" => n = 1
<1>1. /\ Len(s) \in Nat /\ n \in 1 .. Len(s) /\ s # <<>> /\ Head(s) = s[1]
      /\ Len(Tail(s)) = Len(s) - 1
      /\ \A i \in 1 .. Len(s) - 1 : Tail(s)[i] = s[i + 1]
  BY DEF ResponseUpTo
<1>2. /\ s[1].req = r /\ s[1].kind # "ack"
      /\ s[1].kind = "row" <=> 1 # n
  BY <1>1 DEF ResponseUpTo
<1>3. ASSUME n > 1 PROVE ResponseUpTo(Tail(s), n - 1, r)
  BY <1>1, <1>3 DEF ResponseUpTo
<1> QED
  BY <1>1, <1>2, <1>3

\* The server takes a message, sends a row or ends the response: what is owed
\* to the request stays so.
LEMMA ServerAnswers ==
  ASSUME TypeOK, Server, ~closed, NEW r \in Requests, NEW out \in BOOLEAN
  PROVE  /\ ~NothingOwed
         /\ Owing(r, out) => Owing(r, out)'
         /\ AckToSend(r) => AckToRead(r)'
         /\ ~AckToRead(r)
<1>1. /\ Stream \in Seq(Tokens) /\ Len(Stream) \in Nat /\ UNCHANGED inbox
      /\ Stream # <<>> <=> Len(Stream) > 0
  BY ConcatProperties, LenProperties, EmptySeq
  DEF TypeOK, Stream, Server, ServerTakes, ServerRow, ServerDone
<1>2. \A q \in Requests, kind \in {"row", "end", "fail", "ack"} :
        ToClient(kind, q) \in Tokens
  BY DEF ToClient, Tokens
<1>3. /\ ToClient("ack", r).kind = "ack" /\ ToClient("end", r).kind = "end"
      /\ ToClient("ack", r).req = r /\ ToClient("end", r).req = r
      /\ \A kind : ToClient(kind, r).kind = kind /\ ToClient(kind, r).req = r
  BY DEF ToClient
<1>4. ASSUME NEW token \in Tokens, Send(<<token>>)
      PROVE  /\ Len(Stream') = Len(Stream) + 1 /\ Stream'[Len(Stream) + 1] = token
             /\ \A i \in 1 .. Len(Stream) : Stream'[i] = Stream[i]
             /\ Stream = <<>> => Stream' = <<token>>
  <2>1. <<token>> \in Seq(Tokens) /\ Len(<<token>>) = 1 /\ <<token>>[1] = token
    OBVIOUS
  <2>2. Stream = <<>> => inbox = <<>> /\ net = <<>>
    BY DEF TypeOK, Stream
  <2>3. Stream = <<>> => Stream' = <<token>>
    BY <1>1, <1>4, <2>1, <2>2 DEF Stream, Send
  <2>4. /\ Len(Stream') = Len(Stream) + Len(<<token>>)
        /\ \A i \in 1 .. Len(Stream) : Stream'[i] = Stream[i]
        /\ \A i \in 1 .. Len(<<token>>) : Stream'[Len(Stream) + i] = <<token>>[i]
    <3> DEFINE tokens == <<token>>
    <3>1. tokens \in Seq(Tokens) /\ Send(tokens)
      BY <1>4, <2>1
    <3> HIDE DEF tokens
    <3>2. /\ Len(Stream') = Len(Stream) + Len(tokens)
          /\ \A i \in 1 .. Len(Stream) : Stream'[i] = Stream[i]
          /\ \A i \in 1 .. Len(tokens) : Stream'[Len(Stream) + i] = tokens[i]
      BY <1>1, <3>1, SentAtTheEnd
    <3> QED
      BY <3>2 DEF tokens
  <2> QED
    BY <1>1, <2>1, <2>3, <2>4
<1>5. CASE ServerRow
  <2>1. serving # None /\ serving \in Services /\ toServer' = toServer
    BY <1>5 DEF ServerRow, TypeOK
  <2>2. ASSUME Served(r, out) PROVE Served(r, out)'
    <3>1. serving.req = r /\ Send(<<ToClient("row", r)>>)
      BY <1>5, <2>2 DEF Served, ServerRow
    <3>2. serving' \in Services /\ serving'.req = r
      BY <1>5, <2>1, <3>1, ConstantsAssumption DEF ServerRow, Services, ConstantsAssumption
    <3>3. serving' # None
      BY <3>2, NoneAssumption
    <3> QED
      BY <1>1, <1>2, <1>3, <1>4, <2>1, <2>2, <3>1, <3>2, <3>3 DEF Served, Attention
  <2> QED
    BY <2>1, <2>2 DEF NothingOwed, Owing, Unserved, Answered, Acknowledged,
                      AckToSend, AckToRead
<1>6. CASE ServerDone
  <2>1. serving # None /\ serving' = None /\ toServer' = toServer
    BY <1>6 DEF ServerDone
  <2>2. ASSUME Served(r, out) PROVE Answered(r, out)'
    <3>1. PICK kind \in {"end", "fail"} : Send(<<ToClient(kind, r)>>)
      BY <1>6, <2>2 DEF Served, ServerDone
    <3>2. ResponseUpTo(Stream', Len(Stream'), r)
      BY <1>1, <1>2, <1>3, <1>4, <2>2, <3>1 DEF Served, ResponseUpTo
    <3> QED
      BY <2>1, <2>2, <3>2 DEF Served, Answered, Attention
  <2> QED
    BY <2>1, <2>2 DEF NothingOwed, Owing, Unserved, Answered, Acknowledged,
                      AckToSend, AckToRead
<1>7. CASE ServerTakes
  <2>1. PICK m : m = Head(toServer)
    OBVIOUS
  <2>2. ASSUME NEW kind, toServer = <<Message(kind, r)>>
        PROVE  m.kind = kind /\ m.req = r /\ toServer' = <<>>
    BY <1>7, <2>1, <2>2 DEF ServerTakes, Message
  <2>3. ASSUME NEW kind, toServer = <<Message(kind, r), Message("attention", r)>>
        PROVE  m.kind = kind /\ m.req = r /\ toServer' = <<Message("attention", r)>>
    BY <1>7, <2>1, <2>3 DEF ServerTakes, Message
  <2>4. ASSUME Unserved(r, out) PROVE Owing(r, out)'
    <3>1. /\ m.kind \in {"request", "ignored"} /\ m.req = r
          /\ toServer' = Attention(r, out)
      BY <2>2, <2>3, <2>4 DEF Unserved, Attention
    <3>2. CASE m.kind = "request"
      <4>1. serving' = [req |-> r, left |-> MaxRows] /\ net' = net
        BY <1>7, <2>1, <3>1, <3>2 DEF ServerTakes
      <4>2. serving' # None /\ serving'.req = r
        BY <4>1, NoneAssumption, ConstantsAssumption DEF Services, ConstantsAssumption
      <4>3. Stream' = <<>>
        BY <1>1, <2>4, <4>1 DEF Stream, Unserved
      <4> QED
        BY <3>1, <4>2, <4>3 DEF Owing, Served
    <3>3. CASE m.kind = "ignored"
      <4>1. serving' = None /\ Send(<<ToClient("end", r)>>)
        BY <1>7, <2>1, <2>4, <3>1, <3>3 DEF ServerTakes, Unserved
      <4>2. Stream' = <<ToClient("end", r)>>
        BY <1>2, <1>4, <2>4, <4>1 DEF Unserved
      <4>3. ResponseUpTo(Stream', Len(Stream'), r)
        BY <1>3, <4>2 DEF ResponseUpTo
      <4> QED
        BY <3>1, <4>1, <4>3 DEF Owing, Answered
    <3> QED
      BY <3>1, <3>2, <3>3
  <2>5. ASSUME Served(r, out) \/ Answered(r, out) PROVE Acknowledged(r, out)'
    <3>1. out /\ toServer = <<Message("attention", r)>>
      BY <1>7, <2>5 DEF ServerTakes, Served, Answered, Attention
    <3>2. m.kind = "attention" /\ m.req = r /\ toServer' = <<>> /\ serving' = None
      BY <1>7, <2>1, <2>2, <3>1 DEF ServerTakes
    <3>3. CASE Served(r, out)
      <4>1. Send(<<ToClient("end", r), ToClient("ack", r)>>)
        BY <1>7, <2>1, <3>2, <3>3 DEF ServerTakes, Served
      <4>2. <<ToClient("end", r), ToClient("ack", r)>> \in Seq(Tokens)
        BY <1>2
      <4>3. /\ Len(Stream') = Len(Stream) + 2
            /\ \A i \in 1 .. Len(Stream) : Stream'[i] = Stream[i]
            /\ Stream'[Len(Stream) + 1] = ToClient("end", r)
            /\ Stream'[Len(Stream) + 2] = ToClient("ack", r)
        <5> DEFINE tokens == <<ToClient("end", r), ToClient("ack", r)>>
        <5>1. tokens \in Seq(Tokens) /\ Send(tokens)
          BY <4>1, <4>2
        <5>2. Len(tokens) = 2 /\ tokens[1] = ToClient("end", r) /\ tokens[2] = ToClient("ack", r)
          OBVIOUS
        <5> HIDE DEF tokens
        <5>3. /\ Len(Stream') = Len(Stream) + Len(tokens)
              /\ \A i \in 1 .. Len(Stream) : Stream'[i] = Stream[i]
              /\ \A i \in 1 .. Len(tokens) : Stream'[Len(Stream) + i] = tokens[i]
          BY <1>1, <5>1, SentAtTheEnd
        <5> HIDE DEF Stream, ToClient
        <5> QED
          BY <5>2, <5>3
      <4>4. ResponseUpTo(Stream', Len(Stream') - 1, r)
        BY <1>1, <1>3, <3>3, <4>3 DEF Served, ResponseUpTo
      <4> QED
        BY <1>1, <3>1, <3>2, <4>3, <4>4 DEF Acknowledged
    <3>4. CASE Answered(r, out)
      <4>1. Send(<<ToClient("ack", r)>>)
        BY <1>7, <2>1, <3>2, <3>4 DEF ServerTakes, Answered
      <4>2. ResponseUpTo(Stream', Len(Stream') - 1, r)
        BY <1>1, <1>2, <1>4, <3>4, <4>1 DEF Answered, ResponseUpTo
      <4> QED
        BY <1>1, <1>2, <1>4, <3>1, <3>2, <4>1, <4>2 DEF Acknowledged
    <3> QED
      BY <2>5, <3>3, <3>4
  <2>6. ASSUME AckToSend(r) PROVE AckToRead(r)'
    <3>1. m.kind = "attention" /\ m.req = r /\ toServer' = <<>>
      BY <2>2, <2>6 DEF AckToSend
    <3>2. serving' = None /\ Send(<<ToClient("ack", r)>>)
      BY <1>7, <2>1, <2>6, <3>1 DEF ServerTakes, AckToSend
    <3> QED
      BY <1>2, <1>4, <2>6, <3>1, <3>2 DEF AckToSend, AckToRead
  <2>7. toServer # <<>>
    BY <1>7 DEF ServerTakes
  <2> QED
    BY <2>4, <2>5, <2>6, <2>7
    DEF NothingOwed, Owing, Acknowledged, AckToRead
<1> QED
  BY <1>5, <1>6, <1>7 DEF Server

\* Steps that change neither the link, nor who reads, nor what is sent.
InSending(q) == phase[q] \in {"sending", "flushing", "ignoring", "late"}
LEMMA Unaffected ==
  ASSUME TypeOK, StreamInv, Stream' = Stream,
         UNCHANGED <<closed, request, reader, cancelTimer, toServer, serving>>,
         \A q \in Requests : /\ SentOff(q)' <=> SentOff(q)
                             /\ InSending(q)' => InSending(q)
                             /\ "sent" \in onCancel'[q] <=> "sent" \in onCancel[q]
                             /\ canceled[q] => canceled'[q],
         \/ parser' = parser
         \/ /\ parser # None /\ parser' # None
            /\ parser'.kind = parser.kind /\ parser'.req = parser.req
  PROVE  StreamInv'
<1> SUFFICES ASSUME ~closed PROVE StreamInv'
  BY DEF StreamInv
<1>1. OthersNotSending' /\ (request' = None => NothingOwed')
  BY DEF StreamInv, OthersNotSending, InSending, NothingOwed
<1>2. ASSUME NEW r \in Requests, request = r
      PROVE  (\/ BeingSent(r) \/ AwaitsResponse(r) \/ ReadsResponse(r)
              \/ SkipsResponse(r) \/ AwaitsAck(r) \/ ReadsAck(r))'
  <2>1. /\ AttentionOut(r)' <=> AttentionOut(r)
        /\ SentOff(r)' <=> SentOff(r)
    BY DEF AttentionOut
  <2>2. /\ NothingOwed' <=> NothingOwed
        /\ AckToSend(r)' <=> AckToSend(r)
        /\ AckToRead(r)' <=> AckToRead(r)
    BY DEF NothingOwed, AckToSend, AckToRead
  <2>3. ResponseOwed(r) => ResponseOwed(r)'
    <3>1. \A out \in BOOLEAN : Owing(r, out) => Owing(r, out)'
      BY DEF Owing, Unserved, Served, Answered, Acknowledged
    <3> HIDE DEF Owing, AttentionOut
    <3> QED
      BY <2>1, <3>1 DEF ResponseOwed
  <2>4. \A kind : Parsing(kind)' <=> Parsing(kind)
    BY DEF Parsing
  <2>5. parser # None => parser' # None /\ parser'.req = parser.req
    OBVIOUS
  <2>6. parser' = None <=> parser = None
    OBVIOUS
  <2>7. "sent" \in onCancel'[r] <=> "sent" \in onCancel[r]
    OBVIOUS
  <2>8. \/ BeingSent(r) \/ AwaitsResponse(r) \/ ReadsResponse(r)
        \/ SkipsResponse(r) \/ AwaitsAck(r) \/ ReadsAck(r)
    BY <1>2 DEF StreamInv
  <2> HIDE DEF SentOff, AttentionOut, ResponseOwed, NothingOwed, AckToSend, AckToRead
  <2>9. BeingSent(r) => BeingSent(r)'
    BY <2>1, <2>2, <2>6, <2>7 DEF BeingSent
  <2>10. AwaitsResponse(r) => AwaitsResponse(r)'
    BY <2>1, <2>3, <2>6 DEF AwaitsResponse
  <2>11. ReadsResponse(r) => ReadsResponse(r)'
    BY <2>1, <2>3, <2>4 DEF ReadsResponse
  <2>12. SkipsResponse(r) => SkipsResponse(r)'
    BY <2>1, <2>3, <2>4, <2>5 DEF SkipsResponse, Parsing
  <2>13. AwaitsAck(r) => AwaitsAck(r)'
    BY <2>1, <2>2, <2>6 DEF AwaitsAck
  <2>14. ReadsAck(r) => ReadsAck(r)'
    BY <2>1, <2>2, <2>4, <2>5 DEF ReadsAck, Parsing
  <2> QED
    BY <2>8, <2>9, <2>10, <2>11, <2>12, <2>13, <2>14
<1> QED
  BY <1>1, <1>2 DEF StreamInv

LEMMA AppendShort == \A a, b : Append(<<>>, b) = <<b>> /\ Append(<<a>>, b) = <<a, b>>
<1> TAKE a, b
<1>1. <<>> \in Seq({a, b}) /\ <<a>> \in Seq({a, b}) /\ <<a, b>> \in Seq({a, b})
  OBVIOUS
<1>2. Append(<<a>>, b) = <<a, b>>
  <2> DEFINE s == Append(<<a>>, b)
             t == <<a, b>>
  <2>1. s \in Seq({a, b}) /\ t \in Seq({a, b}) /\ Len(s) = Len(t)
    BY <1>1
  <2>2. \A i \in 1 .. Len(s) : s[i] = t[i]
    BY <1>1
  <2> HIDE DEF s, t
  <2>3. s = t
    BY <2>1, <2>2, SeqEqual
  <2> QED
    BY <2>3 DEF s, t
<1> QED
  BY <1>1, <1>2

\* A cancel before the message is sent off changes nothing on the link; after
\* that it puts an attention behind the request.
LEMMA EmitCancelOwes ==
  ASSUME HasCancelTimeout, TypeOK, RequestInv, StreamInv, ~closed, NEW r \in Requests,
         outcome[r] = "none", ~canceled[r], NEW err \in Errors \cup {"none"},
         EmitCancel(r, err), UNCHANGED <<request, closed, serving, net, inbox>>
  PROVE  StreamInv'
<1>1. /\ onCancel' = [onCancel EXCEPT ![r] = {}] /\ onCancel'[r] = {}
      /\ canceled'[r] /\ \A q \in Requests : canceled[q] => canceled'[q]
      /\ \A q \in Requests : /\ SentOff(q)' <=> SentOff(q)
                             /\ InSending(q)' <=> InSending(q)
      /\ \A q \in Requests : q # r => onCancel'[q] = onCancel[q]
      /\ Stream' = Stream
  BY DEF EmitCancel, TypeOK, SentOff, InSending, Stream
<1>2. CASE "sent" \notin onCancel[r]
  <2>1. UNCHANGED <<toServer, cancelTimer>>
    BY <1>2 DEF EmitCancel
  <2>2. "reading" \notin onCancel[r] => UNCHANGED <<parser, reader>>
    BY DEF EmitCancel
  <2>3. \A q \in Requests : "sent" \in onCancel'[q] <=> "sent" \in onCancel[q]
    BY <1>1, <1>2
  <2>4. ASSUME "reading" \in onCancel[r] PROVE FALSE
    <3>1. request = r /\ Parsing("response") /\ parser # None
      BY <2>4 DEF RequestInv, ListenersMade, OnePending, ReadingHeard, Parsing
    <3>2. ~Parsing("discard") /\ ~Parsing("attention")
      BY <3>1 DEF Parsing
    <3>3. ReadsResponse(r)
      BY <3>1, <3>2 DEF StreamInv, BeingSent, AwaitsResponse, SkipsResponse,
                        AwaitsAck, ReadsAck
    <3> QED
      BY <1>2, <3>3 DEF ReadsResponse, AttentionOut
  <2> QED
    BY <1>1, <2>1, <2>2, <2>3, <2>4, Unaffected
<1>3. CASE "sent" \in onCancel[r]
  <2>1. /\ cancelTimer' /\ toServer' = Append(toServer, Message("attention", r))
    BY <1>3 DEF EmitCancel, CancelAfterRequestSent, Write, Message
  <2>2. request = r /\ phase[r] # "new"
    BY <1>3 DEF RequestInv, ListenersMade, OnePending
  <2>3. SentOff(r) /\ ~AttentionOut(r) /\ Owing(r, FALSE)
    <3>1. ~AttentionOut(r)
      BY <1>3 DEF AttentionOut
    <3>2. AwaitsResponse(r) \/ ReadsResponse(r)
      BY <1>3, <2>2, <3>1 DEF StreamInv, BeingSent, SkipsResponse, AwaitsAck, ReadsAck
    <3> QED
      BY <3>1, <3>2 DEF AwaitsResponse, ReadsResponse, ResponseOwed
  <2>4. SentOff(r)' /\ AttentionOut(r)'
    BY <1>1, <2>3 DEF AttentionOut
  <2>5. Owing(r, TRUE)'
    <3>1. CASE Unserved(r, FALSE)
      <4>1. PICK kind \in {"request", "ignored"} : toServer = <<Message(kind, r)>>
        BY <3>1 DEF Unserved
      <4>2. toServer' = <<Message(kind, r), Message("attention", r)>>
        BY AppendShort, <2>1, <4>1
      <4> QED
        BY <1>1, <3>1, <4>2 DEF Owing, Unserved
    <3>2. CASE Served(r, FALSE) \/ Answered(r, FALSE)
      <4>1. toServer' = <<Message("attention", r)>>
        BY AppendShort, <2>1, <3>2 DEF Served, Answered, Attention
      <4> QED
        BY <1>1, <3>2, <4>1 DEF Owing, Served, Answered, Attention
    <3> QED
      BY <2>3, <3>1, <3>2 DEF Owing, Acknowledged
  <2>6. OthersNotSending'
    BY <1>1 DEF StreamInv, OthersNotSending, InSending
  <2>7. AwaitsResponse(r)' \/ SkipsResponse(r)'
    <3>1. ResponseOwed(r)'
      BY <2>4, <2>5 DEF ResponseOwed
    <3>2. CASE "reading" \in onCancel[r]
      <4>1. parser # None /\ parser.req = r /\ parser \in Parsers
        BY <2>2, <3>2 DEF RequestInv, ReadingHeard, Parsing, TypeOK
      <4>2. /\ reader' = "attention"
            /\ parser' = [kind |-> "discard", req |-> r, paused |-> FALSE]
        BY <3>2, <4>1 DEF EmitCancel, GiveUpResponse
      <4>3. parser' \in Parsers
        BY <4>2 DEF Parsers
      <4> QED
        BY <2>4, <3>1, <4>2, <4>3, NoneAssumption DEF SkipsResponse, Parsing
    <3>3. CASE "reading" \notin onCancel[r]
      <4>1. UNCHANGED <<parser, reader>>
        BY <3>3 DEF EmitCancel
      <4>2. ~ReadsResponse(r)
        BY <2>2, <3>3 DEF ReadsResponse, RequestInv, ResponseOwned, ResponseLive, ResponseDead,
                          FinalIsClosed
      <4>3. AwaitsResponse(r)
        BY <2>2, <2>3, <4>2, <1>3 DEF StreamInv, BeingSent, SkipsResponse, AwaitsAck, ReadsAck
      <4> QED
        BY <1>1, <2>1, <2>4, <3>1, <4>1, <4>3 DEF AwaitsResponse
    <3> QED
      BY <3>2, <3>3
  <2> QED
    BY <2>2, <2>6, <2>7, ConstantsAssumption DEF StreamInv, ConstantsAssumption
<1> QED
  BY <1>2, <1>3

LEMMA UserOwes ==
  ASSUME CarefulUser, HasCancelTimeout, TypeOK, RequestInv, StreamInv, ~closed,
         NEW r \in Requests, User(r)
  PROVE  StreamInv'
<1> USE DEF connection, reading, requests, link
<1>1. CASE MakeRequest(r)
  <2>1. CASE request' = request
    <3>1. UNCHANGED <<connection, reading, phase, onCancel, canceled, link>>
      BY <1>1, <2>1, ConstantsAssumption
      DEF MakeRequest, RequestInv, InFlightHasRequest, InFlight, ConstantsAssumption
    <3> QED
      BY <3>1, Unaffected DEF Stream, SentOff, InSending
  <2>2. CASE request' # request
    <3>1. /\ state = "LOGGED_IN" /\ request' = r /\ reader' = "request" /\ parser' = parser
          /\ phase' = [phase EXCEPT ![r] = "sending"]
          /\ onCancel' = [onCancel EXCEPT ![r] = {"sending"}]
          /\ UNCHANGED <<closed, cancelTimer, link>>
      BY <1>1, <2>2 DEF MakeRequest
    <3>2. request = None /\ parser = None /\ ~cancelTimer
      BY <3>1
      DEF RequestInv, InFlightHasRequest, InFlight, IdleReadsNothing, CancelTimerOwned
    <3>3. NothingOwed' /\ parser' = None
      BY <3>1, <3>2 DEF StreamInv, NothingOwed, Stream
    <3>4. phase'[r] = "sending" /\ onCancel'[r] = {"sending"}
      BY <3>1 DEF TypeOK
    <3>5. BeingSent(r)'
      BY <3>1, <3>2, <3>3, <3>4 DEF BeingSent, SentOff
    <3>6. OthersNotSending'
      BY <3>1, <3>2, ConstantsAssumption
      DEF StreamInv, OthersNotSending, TypeOK, ConstantsAssumption
    <3> QED
      BY <3>1, <3>3, <3>5, <3>6 DEF StreamInv
  <2> QED
    BY <2>1, <2>2
<1>2. CASE Cancel(r)
  <2>1. outcome[r] = "none" /\ ~canceled[r] /\ EmitCancel(r, "none")
    BY <1>2 DEF Cancel, MayCall, CarefulUser
  <2> QED
    BY <1>2, <2>1, EmitCancelOwes DEF Cancel
<1>3. CASE Pause(r) \/ Resume(r)
  <2>1. UNCHANGED <<connection, reader, phase, onCancel, canceled, link>>
    BY <1>3 DEF Pause, Resume
  <2>2. \/ parser' = parser
        \/ /\ parser # None /\ parser' # None
           /\ parser'.kind = parser.kind /\ parser'.req = parser.req
    <3>1. CASE parser = None
      BY <1>3, <3>1 DEF Pause, Resume
    <3>2. CASE parser \in Parsers
      <4>1. CASE parser' # parser
        <5>1. \E p \in BOOLEAN : parser' = [parser EXCEPT !.paused = p]
          BY <1>3, <4>1 DEF Pause, Resume
        <5>2. parser' \in Parsers /\ parser'.kind = parser.kind /\ parser'.req = parser.req
          BY <3>2, <5>1 DEF Parsers
        <5> QED
          BY <3>2, <5>2, NoneAssumption
      <4> QED
        BY <4>1
    <3> QED
      BY <3>1, <3>2 DEF TypeOK
  <2> QED
    BY <2>1, <2>2, Unaffected DEF Stream, SentOff, InSending
<1> QED
  BY <1>1, <1>2, <1>3 DEF User

LEMMA SendingOwes ==
  ASSUME TypeOK, RequestInv, StreamInv, ~closed, NEW r \in Requests,
         Sending(r) \/ PayloadError(r)
  PROVE  StreamInv'
<1> USE DEF connection, reading, requests, link
<1>1. CASE EndPayload(r) \/ PayloadError(r)
  <2>1. /\ UNCHANGED <<connection, reader, parser, onCancel, canceled, link>>
        /\ InSending(r) /\ InSending(r)' /\ ~SentOff(r) /\ ~SentOff(r)'
        /\ \A q \in Requests : q # r => phase'[q] = phase[q]
    BY <1>1 DEF EndPayload, PayloadError, TypeOK, SentOff, InSending
  <2> QED
    BY <2>1, Unaffected DEF Stream, SentOff, InSending
<1>2. CASE FinishMessage(r)
  <2>1. PICK kind \in {"request", "ignored"} : Write(kind, r)
    BY <1>2 DEF FinishMessage
  <2>2. request = r
    BY <1>2 DEF FinishMessage, StreamInv, OthersNotSending
  <2>3. BeingSent(r)
    BY <1>2, <2>2 DEF FinishMessage, StreamInv, AwaitsResponse, ReadsResponse, SkipsResponse,
                      AwaitsAck, ReadsAck, SentOff, AttentionOut
  <2>4. /\ UNCHANGED <<connection, reader, parser, serving, net, inbox>>
        /\ SentOff(r)' /\ "sent" \in onCancel'[r]
        /\ \A q \in Requests : q # r => phase'[q] = phase[q]
    BY <1>2 DEF FinishMessage, TypeOK, SentOff
  <2>5. toServer' = <<Message(kind, r)>>
    BY <2>1, <2>3, AppendShort DEF Write, BeingSent, NothingOwed, Message
  <2>6. Unserved(r, FALSE)'
    BY <2>3, <2>4, <2>5 DEF BeingSent, NothingOwed, Unserved, Stream
  <2>7. AwaitsResponse(r)'
    BY <2>3, <2>4, <2>6 DEF BeingSent, AwaitsResponse, AttentionOut, ResponseOwed, Owing
  <2>8. OthersNotSending'
    BY <2>2, <2>4 DEF StreamInv, OthersNotSending
  <2> QED
    BY <2>2, <2>4, <2>7, <2>8, ConstantsAssumption DEF StreamInv, ConstantsAssumption
<1> QED
  BY <1>1, <1>2 DEF Sending

LEMMA RequestTimeoutOwes ==
  ASSUME HasCancelTimeout, TypeOK, RequestInv, StreamInv, ~closed, RequestTimeout
  PROVE  StreamInv'
<1>1. request \in Requests /\ outcome[request] = "none"
  BY DEF RequestTimeout, TypeOK, RequestInv, OnePending
<1>2. CASE canceled[request]
  <2>1. UNCHANGED <<request, closed, reader, parser, cancelTimer, phase, onCancel, canceled,
                    toServer, serving, net, inbox>>
    BY <1>2 DEF RequestTimeout
  <2> QED
    BY <2>1, Unaffected DEF Stream, SentOff, InSending
<1>3. CASE ~canceled[request]
  <2>1. /\ EmitCancel(request, "ETIMEOUT") /\ "ETIMEOUT" \in Errors \cup {"none"}
        /\ UNCHANGED <<request, closed, serving, net, inbox>>
    BY <1>3 DEF RequestTimeout, Errors
  <2> QED
    BY <1>1, <1>3, <2>1, EmitCancelOwes
<1> QED
  BY <1>2, <1>3

LEMMA GotMessageOwes ==
  ASSUME TypeOK, RequestInv, StreamInv, ~closed, GotResponse \/ GotAttentionMessage
  PROVE  StreamInv'
<1> USE DEF connection, reading, requests, link
<1> DEFINE r == request
<1>0. /\ OthersNotSending' /\ Stream' = Stream
      /\ UNCHANGED <<request, closed, phase, canceled, cancelTimer, toServer, serving>>
  BY DEF GotResponse, GotAttentionMessage, StreamInv, OthersNotSending, Stream, ParseResponse
<1>1. Stream # <<>>
  BY StreamHead DEF GotResponse, GotAttentionMessage, MessageReady
<1>2. parser = None /\ reader \in {"request", "attention"} /\ state # "FINAL"
  BY DEF GotResponse, GotAttentionMessage, MessageReady, RequestInv, FinalIsClosed
<1>3. r \in Requests
  BY <1>2 DEF RequestInv, ReaderAwaits, InFlightHasRequest, InFlight, TypeOK
<1>4. ~NothingOwed /\ ~AckToSend(r) /\ ~Unserved(r, TRUE) /\ ~Unserved(r, FALSE)
  BY <1>1 DEF NothingOwed, AckToSend, Unserved
<1>5. SentOff(r)' <=> SentOff(r)
  BY <1>0 DEF SentOff
<1>6. /\ \A out \in BOOLEAN : Owing(r, out) => Owing(r, out)'
      /\ AckToRead(r) => AckToRead(r)'
  BY <1>0 DEF Owing, Unserved, Served, Answered, Acknowledged, AckToRead
<1>7. CASE GotResponse
  <2>1. AwaitsResponse(r)
    BY <1>2, <1>3, <1>4, <1>7
    DEF StreamInv, BeingSent, ReadsResponse, SkipsResponse, AwaitsAck, ReadsAck, Parsing,
        GotResponse
  <2>2. "sent" \in onCancel'[r] <=> "sent" \in onCancel[r]
    BY <1>3, <1>7 DEF GotResponse, ParseResponse, TypeOK
  <2>3. AttentionOut(r)' <=> AttentionOut(r)
    BY <1>0, <1>5, <2>2 DEF AttentionOut
  <2>4. ResponseOwed(r)'
    BY <1>6, <2>1, <2>3 DEF AwaitsResponse, ResponseOwed
  <2>5. PICK kind \in {"response", "discard"}, p \in BOOLEAN :
          parser' = [kind |-> kind, req |-> r, paused |-> p]
    BY <1>3, <1>7 DEF GotResponse, ParseResponse, TypeOK
  <2>6. parser' # None /\ parser'.kind = kind /\ parser'.req = r
    BY <1>3, <2>5, NoneAssumption DEF Parsers
  <2>7. CASE canceled[r] /\ cancelTimer
    <3>1. /\ parser' = [kind |-> "discard", req |-> r, paused |-> FALSE]
          /\ reader' = "attention"
      BY <1>7, <2>7 DEF GotResponse
    <3>2. parser'.kind = "discard"
      BY <3>1
    <3>3. SkipsResponse(r)'
      <4> HIDE DEF SentOff, AttentionOut, ResponseOwed
      <4> QED
        BY <1>0, <1>5, <2>1, <2>3, <2>4, <2>6, <2>7, <3>1, <3>2
        DEF AwaitsResponse, SkipsResponse, Parsing
    <3> QED
      BY <1>0, <1>3, <3>3, ConstantsAssumption DEF StreamInv, ConstantsAssumption
  <2>8. CASE ~(canceled[r] /\ cancelTimer)
    <3>1. parser' = [kind |-> "response", req |-> r, paused |-> paused[r]]
      BY <1>7, <2>8 DEF GotResponse, ParseResponse
    <3>2. parser'.kind = "response"
      BY <3>1
    <3>3. ReadsResponse(r)'
      <4> HIDE DEF SentOff, AttentionOut, ResponseOwed
      <4> QED
        BY <1>0, <1>5, <2>1, <2>3, <2>4, <2>6, <2>8, <3>2
        DEF AwaitsResponse, ReadsResponse, Parsing
    <3> QED
      BY <1>0, <1>3, <3>3, ConstantsAssumption DEF StreamInv, ConstantsAssumption
  <2> QED
    BY <2>7, <2>8
<1>8. CASE GotAttentionMessage
  <2>1. AwaitsAck(r) /\ AckToRead(r)
    BY <1>2, <1>3, <1>4, <1>8
    DEF StreamInv, BeingSent, AwaitsResponse, ReadsResponse, SkipsResponse, AwaitsAck, ReadsAck,
        Parsing, GotAttentionMessage
  <2>2. /\ parser' = [kind |-> "attention", req |-> r, paused |-> FALSE]
        /\ parser' \in Parsers
    BY <1>3, <1>8 DEF GotAttentionMessage, Parsers
  <2>3. parser' # None /\ parser'.kind = "attention" /\ parser'.req = r
    BY <2>2, NoneAssumption
  <2>4. AttentionOut(r)'
    BY <1>5, <1>8, <2>1 DEF GotAttentionMessage, AwaitsAck, AttentionOut
  <2>5. ReadsAck(r)'
    <3> HIDE DEF AckToRead, AttentionOut
    <3> QED
      BY <1>0, <1>6, <2>1, <2>3, <2>4 DEF ReadsAck, Parsing
  <2> QED
    BY <1>0, <1>3, <2>5, ConstantsAssumption DEF StreamInv, ConstantsAssumption
<1> QED
  BY <1>7, <1>8

\* The parser at work is that of the request in flight.
LEMMA ParserOfRequest ==
  ASSUME TypeOK, RequestInv, StreamInv, ~closed, TokenReady
  PROVE  /\ request \in Requests /\ parser # None /\ parser.req = request
         /\ parser.kind = "response" => ReadsResponse(request)
         /\ parser.kind = "discard" => SkipsResponse(request)
         /\ parser.kind = "attention" => ReadsAck(request)
         /\ parser.kind \in {"response", "discard", "attention"}
         /\ ~NothingOwed /\ ~AckToSend(request)
         /\ ~Unserved(request, TRUE) /\ ~Unserved(request, FALSE)
<1>1. parser \in Parsers /\ parser # None /\ state # "FINAL"
  BY DEF TokenReady, TypeOK, RequestInv, FinalIsClosed
<1>2. parser.kind \in {"response", "discard", "attention"}
  BY <1>1 DEF Parsers
<1>3. request \in Requests
  BY <1>1, <1>2 DEF RequestInv, ResponseOwned, AttentionOwned, ResponseLive, ResponseDead,
                    Parsing, InFlightHasRequest, InFlight, TypeOK
<1>4. Stream # <<>>
  BY StreamHead DEF TokenReady
<1>5. /\ ~NothingOwed /\ ~AckToSend(request)
      /\ ~Unserved(request, TRUE) /\ ~Unserved(request, FALSE)
  BY <1>4 DEF NothingOwed, AckToSend, Unserved
<1>6. ReadsResponse(request) \/ SkipsResponse(request) \/ ReadsAck(request)
  BY <1>1, <1>3, <1>5 DEF StreamInv, BeingSent, AwaitsResponse, AwaitsAck
<1>7. parser.kind = "response" => parser.req = request
  BY <1>1 DEF RequestInv, ResponseOwned, ResponseLive, ResponseDead, Parsing
<1> QED
  BY <1>1, <1>2, <1>3, <1>5, <1>6, <1>7 DEF ReadsResponse, SkipsResponse, ReadsAck, Parsing

\* What is owed when the first token of a response has been handled.
LEMMA TokenHandled ==
  ASSUME TypeOK, HandleToken, NEW r, NEW out \in BOOLEAN, Owing(r, out),
         ~Unserved(r, out)
  PROVE  /\ Token.req = r /\ Token.kind # "ack"
         /\ Token.kind = "row" => Owing(r, out)'
         /\ Token.kind # "row" /\ out => AckToSend(r)' \/ AckToRead(r)'
         /\ Token.kind # "row" /\ ~out => NothingOwed'
<1>1. inbox # <<>> /\ UNCHANGED <<toServer, serving>> /\ inbox' = Tail(inbox) /\ net' = net
  BY DEF HandleToken, TokenReady
<1>2. /\ Stream \in Seq(Tokens) /\ Len(Stream) > 0 /\ Len(Stream) \in Nat
      /\ Token = Head(Stream) /\ Token = Stream[1] /\ Stream' = Tail(Stream)
  BY <1>1, StreamHead, LenProperties DEF Token, Stream
<1>3. /\ Len(Stream') = Len(Stream) - 1
      /\ \A i \in 1 .. Len(Stream) - 1 : Stream'[i] = Stream[i + 1]
  BY <1>2
<1>4. CASE Served(r, out)
  <2>1. Token.req = r /\ Token.kind = "row"
    BY <1>2, <1>4 DEF Served
  <2>2. Served(r, out)'
    BY <1>1, <1>2, <1>3, <1>4 DEF Served, Attention
  <2> QED
    BY <2>1, <2>2 DEF Owing
<1>5. CASE Answered(r, out)
  <2>1. /\ Token.req = r /\ Token.kind # "ack"
        /\ Token.kind = "row" => ResponseUpTo(Stream', Len(Stream'), r)
        /\ Token.kind # "row" => Len(Stream) = 1
    <3>1. ResponseUpTo(Stream, Len(Stream), r)
      BY <1>5 DEF Answered
    <3>2. /\ Head(Stream).req = r /\ Head(Stream).kind # "ack"
          /\ Head(Stream).kind = "row" => ResponseUpTo(Tail(Stream), Len(Stream) - 1, r)
          /\ Head(Stream).kind # "row" => Len(Stream) = 1
      BY <1>2, <3>1, ResponseGoesOn
    <3> QED
      BY <1>2, <1>3, <3>2
  <2>2. Token.kind = "row" => Answered(r, out)'
    BY <1>1, <1>5, <2>1 DEF Answered, Attention
  <2>3. Token.kind # "row" => Stream' = <<>>
    BY <1>2, <1>3, <2>1
  <2> QED
    BY <1>1, <1>5, <2>1, <2>2, <2>3 DEF Owing, Answered, Attention, AckToSend, NothingOwed
<1>6. CASE Acknowledged(r, out)
  <2>1. /\ Token.req = r /\ Token.kind # "ack"
        /\ Token.kind = "row" => Len(Stream) > 2 /\ ResponseUpTo(Stream', Len(Stream') - 1, r)
        /\ Token.kind # "row" => Len(Stream) = 2
    <3>1. ResponseUpTo(Stream, Len(Stream) - 1, r)
      BY <1>6 DEF Acknowledged
    <3>2. /\ Head(Stream).req = r /\ Head(Stream).kind # "ack"
          /\ Head(Stream).kind = "row" =>
               Len(Stream) - 1 > 1 /\ ResponseUpTo(Tail(Stream), (Len(Stream) - 1) - 1, r)
          /\ Head(Stream).kind # "row" => Len(Stream) - 1 = 1
      BY <1>2, <3>1, ResponseGoesOn
    <3> QED
      BY <1>2, <1>3, <3>2
  <2>2. Len(Stream) > 1 /\ Stream'[Len(Stream')] = ToClient("ack", r)
    BY <1>2, <1>3, <1>6 DEF Acknowledged, ResponseUpTo
  <2>3. Token.kind = "row" => Acknowledged(r, out)'
    BY <1>1, <1>6, <2>1, <2>2 DEF Acknowledged, ToClient
  <2>4. Token.kind # "row" => Stream' = <<ToClient("ack", r)>>
    <3>1. /\ Stream' \in Seq(Tokens)
          /\ Token.kind # "row" => Len(Stream') = 1 /\ Stream'[1] = ToClient("ack", r)
      BY <1>2, <1>3, <2>1, <2>2
    <3> HIDE DEF Stream
    <3> QED
      BY <3>1, LenProperties
  <2> QED
    BY <1>1, <1>6, <2>1, <2>3, <2>4 DEF Owing, Acknowledged, AckToRead, ToClient
<1> QED
  BY <1>4, <1>5, <1>6 DEF Owing

LEMMA RowOwes ==
  ASSUME TypeOK, RequestInv, StreamInv, ~closed, HandleRow
  PROVE  StreamInv'
<1> USE DEF connection, reading, requests, link
<1> DEFINE r == request
<1>1. /\ HandleToken /\ TokenReady /\ Token.kind = "row" /\ parser' = parser
      /\ UNCHANGED <<connection, reader, phase, onCancel, canceled>>
  BY DEF HandleRow, HandleToken
<1>2. /\ r \in Requests /\ ~Unserved(r, TRUE) /\ ~Unserved(r, FALSE) /\ parser # None
      /\ ReadsResponse(r) \/ SkipsResponse(r) \/ ReadsAck(r)
  BY <1>1, ParserOfRequest
<1>3. ~ReadsAck(r)
  BY <1>1, StreamHead DEF ReadsAck, AckToRead, Token, TokenReady, ToClient
<1>4. AttentionOut(r)' = AttentionOut(r) /\ SentOff(r)' = SentOff(r)
  BY <1>1 DEF AttentionOut, SentOff
<1>5. ResponseOwed(r)'
  <2>1. \A out \in BOOLEAN : Owing(r, out) => Owing(r, out)'
    BY <1>1, <1>2, TokenHandled
  <2> HIDE DEF AttentionOut
  <2> QED
    BY <1>2, <1>3, <1>4, <2>1 DEF ReadsResponse, SkipsResponse, ResponseOwed
<1>6. ReadsResponse(r)' \/ SkipsResponse(r)'
  <2>1. (Parsing("response") => Parsing("response")') /\ (Parsing("discard") => Parsing("discard")')
    BY <1>1 DEF Parsing
  <2> HIDE DEF AttentionOut, SentOff
  <2> QED
    BY <1>1, <1>2, <1>3, <1>4, <1>5, <2>1 DEF ReadsResponse, SkipsResponse
<1> QED
  BY <1>1, <1>2, <1>6, ConstantsAssumption
  DEF StreamInv, OthersNotSending, ConstantsAssumption

LEMMA EndOwes ==
  ASSUME TypeOK, RequestInv, StreamInv, ~closed,
         EndOfMessage \/ EndOfDiscarded \/ EndOfAttention
  PROVE  StreamInv'
<1> USE DEF connection, reading, requests, link
<1> PICK r : r = request
  OBVIOUS
<1>1. HandleToken /\ TokenReady /\ Token.kind # "row" /\ UNCHANGED <<closed, phase>>
  BY DEF HandleToken, EndOfMessage, EndOfDiscarded, EndOfAttention
<1>2. /\ r \in Requests /\ ~Unserved(r, TRUE) /\ ~Unserved(r, FALSE) /\ r # None
  BY <1>1, ParserOfRequest, ConstantsAssumption DEF ConstantsAssumption
<1>3. ASSUME request' = None, SentOff(r) PROVE OthersNotSending'
  BY <1>1, <1>2, <1>3 DEF StreamInv, OthersNotSending, SentOff
<1>4. CASE EndOfMessage
  <2>1. ReadsResponse(r)
    BY <1>1, <1>4, ParserOfRequest DEF EndOfMessage
  <2>2. NothingOwed'
    BY <1>1, <1>2, <2>1, TokenHandled DEF ReadsResponse, ResponseOwed
  <2>3. request' = None /\ SentOff(r)
    BY <1>4, <2>1 DEF EndOfMessage, ReadsResponse
  <2> QED
    BY <1>3, <2>2, <2>3, ConstantsAssumption DEF StreamInv, ConstantsAssumption
<1>5. CASE EndOfDiscarded
  <2>1. SkipsResponse(r)
    BY <1>1, <1>5, ParserOfRequest DEF EndOfDiscarded
  <2>2. AckToSend(r)' \/ AckToRead(r)'
    BY <1>1, <1>2, <2>1, TokenHandled DEF SkipsResponse, ResponseOwed
  <2>3. UNCHANGED <<request, reader, onCancel>> /\ parser' = None
    BY <1>5 DEF EndOfDiscarded
  <2>4. AwaitsAck(r)'
    BY <1>1, <2>1, <2>2, <2>3 DEF SkipsResponse, AwaitsAck, AttentionOut, SentOff
  <2> QED
    BY <1>1, <1>2, <2>3, <2>4 DEF StreamInv, OthersNotSending
<1>6. CASE EndOfAttention
  <2>1. ReadsAck(r)
    BY <1>1, <1>6, ParserOfRequest DEF EndOfAttention
  <2>2. inbox # <<>> /\ UNCHANGED <<toServer, serving>> /\ inbox' = Tail(inbox) /\ net' = net
    BY <1>1 DEF HandleToken, TokenReady
  <2>3. Stream = <<ToClient("ack", r)>> /\ Token = Head(Stream) /\ Stream' = Tail(Stream)
    BY <2>1, <2>2, StreamHead DEF ReadsAck, AckToRead, Token, Stream
  <2>4. Token.kind = "ack" /\ Stream' = <<>>
    BY <2>3 DEF ToClient
  <2>5. NothingOwed'
    BY <2>1, <2>2, <2>4 DEF ReadsAck, AckToRead, NothingOwed
  <2>6. request' = None /\ SentOff(r)
    BY <1>6, <2>1, <2>4 DEF EndOfAttention, AttentionReceived, ReadsAck, AttentionOut
  <2> QED
    BY <1>3, <2>5, <2>6, ConstantsAssumption DEF StreamInv, ConstantsAssumption
<1> QED
  BY <1>4, <1>5, <1>6

LEMMA ServerOwes ==
  ASSUME TypeOK, RequestInv, StreamInv, ~closed, Server
  PROVE  StreamInv'
<1> USE DEF connection, reading, requests
<1> PICK r : r = request
  OBVIOUS
<1>1. UNCHANGED <<connection, reading, requests>>
  BY DEF Server, ServerTakes, ServerRow, ServerDone
<1>2. r \in Requests
  <2>1. ~NothingOwed
    BY DEF NothingOwed, Server, ServerTakes, ServerRow, ServerDone
  <2> QED
    BY <2>1 DEF StreamInv, TypeOK
<1>3. /\ ~NothingOwed
      /\ \A out \in BOOLEAN : Owing(r, out) => Owing(r, out)'
      /\ AckToSend(r) => AckToRead(r)'
      /\ ~AckToRead(r)
  BY <1>2, ServerAnswers
<1>4. SentOff(r)' = SentOff(r) /\ AttentionOut(r)' = AttentionOut(r)
  BY <1>1 DEF SentOff, AttentionOut
<1>5. ResponseOwed(r) => ResponseOwed(r)'
  <2> HIDE DEF AttentionOut
  <2> QED
    BY <1>3, <1>4 DEF ResponseOwed
<1>6. \A kind : Parsing(kind)' = Parsing(kind)
  BY <1>1 DEF Parsing
<1>7. AwaitsResponse(r) \/ ReadsResponse(r) \/ SkipsResponse(r) \/ AwaitsAck(r)
  BY <1>2, <1>3 DEF StreamInv, BeingSent, ReadsAck
<1>8. AwaitsResponse(r)' \/ ReadsResponse(r)' \/ SkipsResponse(r)' \/ AwaitsAck(r)'
  <2> HIDE DEF AttentionOut, SentOff, ResponseOwed
  <2>1. AwaitsResponse(r) => AwaitsResponse(r)'
    BY <1>1, <1>4, <1>5 DEF AwaitsResponse
  <2>2. ReadsResponse(r) => ReadsResponse(r)'
    BY <1>1, <1>4, <1>5, <1>6 DEF ReadsResponse
  <2>3. SkipsResponse(r) => SkipsResponse(r)'
    BY <1>1, <1>4, <1>5, <1>6 DEF SkipsResponse
  <2>4. AwaitsAck(r) => AwaitsAck(r)'
    BY <1>1, <1>3, <1>4 DEF AwaitsAck
  <2> QED
    BY <1>7, <2>1, <2>2, <2>3, <2>4
<1> QED
  BY <1>1, <1>2, <1>8, ConstantsAssumption DEF StreamInv, OthersNotSending, ConstantsAssumption

LEMMA StreamNext ==
  ASSUME CarefulUser, HasCancelTimeout, TypeOK, RequestInv, StreamInv, [Next]_vars
  PROVE  StreamInv'
<1> USE DEF connection, reading, requests, link
<1>1. SUFFICES ASSUME ~closed, ~closed' PROVE StreamInv'
  <2>1. closed' => StreamInv'
    BY DEF StreamInv
  <2>2. ASSUME \E r \in Requests : User(r) \/ Sending(r) \/ PayloadError(r), closed PROVE closed'
    BY <2>2 DEF User, Sending, MakeRequest, Cancel, Pause, Resume, EndPayload, FinishMessage,
                PayloadError
  <2>3. ASSUME Close \/ RequestTimeout \/ CancelTimeout \/ SocketError \/ SocketEnd, closed PROVE closed'
    BY <2>3 DEF Close, RequestTimeout, CancelTimeout, SocketError, SocketEnd,
                SocketErrorEvent, CleanUp
  <2>4. ASSUME Reading, closed PROVE closed'
    BY <2>4 DEF Reading, GotResponse, GotAttentionMessage, HandleRow, EndOfMessage,
                EndOfDiscarded, EndOfAttention, ReaderFails, SocketErrorEvent, CleanUp
  <2>5. ASSUME Receive \/ Server \/ UNCHANGED vars, closed PROVE closed'
    BY <2>5 DEF Receive, Server, ServerTakes, ServerRow, ServerDone, vars
  <2>6. closed => closed'
    BY <2>2, <2>3, <2>4, <2>5 DEF Next
  <2> QED
    BY <2>1, <2>6
<1>2. CASE UNCHANGED vars
  BY <1>2, Unaffected DEF vars, Stream, SentOff, InSending
<1>3. CASE \E r \in Requests : User(r) \/ Sending(r) \/ PayloadError(r)
  BY <1>1, <1>3, UserOwes, SendingOwes
<1>4. CASE Close \/ CancelTimeout \/ SocketError \/ SocketEnd \/ ReaderFails
  BY <1>1, <1>4 DEF Close, CancelTimeout, SocketError, SocketEnd, ReaderFails, SocketErrorEvent,
                    CleanUp, RequestInv, FinalIsClosed
<1>5. CASE RequestTimeout
  BY <1>1, <1>5, RequestTimeoutOwes
<1>6. CASE Reading /\ ~ReaderFails
  BY <1>1, <1>6, GotMessageOwes, RowOwes, EndOwes DEF Reading
<1>7. CASE Receive
  <2>1. UNCHANGED <<connection, reader, parser, requests, toServer, serving>>
    BY <1>7 DEF Receive
  <2> QED
    BY <1>7, <2>1, ReceivedStays, Unaffected DEF SentOff, InSending
<1>8. CASE Server
  BY <1>1, <1>8, ServerOwes
<1> QED
  BY <1>2, <1>3, <1>4, <1>5, <1>6, <1>7, <1>8 DEF Next, Reading

LEMMA StreamInit == Init => StreamInv
  BY ConstantsAssumption
  DEF Init, StreamInv, OthersNotSending, NothingOwed, Stream, ConstantsAssumption

\* A response is read by the request it answers and no acknowledgement of an
\* attention is taken for one, if there is a cancel timer: without it the code
\* does not know of the attention when the response arrives (connection.ts:3542).
THEOREM ResponsesReachTheirRequest ==
  ASSUME CarefulUser, HasCancelTimeout PROVE Spec => []ResponsesMatch
<1>1. Init => StreamInv
  BY StreamInit
<1>2. (TypeOK /\ RequestInv) /\ StreamInv /\ [Next]_vars => StreamInv'
  BY StreamNext
<1>3. TypeOK /\ RequestInv /\ StreamInv => ResponsesMatch
  <2> SUFFICES ASSUME TypeOK, RequestInv, StreamInv, Stream # <<>>, ~closed
               PROVE  /\ reader = "request" /\ parser = None =>
                           Head(Stream).req = request /\ Head(Stream).kind # "ack"
                      /\ parser # None => Head(Stream).req = parser.req
                      /\ state # "LOGGED_IN"
    BY DEF ResponsesMatch
  <2> PICK r : r = request
    OBVIOUS
  <2>1. r \in Requests /\ state # "LOGGED_IN"
    BY DEF StreamInv, NothingOwed, TypeOK, RequestInv, InFlightHasRequest, InFlight
  <2>2. Stream \in Seq(Tokens) /\ Len(Stream) \in Nat /\ Len(Stream) > 0
        /\ Head(Stream) = Stream[1]
    BY ConcatProperties, EmptySeq, LenProperties DEF TypeOK, Stream
  <2>3. ASSUME NEW out \in BOOLEAN, Owing(r, out)
        PROVE  Head(Stream).req = r /\ Head(Stream).kind # "ack"
    BY <2>2, <2>3 DEF Owing, Unserved, Served, Answered, Acknowledged, ResponseUpTo
  <2>4. AckToRead(r) => Head(Stream).req = r
    BY <2>2 DEF AckToRead, ToClient
  <2>5. /\ ~BeingSent(r) /\ ~AckToSend(r)
        /\ ResponseOwed(r) => Head(Stream).req = r /\ Head(Stream).kind # "ack"
    BY <2>3 DEF BeingSent, NothingOwed, AckToSend, ResponseOwed
  <2>6. ReadsResponse(r) => parser.req = r
    BY DEF ReadsResponse, RequestInv, ResponseOwned, ResponseLive, ResponseDead, FinalIsClosed
  <2>7. \/ AwaitsResponse(r) \/ ReadsResponse(r) \/ SkipsResponse(r)
        \/ AwaitsAck(r) \/ ReadsAck(r)
    BY <2>1, <2>5 DEF StreamInv
  <2> QED
    BY <2>1, <2>4, <2>5, <2>6, <2>7
    DEF AwaitsResponse, ReadsResponse, SkipsResponse, AwaitsAck, ReadsAck, Parsing
<1> QED
  BY <1>1, <1>2, <1>3, RequestInvariant, PTL DEF Spec

---------------------------------------------------------------------------
(* With both timers a request that was sent off is never without one.      *)

\* The request in flight can be cancelled until it is sent off, and while its
\* response is awaited the request timer runs.  A cancel after that leaves the
\* attention's timer running (createRequestTimer, _cancelAfterRequestSent).
Timed(r) ==
  /\ reader = "request" /\ ~canceled[r] => requestTimer
  /\ phase[r] \in {"sending", "flushing"} => ~canceled[r] /\ "sending" \in onCancel[r]
  /\ phase[r] = "sent" /\ canceled[r] => cancelTimer
  /\ phase[r] = "sent" /\ ~canceled[r] => "sent" \in onCancel[r]
TimedInv == request \in Requests => Timed(request)

\* Without a request in flight nothing is awaited.
LEMMA NobodyTimed == ASSUME request' = None PROVE TimedInv'
  BY ConstantsAssumption DEF TimedInv, ConstantsAssumption

\* A step that leaves alone what Timed looks at.
LEMMA TimedStays ==
  ASSUME TimedInv, UNCHANGED <<request, requestTimer, cancelTimer, phase, canceled>>,
         reader' = reader \/ reader' # "request",
         request \in Requests =>
           onCancel[request] \cap {"sending", "sent"} \subseteq onCancel'[request]
  PROVE  TimedInv'
<1> SUFFICES ASSUME request' \in Requests PROVE Timed(request)'
  BY DEF TimedInv
<1>1. request' = request /\ Timed(request)
  BY DEF TimedInv
<1> QED
  BY <1>1 DEF Timed

LEMMA CleanUpTimes ==
  ASSUME TypeOK, RequestInv, NEW result, SocketErrorEvent(result) \/ CleanUp(result)
  PROVE  TimedInv'
<1>1. CASE state = "FINAL" /\ request' = request
  BY <1>1, NobodyTimed DEF RequestInv, InFlightHasRequest, InFlight
<1>2. CASE CleanUp(result)
  BY <1>2, NobodyTimed DEF CleanUp
<1> QED
  BY <1>1, <1>2 DEF SocketErrorEvent

\* A cancel of the request in flight, or of one that has no listeners.
LEMMA EmitCancelTimes ==
  ASSUME HasCancelTimeout, TypeOK, TimedInv,
         NEW r \in Requests, NEW err, ~canceled[r], EmitCancel(r, err),
         request' = request, r = request \/ onCancel[r] = {},
         r = request \/ requestTimer' = requestTimer
  PROVE  TimedInv'
<1>1. CASE r = request
  <2>1. canceled'[r] = TRUE
    BY DEF EmitCancel, TypeOK
  <2>2. phase'[r] \notin {"sending", "flushing"}
    BY <1>1 DEF EmitCancel, TypeOK, TimedInv, Timed
  <2>3. ASSUME phase'[r] = "sent" PROVE cancelTimer'
    <3>1. phase[r] = "sent" /\ "sent" \in onCancel[r]
      BY <1>1, <2>3 DEF EmitCancel, TypeOK, TimedInv, Timed
    <3>2. cancelTimer' = HasCancelTimeout
      BY <3>1 DEF EmitCancel, CancelAfterRequestSent
    <3> QED
      BY <3>2
  <2> QED
    BY <1>1, <2>1, <2>2, <2>3 DEF TimedInv, Timed
<1>2. CASE r # request /\ onCancel[r] = {} /\ requestTimer' = requestTimer
  <2>1. UNCHANGED <<cancelTimer, reader>>
    BY <1>2 DEF EmitCancel
  <2>2. ASSUME NEW q \in Requests, q = request
        PROVE  /\ canceled'[q] = canceled[q] /\ phase'[q] = phase[q]
               /\ onCancel'[q] = onCancel[q]
    BY <1>2, <2>2 DEF EmitCancel, TypeOK
  <2> QED
    BY <1>2, <2>1, <2>2 DEF TimedInv, Timed
<1> QED
  BY <1>1, <1>2

LEMMA UserTimes ==
  ASSUME CarefulUser, HasRequestTimeout, HasCancelTimeout, TypeOK, RequestInv, TimedInv,
         NEW r \in Requests, User(r)
  PROVE  TimedInv'
<1>1. CASE MakeRequest(r) /\ request' = r /\ state' = "SENT_CLIENT_REQUEST" /\ phase' # phase
  <2>1. /\ phase' = [phase EXCEPT ![r] = "sending"]
        /\ onCancel' = [onCancel EXCEPT ![r] = {"sending"}]
        /\ requestTimer' = HasRequestTimeout /\ ~canceled[r] /\ canceled' = canceled
    BY <1>1 DEF MakeRequest
  <2>2. phase'[r] = "sending" /\ onCancel'[r] = {"sending"} /\ requestTimer' /\ ~canceled'[r]
    BY <2>1 DEF TypeOK
  <2> QED
    BY <1>1, <2>2 DEF TimedInv, Timed
<1>2. CASE MakeRequest(r) /\ UNCHANGED <<connection, reading, phase, onCancel, canceled>>
  BY <1>2, TimedStays DEF connection, reading
<1>3. MakeRequest(r) =>
        \/ UNCHANGED <<connection, reading, phase, onCancel, canceled>>
        \/ request' = r /\ state' = "SENT_CLIENT_REQUEST" /\ phase' # phase
  BY DEF MakeRequest, TypeOK
<1>4. CASE Cancel(r)
  <2>1. outcome[r] = "none" /\ ~canceled[r] /\ EmitCancel(r, "none") /\ request' = request
    BY <1>4 DEF Cancel, MayCall, CarefulUser
  <2>2. r = request \/ onCancel[r] = {}
    BY <2>1 DEF RequestInv, OnePending, ListenersMade
  <2>3. onCancel[r] = {} => requestTimer' = requestTimer
    BY <1>4 DEF Cancel, TypeOK
  <2> QED
    BY <2>1, <2>2, <2>3, EmitCancelTimes
<1>5. CASE Pause(r) \/ Resume(r)
  <2>1. UNCHANGED <<connection, reader, phase, canceled, onCancel>>
    BY <1>5 DEF Pause, Resume
  <2> QED
    BY <2>1, TimedStays DEF connection
<1> QED
  BY <1>1, <1>2, <1>3, <1>4, <1>5 DEF User

LEMMA SendingTimes ==
  ASSUME TypeOK, TimedInv, NEW r \in Requests, Sending(r) \/ PayloadError(r)
  PROVE  TimedInv'
<1> SUFFICES ASSUME request' \in Requests PROVE Timed(request)'
  BY DEF TimedInv
<1>1. /\ UNCHANGED <<connection, reader, canceled>>
      /\ request' = request /\ requestTimer' = requestTimer /\ cancelTimer' = cancelTimer
  BY DEF Sending, EndPayload, FinishMessage, PayloadError, connection
<1>2. Timed(request)
  BY <1>1 DEF TimedInv
<1>3. CASE EndPayload(r)
  <2>1. phase'[request] = phase[request] \/ (phase[request] = "sending" /\ phase'[request] = "flushing")
    BY <1>1, <1>3 DEF EndPayload, TypeOK
  <2>2. onCancel' = onCancel
    BY <1>3 DEF EndPayload
  <2> QED
    BY <1>1, <1>2, <2>1, <2>2 DEF Timed
<1>4. CASE PayloadError(r)
  <2>1. phase'[request] = phase[request] \/ phase'[request] = "ignoring"
    BY <1>1, <1>4 DEF PayloadError, TypeOK
  <2>2. onCancel' = onCancel
    BY <1>4 DEF PayloadError
  <2> QED
    BY <1>1, <1>2, <2>1, <2>2 DEF Timed
<1>5. CASE FinishMessage(r)
  <2>1. CASE r = request
    <3>1. /\ phase'[r] \in {"sent", "ignored", "ignoredLate"}
          /\ phase'[r] = "sent" => phase[r] = "flushing"
      BY <1>5 DEF FinishMessage, TypeOK
    <3>2. "sent" \in onCancel'[r]
      BY <1>5 DEF FinishMessage, TypeOK
    <3> QED
      BY <1>1, <1>2, <2>1, <3>1, <3>2 DEF Timed
  <2>2. CASE r # request
    <3>1. phase'[request] = phase[request] /\ onCancel'[request] = onCancel[request]
      BY <1>1, <1>5, <2>2 DEF FinishMessage, TypeOK
    <3> QED
      BY <1>1, <1>2, <3>1 DEF Timed
  <2> QED
    BY <2>1, <2>2
<1> QED
  BY <1>3, <1>4, <1>5 DEF Sending

LEMMA ReadingTimes ==
  ASSUME TypeOK, RequestInv, TimedInv, Reading
  PROVE  TimedInv'
<1>1. CASE GotResponse
  <2>1. UNCHANGED <<request, cancelTimer, phase, canceled>> /\ reader' # "request"
    BY <1>1 DEF GotResponse, ParseResponse
  <2>2. request \in Requests => onCancel[request] \subseteq onCancel'[request]
    BY <1>1 DEF GotResponse, ParseResponse, TypeOK
  <2>3. SUFFICES ASSUME request' \in Requests PROVE Timed(request)'
    BY DEF TimedInv
  <2>4. Timed(request) /\ request' = request
    BY <2>1, <2>3 DEF TimedInv
  <2> QED
    BY <2>1, <2>2, <2>3, <2>4 DEF Timed
<1>2. CASE GotAttentionMessage \/ HandleRow \/ EndOfDiscarded
  <2>1. /\ UNCHANGED <<connection, phase, canceled, onCancel>>
        /\ reader' = reader \/ reader' # "request"
    BY <1>2 DEF GotAttentionMessage, HandleRow, EndOfDiscarded, requests
  <2> QED
    BY <2>1, TimedStays DEF connection
<1>3. CASE EndOfMessage
  BY <1>3, NobodyTimed DEF EndOfMessage
<1>4. CASE EndOfAttention /\ AttentionReceived
  BY <1>4, NobodyTimed DEF EndOfAttention
<1>5. CASE EndOfAttention /\ ~AttentionReceived
  BY <1>5, TimedStays DEF EndOfAttention
<1>6. CASE ReaderFails
  BY <1>6, CleanUpTimes DEF ReaderFails
<1> QED
  BY <1>1, <1>2, <1>3, <1>4, <1>5, <1>6 DEF Reading

LEMMA NoRequestTimed == Init => TimedInv
  BY ConstantsAssumption DEF Init, TimedInv, ConstantsAssumption

LEMMA TimedNext ==
  ASSUME CarefulUser, HasRequestTimeout, HasCancelTimeout, TypeOK, RequestInv, TimedInv,
         [Next]_vars
  PROVE  TimedInv'
<1>1. CASE UNCHANGED vars
  BY <1>1, TimedStays DEF vars, connection, reading, requests
<1>2. ASSUME NEW r \in Requests, User(r) \/ Sending(r) \/ PayloadError(r) PROVE TimedInv'
  BY <1>2, UserTimes, SendingTimes
<1>3. CASE Close \/ SocketError \/ SocketEnd \/ CancelTimeout
  BY <1>3, CleanUpTimes DEF Close, SocketError, SocketEnd, CancelTimeout
<1>4. CASE RequestTimeout
  <2>1. request \in Requests /\ request' = request
    BY <1>4 DEF RequestTimeout, TypeOK
  <2>2. CASE canceled[request]
    <3>1. UNCHANGED <<cancelTimer, reader, phase, canceled, onCancel>>
      BY <1>4, <2>2 DEF RequestTimeout
    <3> QED
      BY <2>1, <2>2, <3>1 DEF TimedInv, Timed
  <2>3. CASE ~canceled[request]
    <3>1. EmitCancel(request, "ETIMEOUT")
      BY <1>4, <2>3 DEF RequestTimeout
    <3> QED
      BY <2>1, <2>3, <3>1, EmitCancelTimes
  <2> QED
    BY <2>2, <2>3
<1>5. CASE Reading
  BY <1>5, ReadingTimes
<1>6. CASE Receive \/ Server
  <2>1. UNCHANGED <<connection, reader, requests>>
    BY <1>6 DEF Receive, Server, ServerTakes, ServerRow, ServerDone, reading
  <2> QED
    BY <2>1, TimedStays DEF connection, requests
<1> QED
  BY <1>1, <1>2, <1>3, <1>4, <1>5, <1>6 DEF Next

\* A request that was sent off is never without a timer that ends its wait: the
\* request timer or, once it is cancelled, the cancel timer (the safety half of
\* WaitsEnd).
THEOREM WaitsAreTimed ==
  ASSUME CarefulUser, HasRequestTimeout, HasCancelTimeout
  PROVE  Spec => [](\A r \in Requests : request = r /\ phase[r] = "sent" =>
                      /\ reader = "request" => requestTimer \/ cancelTimer
                      /\ canceled[r] => cancelTimer)
<1>1. Init => TimedInv
  BY NoRequestTimed
<1>2. (TypeOK /\ RequestInv) /\ TimedInv /\ [Next]_vars => TimedInv'
  BY TimedNext
<1>3. TimedInv => \A r \in Requests : request = r /\ phase[r] = "sent" =>
                    /\ reader = "request" => requestTimer \/ cancelTimer
                    /\ canceled[r] => cancelTimer
  BY DEF TimedInv, Timed
<1> QED
  BY <1>1, <1>2, <1>3, RequestInvariant, PTL DEF Spec
=============================================================================
