-------------------------- MODULE ConnectionLogin --------------------------
(***************************************************************************)
(* How a connection of the tedious driver comes up: dialing, PRELOGIN, TLS,*)
(* LOGIN7 and its three kinds of authentication, rerouting, the retries on *)
(* transient login errors, the initial SQL, the connect and retry timers,  *)
(* and close (src/tedious/src/connection.ts).                              *)
(*                                                                         *)
(* Each entry into CONNECTING is an attempt with a dial, a connect timer   *)
(* and a socket of its own.  A coroutine that waits for the server is the  *)
(* state it waits in; it never resumes once its socket is gone.  What does *)
(* resume in whatever state the connection is by then are the dial, the    *)
(* security token of Active Directory and the retry timer, and they change *)
(* the state without looking at it.  The server (external) may give any of *)
(* the answers the code distinguishes.  NTLM challenges, which change no   *)
(* state, and the contents of messages are left out.                       *)
(***************************************************************************)
EXTENDS Naturals

CONSTANTS
  Configs,      \* the configurations a connection may be given
  MaxRetries,   \* options.maxRetriesOnTransientErrors
  MaxReroutes,  \* bound: how often servers reroute
  EarlyClose    \* may close() be called before the connection is up?

\* A configuration: authentication, is options.port given (or the instance looked
\* up), options.encrypt; and, of the environment, may the security token come
\* after the attempt that wanted it is over?
Config == [auth : {"standard", "ntlm", "fedauth"}, port : BOOLEAN,
           encrypt : BOOLEAN, lateToken : BOOLEAN]

ASSUME ConstantsAssumption ==
  /\ Configs \subseteq Config
  /\ MaxRetries \in Nat /\ MaxReroutes \in Nat
  /\ EarlyClose \in BOOLEAN

VARIABLES
  config,       \* this.config
  state,        \* this.state
  closed,       \* this.closed
  attempt,      \* how many attempts were started
  dial,         \* for each attempt: its dial is at "lookup", at "tcp", "none"
  timers,       \* the attempts whose connect timer is armed
  connectTimer, \* this.connectTimer: the attempt it belongs to, or 0
  retryTimer,   \* is the retry timer armed?
  retries,      \* this.curTransientRetryCount
  reroutes,     \* reroutes taken
  sockets,      \* for each attempt: its socket is "none", "open", "destroyed"
                \* (its close event is due), "closed"
  socket,       \* this.socket: the attempt it belongs to, or 0
  token,        \* is the security token awaited?
  connects, succeeded, errors, ends
                \* connect events, was one a success, were there error events
                \* and end events

login == <<config, state, closed, attempt, retries, reroutes, token>>
timing == <<timers, connectTimer, retryTimer>>
wire == <<dial, sockets, socket>>
events == <<connects, succeeded, errors, ends>>
vars == <<login, timing, wire, events>>

MaxAttempts == 1 + MaxRetries + MaxReroutes
Attempts == 1 .. MaxAttempts

LoginSent == {"SENT_LOGIN7_WITH_STANDARD_LOGIN", "SENT_LOGIN7_WITH_NTLM",
              "SENT_LOGIN7_WITH_FEDAUTH"}
Connected == {"SENT_PRELOGIN", "SENT_TLSSSLNEGOTIATION",
              "LOGGED_IN_SENDING_INITIAL_SQL", "LOGGED_IN"} \cup LoginSent
States == {"INITIALIZED", "CONNECTING", "REROUTING", "TRANSIENT_FAILURE_RETRY",
           "FINAL"} \cup Connected

TypeOK ==
  /\ config \in Configs /\ state \in States
  /\ closed \in BOOLEAN /\ retryTimer \in BOOLEAN /\ token \in BOOLEAN
  /\ succeeded \in BOOLEAN
  /\ attempt \in 0 .. MaxAttempts
  /\ dial \in [Attempts -> {"none", "lookup", "tcp"}]
  /\ timers \subseteq Attempts
  /\ connectTimer \in 0 .. MaxAttempts /\ socket \in 0 .. MaxAttempts
  /\ retries \in 0 .. MaxRetries /\ reroutes \in 0 .. MaxReroutes
  /\ sockets \in [Attempts -> {"none", "open", "destroyed", "closed"}]
  /\ connects \in Nat /\ errors \in Nat /\ ends \in Nat

Init ==
  /\ config \in Configs
  /\ state = "INITIALIZED" /\ closed = FALSE
  /\ attempt = 0 /\ retries = 0 /\ reroutes = 0 /\ token = FALSE
  /\ dial = [a \in Attempts |-> "none"]
  /\ timers = {} /\ connectTimer = 0 /\ retryTimer = FALSE
  /\ sockets = [a \in Attempts |-> "none"] /\ socket = 0
  /\ connects = 0 /\ succeeded = FALSE /\ errors = 0 /\ ends = 0

---------------------------------------------------------------------------
(* What several handlers do.                                               *)

\* Mutant of CleanUpAfter: the socket is not destroyed.
CleanUpKeepsSocket(type, armed, handle, socks) ==
  /\ closed' = TRUE
  /\ timers' = armed \ {handle} /\ connectTimer' = 0 /\ retryTimer' = FALSE
  /\ sockets' = socks
  /\ ends' = IF type = "NORMAL" THEN ends + 1 ELSE ends

\* Mutant of CleanUpAfter: the end event is emitted for reroutes and retries too.
CleanUpAlwaysEnds(type, armed, handle, socks) ==
  IF closed
    THEN /\ timers' = armed /\ connectTimer' = handle /\ sockets' = socks
         /\ UNCHANGED <<closed, retryTimer, ends>>
    ELSE /\ closed' = TRUE
         /\ timers' = armed \ {handle} /\ connectTimer' = 0
         /\ retryTimer' = FALSE
         /\ sockets' = [a \in Attempts |-> IF a = socket /\ socks[a] = "open"
                                             THEN "destroyed" ELSE socks[a]]
         /\ ends' = ends + 1

\* cleanupConnection: a connection that is closed already is left as it is.
\* The arguments are the armed timers, the handle and the sockets at the call.
CleanUpAfter(type, armed, handle, socks) ==
  IF closed
    THEN /\ timers' = armed /\ connectTimer' = handle /\ sockets' = socks
         /\ UNCHANGED <<closed, retryTimer, ends>>
    ELSE /\ closed' = TRUE
         /\ timers' = armed \ {handle} /\ connectTimer' = 0
         /\ retryTimer' = FALSE
         /\ sockets' = [a \in Attempts |-> IF a = socket /\ socks[a] = "open"
                                             THEN "destroyed" ELSE socks[a]]
         /\ ends' = IF type = "NORMAL" THEN ends + 1 ELSE ends

CleanUp(type) == CleanUpAfter(type, timers, connectTimer, sockets)

\* transitionTo(FINAL)
ToFinalAfter(armed, handle, socks) ==
  /\ state' = "FINAL"
  /\ IF state = "FINAL"
       THEN /\ timers' = armed /\ connectTimer' = handle /\ sockets' = socks
            /\ UNCHANGED <<closed, retryTimer, ends>>
       ELSE CleanUpAfter("NORMAL", armed, handle, socks)

ToFinal == ToFinalAfter(timers, connectTimer, sockets)

\* transitionTo(CONNECTING) and initialiseConnection: the handle of the timer
\* is overwritten.
StartAttempt ==
  /\ attempt < MaxAttempts
  /\ attempt' = attempt + 1
  /\ state' = "CONNECTING"
  /\ timers' = timers \cup {attempt'} /\ connectTimer' = attempt'
  /\ dial' = [dial EXCEPT ![attempt'] = IF config.port THEN "tcp" ELSE "lookup"]

ClearConnectTimer == /\ timers' = timers \ {connectTimer}
                     /\ connectTimer' = 0

\* A connect event with an error and an end of the attempt.
Fail == /\ connects' = connects + 1
        /\ ToFinal
        /\ UNCHANGED <<succeeded, errors>>

\* socketError: a connect event in two states, an error event in the others.
\* The later errors that FINAL only reports are counted with the first.
ReportSocketErrors(later) ==
  /\ IF state \in {"CONNECTING", "SENT_TLSSSLNEGOTIATION"}
       THEN connects' = connects + 1 /\ errors' = errors + later
       ELSE errors' = errors + 1 + later /\ UNCHANGED connects
  /\ UNCHANGED succeeded

ReportSocketError == ReportSocketErrors(0)

SocketErrorHandler ==
  /\ ReportSocketError
  /\ ToFinal

\* May the attempt end while its token is awaited?
TokenOut == token => config.lateToken

---------------------------------------------------------------------------
(* The user.                                                               *)

Connect ==
  /\ state = "INITIALIZED"
  /\ StartAttempt
  /\ UNCHANGED <<config, closed, retries, reroutes, token, retryTimer,
                 sockets, socket, events>>

Close ==
  /\ state \notin {"INITIALIZED", "FINAL"}
  /\ EarlyClose \/ state = "LOGGED_IN"
  /\ TokenOut
  /\ ToFinal
  /\ UNCHANGED <<config, attempt, retries, reroutes, token, dial, socket,
                 connects, succeeded, errors>>

---------------------------------------------------------------------------
(* Dialing.                                                                *)

\* instanceLookup found the port.
LookupDone(a) ==
  /\ dial[a] = "lookup"
  /\ dial' = [dial EXCEPT ![a] = "tcp"]
  /\ UNCHANGED <<login, timing, sockets, socket, events>>

\* instanceLookup failed: the user is told, the state stays CONNECTING.
LookupFails(a) ==
  /\ dial[a] = "lookup"
  /\ dial' = [dial EXCEPT ![a] = "none"]
  /\ ClearConnectTimer
  /\ connects' = connects + 1
  /\ UNCHANGED <<login, retryTimer, sockets, socket, succeeded, errors, ends>>

\* The socket is connected: PRELOGIN is sent, whatever the state is.
DialDone(a) ==
  /\ dial[a] = "tcp"
  /\ dial' = [dial EXCEPT ![a] = "none"]
  /\ sockets' = [sockets EXCEPT ![a] = "open"] /\ socket' = a
  /\ closed' = FALSE
  /\ state' = "SENT_PRELOGIN"
  /\ UNCHANGED <<config, attempt, retries, reroutes, token, timing, events>>

\* No address answers: the timer is cleared before the error is handled.
DialFails(a) ==
  /\ dial[a] = "tcp"
  /\ dial' = [dial EXCEPT ![a] = "none"]
  /\ ReportSocketError
  /\ ToFinalAfter(timers \ {connectTimer}, 0, sockets)
  /\ UNCHANGED <<config, attempt, retries, reroutes, token, socket>>

---------------------------------------------------------------------------
(* The conversation with the server, on the current socket.                *)

Answer == socket # 0 /\ sockets[socket] = "open"

LoginState == CASE config.auth = "standard" -> "SENT_LOGIN7_WITH_STANDARD_LOGIN"
                [] config.auth = "ntlm" -> "SENT_LOGIN7_WITH_NTLM"
                [] config.auth = "fedauth" -> "SENT_LOGIN7_WITH_FEDAUTH"

\* The response to PRELOGIN: without encryption, with encryption, or with
\* encryption the configuration does not allow (EENCRYPT).
PreloginAnswered ==
  /\ Answer /\ state = "SENT_PRELOGIN"
  /\ \/ /\ state' \in {LoginState} \cup
                      (IF config.encrypt THEN {"SENT_TLSSSLNEGOTIATION"} ELSE {})
        /\ UNCHANGED <<closed, timing, sockets, events>>
     \/ ~config.encrypt /\ Fail
  /\ UNCHANGED <<config, attempt, retries, reroutes, token, dial, socket>>

\* TLS is negotiated; LOGIN7 is sent.
TlsNegotiated ==
  /\ Answer /\ state = "SENT_TLSSSLNEGOTIATION"
  /\ state' = LoginState
  /\ UNCHANGED <<config, closed, attempt, retries, reroutes, token, timing,
                 wire, events>>

\* startTls throws.
TlsFails ==
  /\ Answer /\ state = "SENT_TLSSSLNEGOTIATION"
  /\ SocketErrorHandler
  /\ UNCHANGED <<config, attempt, retries, reroutes, token, dial, socket>>

\* The response to LOGIN7 with an acknowledgement.
LoginAcknowledged ==
  /\ Answer /\ state \in LoginSent /\ ~token
  /\ state' = "LOGGED_IN_SENDING_INITIAL_SQL"
  /\ UNCHANGED <<config, closed, attempt, retries, reroutes, token, timing,
                 wire, events>>

\* ... and routing data: the socket is given up, and its close event leads to
\* the next attempt.
LoginRerouted ==
  /\ Answer /\ state \in LoginSent /\ ~token
  /\ reroutes < MaxReroutes
  /\ reroutes' = reroutes + 1
  /\ state' = "REROUTING"
  /\ CleanUp("REDIRECT")
  /\ UNCHANGED <<config, attempt, retries, token, dial, socket, connects,
                 succeeded, errors>>

\* ... with an error: a transient one while retries are left, another, or none.
LoginRefused ==
  /\ Answer /\ state \in LoginSent /\ ~token
  /\ \/ /\ retries # MaxRetries
        /\ state' = "TRANSIENT_FAILURE_RETRY"
        /\ retries' = retries + 1
        /\ CleanUp("RETRY")
        /\ UNCHANGED <<connects, succeeded, errors>>
     \/ Fail /\ UNCHANGED retries
  /\ UNCHANGED <<config, attempt, reroutes, token, dial, socket>>

\* ... with the demand for a security token.
TokenDemanded ==
  /\ Answer /\ state = "SENT_LOGIN7_WITH_FEDAUTH" /\ ~token
  /\ token' = TRUE
  /\ UNCHANGED <<config, state, closed, attempt, retries, reroutes, timing,
                 wire, events>>

\* getToken answers: the token is sent, whatever the state is.
GotToken ==
  /\ token /\ token' = FALSE
  /\ state' = "SENT_LOGIN7_WITH_STANDARD_LOGIN"
  /\ UNCHANGED <<config, closed, attempt, retries, reroutes, timing, wire,
                 events>>

TokenFails ==
  /\ token /\ token' = FALSE
  /\ Fail
  /\ UNCHANGED <<config, attempt, retries, reroutes, dial, socket>>

\* Mutant of InitialSqlDone: clearConnectTimer is forgotten.
InitialSqlDoneTimed ==
  /\ Answer /\ state = "LOGGED_IN_SENDING_INITIAL_SQL"
  /\ state' = "LOGGED_IN"
  /\ connects' = connects + 1 /\ succeeded' = TRUE
  /\ UNCHANGED <<config, closed, attempt, retries, reroutes, token, timing,
                 wire, errors, ends>>

\* The response to the initial SQL: the connection is up.
InitialSqlDone ==
  /\ Answer /\ state = "LOGGED_IN_SENDING_INITIAL_SQL"
  /\ state' = "LOGGED_IN"
  /\ ClearConnectTimer
  /\ connects' = connects + 1 /\ succeeded' = TRUE
  /\ UNCHANGED <<config, closed, attempt, retries, reroutes, token,
                 retryTimer, wire, errors, ends>>

---------------------------------------------------------------------------
(* Timers and socket events.                                               *)

\* Mutant of ConnectTimeout: the dial is not aborted.
ConnectTimeoutDialing(a) ==
  /\ a \in timers /\ TokenOut
  /\ connects' = connects + 1
  /\ ToFinalAfter(timers \ {a}, 0, sockets)
  /\ UNCHANGED <<config, attempt, retries, reroutes, token, dial, socket,
                 succeeded, errors>>

\* Mutant of ConnectTimeout: the user is not told.
ConnectTimeoutSilent(a) ==
  /\ a \in timers /\ TokenOut
  /\ dial' = [dial EXCEPT ![a] = "none"]
  /\ ToFinalAfter(timers \ {a}, 0, sockets)
  /\ UNCHANGED <<config, attempt, retries, reroutes, token, socket, connects,
                 succeeded, errors>>

\* connectTimeout: the dial is aborted and the user told; the connection is
\* given up.  LOGGED_IN does not expect the event: it reports an error and closes.
ConnectTimeout(a) ==
  /\ a \in timers /\ TokenOut
  /\ connects' = connects + 1
  /\ errors' = IF state = "LOGGED_IN" THEN errors + 1 ELSE errors
  /\ dial' = [dial EXCEPT ![a] = "none"]
  /\ ToFinalAfter(timers \ {a}, 0, sockets)
  /\ UNCHANGED <<config, attempt, retries, reroutes, token, socket,
                 succeeded>>

\* retryTimeout, whatever the state is.
RetryTimeout ==
  /\ retryTimer /\ retryTimer' = FALSE
  /\ StartAttempt
  /\ UNCHANGED <<config, closed, retries, reroutes, token, sockets, socket,
                 events>>

\* The close event of a destroyed socket: on to the next attempt, or FINAL.
SocketClose(a) ==
  /\ sockets[a] = "destroyed"
  /\ \/ /\ state = "REROUTING"
        /\ StartAttempt
        /\ sockets' = [sockets EXCEPT ![a] = "closed"]
        /\ UNCHANGED <<closed, retryTimer, ends>>
     \/ /\ state = "TRANSIENT_FAILURE_RETRY"
        /\ retryTimer' = TRUE
        /\ sockets' = [sockets EXCEPT ![a] = "closed"]
        /\ UNCHANGED <<state, closed, attempt, timers, connectTimer, dial,
                       ends>>
     \/ /\ state \notin {"REROUTING", "TRANSIENT_FAILURE_RETRY"}
        /\ ToFinalAfter(timers, connectTimer, [sockets EXCEPT ![a] = "closed"])
        /\ UNCHANGED <<attempt, dial>>
  /\ UNCHANGED <<config, retries, reroutes, token, socket, connects,
                 succeeded, errors>>

\* The peer ends the stream or the socket fails (socketEnd, socketError).  A
\* stream that ends also fails the wait for a message, which reports it again.
ConnectionLost ==
  /\ Answer /\ TokenOut
  /\ \E later \in {0, 1} : ReportSocketErrors(later)
  /\ ToFinal
  /\ UNCHANGED <<config, attempt, retries, reroutes, token, dial, socket>>

Timer == RetryTimeout \/ \E a \in Attempts : ConnectTimeout(a) \/ SocketClose(a)
Dialing(a) == LookupDone(a) \/ LookupFails(a) \/ DialDone(a) \/ DialFails(a)
Conversation == \/ PreloginAnswered \/ TlsNegotiated \/ TlsFails
                \/ LoginAcknowledged \/ LoginRerouted \/ LoginRefused
                \/ TokenDemanded \/ GotToken \/ TokenFails
                \/ InitialSqlDone \/ ConnectionLost

Next == \/ Connect \/ Close
        \/ Timer
        \/ \E a \in Attempts : Dialing(a)
        \/ Conversation

Spec == Init /\ [][Next]_vars

\* Timers fire, sockets close, and a token service that is not late answers;
\* nothing is asked of the server or the network.
Fairness == /\ WF_vars(Connect) /\ WF_vars(Timer)
            /\ WF_vars(~config.lateToken /\ (GotToken \/ TokenFails))

LiveSpec == Spec /\ Fairness

---------------------------------------------------------------------------
(* Properties.                                                             *)

\* Every attempt after the first is paid for by a retry or a reroute (REROUTING,
\* TRANSIENT_FAILURE_RETRY): a close event and a retry timer never both start one.
AttemptsAccounted == attempt <= 1 + retries + reroutes

\* No timer of the coming up is left to hit a connection that is up, where LOGGED_IN
\* would take a connectTimeout for an error, or to revive one that was given up
\* (processedInitialSql, cleanupConnection).
NoStrayTimers == state \in {"LOGGED_IN", "FINAL"} => timers = {} /\ ~retryTimer

\* At most the current socket is open, and only while the connection uses it:
\* no attempt, retry, reroute, timeout or failure leaks one (closeConnection).
NoOrphanSocket ==
  \A a \in Attempts : sockets[a] = "open" => a = socket /\ state \in Connected

\* The connect event is emitted once, as a success or as a failure, when the
\* token service is not late (connect).
ConnectOnce == ~config.lateToken => connects <= 1

\* When the end event has been emitted the connection is closed and stays so:
\* nothing is left that could bring it up again (cleanupConnection).
EndIsTheEnd ==
  ends > 0 /\ ~config.lateToken =>
    state = "FINAL" /\ ends = 1 /\ ~retryTimer
    /\ \A a \in Attempts : dial[a] = "none" /\ sockets[a] # "open"

\* What the documentation of the end event says: the connection has ended.
EndedMeansFinal == ends > 0 => state = "FINAL"

\* What the documentation of the connect event says: the attempt has completed.
ConnectCompletesOnce == connects <= 1

\* A failed attempt is reported and the user of connect always hears from it,
\* even when no server, network or token service ever answers (connectTimeout).
ConnectReports == (state = "CONNECTING") ~> (connects + errors > 0)
=============================================================================
