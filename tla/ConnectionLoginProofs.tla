----------------------- MODULE ConnectionLoginProofs -----------------------
(* Proofs that however a connection comes up - through any number of       *)
(* reroutes, retries and failures, with any configuration - no timer hits  *)
(* it when it is up or given up, no socket is leaked, the user is told of  *)
(* the outcome once, and the end event is the end.  It is assumed that     *)
(* close() is called only on a connection that is up: a close() while the  *)
(* connection comes up does not stop the dial.                             *)
EXTENDS ConnectionLogin, TLAPS

---------------------------------------------------------------------------
(* Type correctness.                                                       *)

LEMMA AttemptsExist == MaxAttempts \in Nat /\ 0 \in 0 .. MaxAttempts
BY ConstantsAssumption DEF ConstantsAssumption, MaxAttempts

\* What cleanupConnection and transitionTo(FINAL) write is well typed.
LEMMA ToFinalType ==
  ASSUME TypeOK, NEW armed \in SUBSET Attempts, NEW handle \in 0 .. MaxAttempts,
         NEW socks \in [Attempts -> {"none", "open", "destroyed", "closed"}],
         NEW type, \/ CleanUpAfter(type, armed, handle, socks)
                   \/ ToFinalAfter(armed, handle, socks)
  PROVE  /\ closed' \in BOOLEAN /\ retryTimer' \in BOOLEAN /\ ends' \in Nat
         /\ timers' \subseteq Attempts /\ connectTimer' \in 0 .. MaxAttempts
         /\ sockets' \in [Attempts -> {"none", "open", "destroyed", "closed"}]
<1>1. closed' \in BOOLEAN /\ retryTimer' \in BOOLEAN
  BY Zenon DEF TypeOK, CleanUpAfter, ToFinalAfter
<1>2. ends' \in Nat /\ timers' \subseteq Attempts /\ connectTimer' \in 0 .. MaxAttempts
  BY AttemptsExist DEF TypeOK, CleanUpAfter, ToFinalAfter
<1>3. sockets' \in [Attempts -> {"none", "open", "destroyed", "closed"}]
  BY DEF TypeOK, CleanUpAfter, ToFinalAfter
<1> QED
  BY <1>1, <1>2, <1>3

LEMMA TypeInit == Init => TypeOK
<1> SUFFICES ASSUME Init PROVE TypeOK
  OBVIOUS
<1>1. /\ dial \in [Attempts -> {"none", "lookup", "tcp"}]
      /\ sockets \in [Attempts -> {"none", "open", "destroyed", "closed"}]
  BY DEF Init
<1>2. 0 \in 0 .. MaxRetries /\ 0 \in 0 .. MaxReroutes /\ 0 \in Nat
  BY ConstantsAssumption DEF ConstantsAssumption
<1> QED
  BY <1>1, <1>2, AttemptsExist, Zenon DEF Init, TypeOK, States

\* A new attempt is well typed (initialiseConnection).
LEMMA StartType ==
  ASSUME TypeOK, StartAttempt
  PROVE  /\ attempt' \in Attempts /\ state' \in States
         /\ timers' \subseteq Attempts /\ connectTimer' \in 0 .. MaxAttempts
         /\ dial' \in [Attempts -> {"none", "lookup", "tcp"}]
BY AttemptsExist DEF TypeOK, StartAttempt, Attempts, States

\* The variables with Boolean values stay Booleans.
LEMMA FlagsType ==
  ASSUME TypeOK, [Next]_vars
  PROVE  /\ closed' \in BOOLEAN /\ retryTimer' \in BOOLEAN
         /\ token' \in BOOLEAN /\ succeeded' \in BOOLEAN
BY ZenonT(40) DEF TypeOK, Next, vars, login, timing, events, Connect, Close, Timer,
   RetryTimeout, ConnectTimeout, SocketClose, Dialing, LookupDone, LookupFails,
   DialDone, DialFails, Conversation, PreloginAnswered, TlsNegotiated, TlsFails,
   LoginAcknowledged, LoginRerouted, LoginRefused, TokenDemanded, GotToken,
   TokenFails, InitialSqlDone, ConnectionLost, SocketErrorHandler,
   ReportSocketError, ReportSocketErrors, Fail, ToFinal, ToFinalAfter, CleanUp, CleanUpAfter,
   StartAttempt, ClearConnectTimer

\* The kinds of authentication have a login state each.
LEMMA LoginStates == TypeOK => LoginState \in LoginSent
<1> SUFFICES ASSUME TypeOK PROVE LoginState \in LoginSent
  OBVIOUS
<1>1. config.auth \in {"standard", "ntlm", "fedauth"}
  BY ConstantsAssumption DEF TypeOK, ConstantsAssumption, Config
<1> QED
  BY <1>1 DEF LoginState, LoginSent

LEMMA TypeNext == TypeOK /\ [Next]_vars => TypeOK'
<1> SUFFICES ASSUME TypeOK, [Next]_vars PROVE TypeOK'
  OBVIOUS
<1> DEFINE Typed ==
      /\ config \in Configs /\ state \in States
      /\ attempt \in 0 .. MaxAttempts
      /\ dial \in [Attempts -> {"none", "lookup", "tcp"}]
      /\ timers \subseteq Attempts
      /\ connectTimer \in 0 .. MaxAttempts /\ socket \in 0 .. MaxAttempts
      /\ retries \in 0 .. MaxRetries /\ reroutes \in 0 .. MaxReroutes
      /\ sockets \in [Attempts -> {"none", "open", "destroyed", "closed"}]
      /\ connects \in Nat /\ errors \in Nat /\ ends \in Nat
<1>0. Typed /\ Attempts \subseteq 0 .. MaxAttempts
  BY AttemptsExist DEF TypeOK, Attempts
<1>kinds. LoginState \in LoginSent
  BY LoginStates
<1> USE DEF States, Connected
<1>1. ASSUME Connect PROVE Typed'
  BY <1>0, <1>1, AttemptsExist, StartType
     DEF Connect, login, timing, wire, events
<1>2. ASSUME Close PROVE Typed'
  BY <1>0, <1>2, AttemptsExist, ToFinalType
     DEF Close, ToFinal, ToFinalAfter, login, timing, wire, events
<1>3. ASSUME NEW a \in Attempts, LookupDone(a) PROVE Typed'
  BY <1>0, <1>3, AttemptsExist DEF LookupDone, login, timing, wire, events
<1>4. ASSUME NEW a \in Attempts, LookupFails(a) PROVE Typed'
  BY <1>0, <1>4, AttemptsExist
     DEF LookupFails, ClearConnectTimer, login, timing, wire, events
<1>5. ASSUME NEW a \in Attempts, DialDone(a) PROVE Typed'
  BY <1>0, <1>5, AttemptsExist DEF DialDone, login, timing, wire, events
<1>6. ASSUME NEW a \in Attempts, DialFails(a) PROVE Typed'
  BY <1>0, <1>6, AttemptsExist, ToFinalType
     DEF DialFails, ReportSocketError, ReportSocketErrors, ToFinalAfter, login, timing, wire,
         events
<1>7. ASSUME PreloginAnswered PROVE Typed'
  <2>1. CASE Fail
    BY <1>0, <1>7, <2>1, ToFinalType
       DEF PreloginAnswered, Fail, ToFinal, ToFinalAfter, login, timing, wire, events
  <2>2. CASE UNCHANGED <<closed, timing, sockets, events>> /\ state' \in States
    BY <1>0, <1>7, <2>2 DEF PreloginAnswered, login, timing, wire, events
  <2> QED
    BY <1>kinds, <1>7, <2>1, <2>2 DEF PreloginAnswered
<1>8. ASSUME TlsNegotiated PROVE Typed'
  BY <1>0, <1>kinds, <1>8
     DEF TlsNegotiated,
     login, timing, wire, events
<1>9. ASSUME TlsFails PROVE Typed'
  BY <1>0, <1>9, AttemptsExist, ToFinalType
     DEF TlsFails, SocketErrorHandler, ReportSocketError, ReportSocketErrors, ToFinal,
         ToFinalAfter, login, timing, wire, events
<1>10. ASSUME LoginAcknowledged PROVE Typed'
  BY <1>0, <1>10, AttemptsExist
     DEF LoginAcknowledged, login, timing, wire, events
<1>11. ASSUME LoginRerouted PROVE Typed'
  BY <1>0, <1>11, AttemptsExist, ToFinalType, ConstantsAssumption
     DEF LoginRerouted, CleanUp, ToFinalAfter, ConstantsAssumption, login,
         timing, wire, events
<1>12. ASSUME LoginRefused PROVE Typed'
  BY <1>0, <1>12, AttemptsExist, ToFinalType, ConstantsAssumption
     DEF LoginRefused, CleanUp, Fail, ToFinal, ToFinalAfter,
         ConstantsAssumption, login, timing, wire, events
<1>13. ASSUME TokenDemanded PROVE Typed'
  BY <1>0, <1>13, AttemptsExist DEF TokenDemanded, login, timing, wire, events
<1>14. ASSUME GotToken PROVE Typed'
  BY <1>0, <1>14 DEF GotToken, LoginSent, login, timing, wire, events
<1>15. ASSUME TokenFails PROVE Typed'
  BY <1>0, <1>15, AttemptsExist, ToFinalType
     DEF TokenFails, Fail, ToFinal, ToFinalAfter, login, timing, wire, events
<1>16. ASSUME InitialSqlDone PROVE Typed'
  BY <1>0, <1>16, AttemptsExist
     DEF InitialSqlDone, ClearConnectTimer, login, timing, wire, events
<1>17. ASSUME ConnectionLost PROVE Typed'
  BY <1>0, <1>17, AttemptsExist, ToFinalType
     DEF ConnectionLost, SocketErrorHandler, ReportSocketError, ReportSocketErrors, ToFinal,
         ToFinalAfter, login, timing, wire, events
<1>18. ASSUME RetryTimeout PROVE Typed'
  BY <1>0, <1>18, AttemptsExist, StartType
     DEF RetryTimeout, login, timing, wire, events
<1>19. ASSUME NEW a \in Attempts, ConnectTimeout(a) PROVE Typed'
  BY <1>0, <1>19, AttemptsExist, ToFinalType
     DEF ConnectTimeout, ToFinalAfter, login, timing, wire, events
<1>20. ASSUME NEW a \in Attempts, SocketClose(a) PROVE Typed'
  BY <1>0, <1>20, AttemptsExist, ToFinalType, StartType
     DEF SocketClose, ToFinalAfter, login, timing, wire, events
<1>21. ASSUME UNCHANGED vars PROVE Typed'
  BY <1>0, <1>21 DEF vars, login, timing, wire, events
<1>22. Typed'
  BY <1>1, <1>2, <1>3, <1>4, <1>5, <1>6, <1>7, <1>8, <1>9, <1>10, <1>11,
     <1>12, <1>13, <1>14, <1>15, <1>16, <1>17, <1>18, <1>19, <1>20, <1>21
     DEF Next, Timer, Dialing, Conversation
<1> QED
  BY <1>22, FlagsType DEF TypeOK

---------------------------------------------------------------------------
(* The inductive invariant.  The properties are about a connection that is *)
(* up or over; it says what holds on the way there, state by state.  Only  *)
(* the current attempt can have a dial, a timer or a socket that is not    *)
(* closed; a handshake has its socket open and its timer armed; between    *)
(* two attempts exactly one of the close event and the retry timer is due, *)
(* so that only one of them starts the next attempt.                       *)

Idle == timers = {} /\ connectTimer = 0
Armed == timers = {attempt} /\ connectTimer = attempt
Untold == connects = 0 /\ ends = 0
Talking == Connected \ {"LOGGED_IN"}
Between == {"REROUTING", "TRANSIENT_FAILURE_RETRY"}

Accounted ==
  /\ AttemptsAccounted
  /\ state \in Between => attempt <= retries + reroutes

OnlyCurrent ==
  /\ attempt = 0 <=> state = "INITIALIZED"
  /\ \A a \in Attempts :
       /\ a # attempt => dial[a] = "none" /\ sockets[a] \in {"none", "closed"}
       /\ a > attempt => sockets[a] = "none"

WhenNew ==
  state = "INITIALIZED" => Idle /\ ~retryTimer /\ ~token /\ Untold

\* A failed lookup has told the user and leaves the state as it is.
WhenConnecting ==
  state = "CONNECTING" =>
    /\ sockets[attempt] = "none" /\ ~retryTimer /\ ~token /\ ends = 0
    /\ \/ dial[attempt] # "none" /\ Armed /\ connects = 0
       \/ dial[attempt] = "none" /\ Idle /\ connects = 1

WhenTalking ==
  state \in Talking /\ ~closed =>
    /\ sockets[attempt] = "open" /\ socket = attempt /\ dial[attempt] = "none"
    /\ Armed /\ ~retryTimer /\ Untold
    /\ token => state = "SENT_LOGIN7_WITH_FEDAUTH"

WhenLoggedIn ==
  state = "LOGGED_IN" =>
    /\ sockets[attempt] = "open" /\ socket = attempt /\ dial[attempt] = "none"
    /\ ~closed /\ Idle /\ ~retryTimer /\ ~token /\ connects = 1 /\ ends = 0

BetweenAttempts ==
  state \in Between =>
    /\ closed /\ Idle /\ ~token /\ Untold /\ dial[attempt] = "none"
    /\ \/ sockets[attempt] = "destroyed" /\ ~retryTimer
       \/ /\ sockets[attempt] = "closed" /\ retryTimer
          /\ state = "TRANSIENT_FAILURE_RETRY"

\* A security token that comes too late takes a connection that is over back
\* into a login state; nothing is left that could go on there.
WhenOver ==
  state = "FINAL" \/ (state \in Talking /\ closed) =>
    /\ closed /\ Idle /\ ~retryTimer
    /\ dial[attempt] = "none" /\ sockets[attempt] # "open"
    /\ state = "FINAL" \/ config.lateToken
    /\ token => config.lateToken
    /\ ~config.lateToken => connects <= 1 /\ ends <= 1

LoginInv == /\ TypeOK /\ Accounted /\ OnlyCurrent /\ WhenNew /\ WhenConnecting
            /\ WhenTalking /\ WhenLoggedIn /\ BetweenAttempts /\ WhenOver

LEMMA LoginInit == Init => LoginInv
<1> SUFFICES ASSUME Init PROVE LoginInv
  OBVIOUS
<1>1. TypeOK
  BY TypeInit
<1>2. \A a \in Attempts : a # 0 /\ dial[a] = "none" /\ sockets[a] = "none"
  BY DEF Init, Attempts
<1> QED
  BY <1>1, <1>2, ConstantsAssumption
     DEF Init, LoginInv, Accounted, AttemptsAccounted, OnlyCurrent, WhenNew,
         WhenConnecting, WhenTalking, WhenLoggedIn, BetweenAttempts, WhenOver,
         Idle, Untold, Talking, Connected, LoginSent, Between, ConstantsAssumption

\* What cleanupConnection leaves behind: a closed connection without timers,
\* its socket destroyed; of a connection that is closed already nothing changes.
LEMMA CleanUpEffect ==
  ASSUME TypeOK, NEW type, NEW armed, NEW handle,
         NEW socks \in [Attempts -> {"none", "open", "destroyed", "closed"}],
         CleanUpAfter(type, armed, handle, socks),
         armed \subseteq {handle},
         closed => armed = {} /\ handle = 0 /\ ~retryTimer
  PROVE  /\ closed' /\ Idle' /\ ~retryTimer'
         /\ ends' = IF ~closed /\ type = "NORMAL" THEN ends + 1 ELSE ends
         /\ \A a \in Attempts :
              sockets'[a] = IF ~closed /\ a = socket /\ socks[a] = "open"
                              THEN "destroyed" ELSE socks[a]
<1>1. closed' /\ ~retryTimer'
  BY Zenon DEF CleanUpAfter
<1>2. CASE closed
  BY <1>1, <1>2 DEF CleanUpAfter, Idle
<1>3. CASE ~closed
  BY <1>1, <1>3 DEF CleanUpAfter, Idle
<1> QED
  BY <1>2, <1>3

\* The same for transitionTo(FINAL).
LEMMA ToFinalEffect ==
  ASSUME TypeOK, NEW armed, NEW handle,
         NEW socks \in [Attempts -> {"none", "open", "destroyed", "closed"}],
         ToFinalAfter(armed, handle, socks),
         armed \subseteq {handle},
         closed => armed = {} /\ handle = 0 /\ ~retryTimer,
         state = "FINAL" => closed
  PROVE  /\ state' = "FINAL" /\ closed' /\ Idle' /\ ~retryTimer'
         /\ ends' = IF closed THEN ends ELSE ends + 1
         /\ \A a \in Attempts :
              sockets'[a] = IF ~closed /\ a = socket /\ socks[a] = "open"
                              THEN "destroyed" ELSE socks[a]
<1>1. CASE state = "FINAL"
  <2>1. closed' /\ ~retryTimer'
    BY <1>1, Zenon DEF ToFinalAfter
  <2> QED
    BY <1>1, <2>1 DEF ToFinalAfter, Idle
<1>2. CASE state # "FINAL"
  BY <1>2, CleanUpEffect DEF ToFinalAfter
<1> QED
  BY <1>1, <1>2

\* An attempt that ends in FINAL without a dial, and without a token to wait for
\* unless tokens may be late, leaves nothing behind.
LEMMA EndsOver ==
  ASSUME LoginInv, TypeOK', state # "INITIALIZED",
         NEW armed, NEW handle,
         NEW socks \in [Attempts -> {"none", "open", "destroyed", "closed"}],
         ToFinalAfter(armed, handle, socks),
         armed \subseteq {handle},
         closed => armed = {} /\ handle = 0 /\ ~retryTimer,
         \A a \in Attempts : \/ socks[a] = sockets[a]
                             \/ sockets[a] = "destroyed" /\ socks[a] = "closed",
         UNCHANGED <<config, attempt, retries, reroutes>>,
         \A a \in Attempts : dial'[a] = "none",
         token' => config.lateToken,
         ~config.lateToken => connects' <= 1
  PROVE  LoginInv'
<1>1. /\ state = "FINAL" => closed
      /\ ~closed => ends = 0
      /\ ~config.lateToken => ends <= 1
  BY DEF LoginInv, TypeOK, States, WhenNew, WhenConnecting, WhenTalking,
     WhenLoggedIn, BetweenAttempts, WhenOver, Untold, Talking, Between
<1>2. /\ state' = "FINAL" /\ closed' /\ Idle' /\ ~retryTimer'
      /\ ends' = IF closed THEN ends ELSE ends + 1
      /\ \A a \in Attempts :
           sockets'[a] = IF ~closed /\ a = socket /\ socks[a] = "open"
                           THEN "destroyed" ELSE socks[a]
  BY <1>1, ToFinalEffect DEF LoginInv
<1>3. attempt \in Attempts
  BY DEF LoginInv, OnlyCurrent, TypeOK, Attempts
<1>4. OnlyCurrent'
  BY <1>2, <1>3 DEF LoginInv, OnlyCurrent
<1>5. sockets[attempt] = "open" => ~closed /\ socket = attempt
  BY DEF LoginInv, TypeOK, States, WhenNew, WhenConnecting, WhenTalking,
     WhenLoggedIn, BetweenAttempts, WhenOver, Talking, Between
<1>6. WhenOver'
  BY <1>1, <1>2, <1>3, <1>5 DEF WhenOver
<1>7. Accounted'
  BY <1>2 DEF LoginInv, Accounted, AttemptsAccounted, Between
<1> QED
  BY <1>2, <1>4, <1>6, <1>7
     DEF LoginInv, WhenNew, WhenConnecting, WhenTalking, WhenLoggedIn,
         BetweenAttempts, Talking, Connected, LoginSent, Between

\* A conversation with the server has its socket open and no dial; its timer is
\* the only one.
LEMMA AnswerState ==
  ASSUME LoginInv, Answer
  PROVE  /\ state \in Connected /\ ~closed /\ socket = attempt
         /\ timers \subseteq {connectTimer}
         /\ \A a \in Attempts : dial[a] = "none"
         /\ state = "LOGGED_IN" \/ Untold
         /\ state = "LOGGED_IN" => connects = 1
         /\ token => state = "SENT_LOGIN7_WITH_FEDAUTH"
<1>1. attempt \in Attempts /\ socket \in Attempts /\ state # "INITIALIZED"
  BY DEF LoginInv, OnlyCurrent, TypeOK, Attempts, Answer
<1>2. socket = attempt
  BY <1>1 DEF LoginInv, OnlyCurrent, Answer
<1>3. state \in Connected /\ ~closed
  <2>1. state # "CONNECTING" /\ state # "FINAL" /\ state \notin Between
    BY <1>1, <1>2 DEF LoginInv, Answer, WhenConnecting, BetweenAttempts, WhenOver
  <2>2. state \in Connected
    BY <1>1, <2>1 DEF LoginInv, TypeOK, States, Between
  <2> QED
    BY <1>1, <1>2, <2>2 DEF LoginInv, Answer, WhenLoggedIn, WhenOver, Talking
<1>4. \A a \in Attempts : a # attempt => dial[a] = "none"
  BY DEF LoginInv, OnlyCurrent
<1> QED
  BY <1>1, <1>2, <1>3, <1>4 DEF LoginInv, WhenTalking, WhenLoggedIn, Talking,
     Armed, Idle

\* Starting an attempt when the one before it left nothing (initialiseConnection).
LEMMA NextAttempt ==
  ASSUME LoginInv, TypeOK', StartAttempt, Idle, ~retryTimer', ~token', Untold',
         UNCHANGED <<config, retries, reroutes>>,
         attempt <= retries + reroutes,
         \A a \in Attempts : /\ dial[a] = "none"
                             /\ sockets'[a] \in {"none", "closed"}
                             /\ a > attempt => sockets'[a] = "none"
  PROVE  LoginInv'
<1>1. /\ state' = "CONNECTING" /\ attempt' = attempt + 1 /\ attempt' # 0
      /\ attempt' \in Attempts /\ attempt \in Nat
  BY AttemptsExist DEF StartAttempt, LoginInv, TypeOK, Attempts
<1>2. \A a \in Attempts : IF a = attempt' THEN dial'[a] # "none"
                                          ELSE dial'[a] = "none"
  BY <1>1 DEF StartAttempt, LoginInv, TypeOK
<1>3. Armed'
  BY <1>1 DEF StartAttempt, Armed, Idle
<1>4. OnlyCurrent' /\ WhenConnecting'
  BY <1>1, <1>2, <1>3 DEF OnlyCurrent, WhenConnecting, Untold, Attempts
<1>5. Accounted'
  BY <1>1 DEF Accounted, AttemptsAccounted, Between, LoginInv, TypeOK
<1> QED
  BY <1>1, <1>4, <1>5 DEF LoginInv, WhenNew, WhenTalking, WhenLoggedIn,
     BetweenAttempts, WhenOver, Talking, Connected, LoginSent, Between

\* A step of the handshake that only changes the state.
LEMMA HandshakeGoesOn ==
  ASSUME LoginInv, TypeOK', Answer, state # "LOGGED_IN", state' \in Talking,
         UNCHANGED <<config, closed, attempt, retries, reroutes, timing, wire,
                     events>>,
         token' => state' = "SENT_LOGIN7_WITH_FEDAUTH"
  PROVE  LoginInv'
<1>1. state \in Talking /\ ~closed
  BY AnswerState DEF Talking
<1>2. WhenTalking' /\ OnlyCurrent'
  BY <1>1 DEF LoginInv, WhenTalking, OnlyCurrent, Armed, Untold, timing, wire,
     events, Talking, Connected, LoginSent
<1> QED
  BY <1>1, <1>2
     DEF LoginInv, Accounted, AttemptsAccounted, WhenNew, WhenConnecting,
         WhenLoggedIn, BetweenAttempts, WhenOver, Talking, Connected, LoginSent,
         Between

\* An attempt that is given up for a retry or a reroute.
LEMMA GivenUpForNext ==
  ASSUME LoginInv, TypeOK', Answer, state # "LOGGED_IN", ~token,
         NEW type, type # "NORMAL", CleanUp(type), state' \in Between,
         attempt <= retries' + reroutes',
         UNCHANGED <<config, attempt, token, dial, socket, connects>>
  PROVE  LoginInv'
<1>1. /\ state \in Talking /\ ~closed /\ socket = attempt /\ Untold
      /\ timers \subseteq {connectTimer} /\ \A a \in Attempts : dial[a] = "none"
      /\ sockets[attempt] = "open" /\ attempt \in Attempts
  BY AnswerState, SMTT(30) DEF Talking, Answer, LoginInv, TypeOK, Attempts
<1>2. /\ closed' /\ Idle' /\ ~retryTimer' /\ ends' = ends
      /\ \A a \in Attempts : sockets'[a] = IF a = attempt THEN "destroyed"
                                                          ELSE sockets[a]
  <2>1. TypeOK /\ sockets \in [Attempts -> {"none", "open", "destroyed", "closed"}]
    BY DEF LoginInv, TypeOK
  <2> QED
    BY <1>1, <2>1, CleanUpEffect DEF CleanUp
<1>3. OnlyCurrent'
  BY <1>1, <1>2 DEF LoginInv, OnlyCurrent, Between, Attempts
<1>4. BetweenAttempts'
  BY <1>1, <1>2 DEF BetweenAttempts, Untold
<1>5. Accounted'
  <2>1. attempt \in Nat /\ retries' \in Nat /\ reroutes' \in Nat
    BY DEF LoginInv, TypeOK
  <2>2. attempt' = attempt
    OBVIOUS
  <2>3. attempt' <= retries' + reroutes'
    BY <2>2
  <2>4. \A n, r, q \in Nat : n <= r + q => n <= 1 + r + q
    OBVIOUS
  <2>5. attempt' \in Nat /\ retries' \in Nat /\ reroutes' \in Nat
    BY <2>1, <2>2
  <2> QED
    BY <2>3, <2>4, <2>5 DEF Accounted, AttemptsAccounted
<1> QED
  BY <1>3, <1>4, <1>5 DEF LoginInv, WhenNew, WhenConnecting, WhenTalking,
     WhenLoggedIn, WhenOver, Talking, Connected, LoginSent, Between

LEMMA LoginNext ==
  ASSUME ~EarlyClose, LoginInv, [Next]_vars
  PROVE  LoginInv'
<1>0. TypeOK /\ TypeOK'
  BY TypeNext DEF LoginInv
<1>1. /\ attempt \in Nat /\ (attempt # 0 <=> state # "INITIALIZED")
      /\ attempt # 0 => attempt \in Attempts
  BY <1>0 DEF LoginInv, OnlyCurrent, TypeOK, Attempts
<1>2. CASE Connect
  <2>1. attempt = 0 /\ Idle /\ Untold /\ ~token
    BY <1>1, <1>2 DEF Connect, LoginInv, WhenNew
  <2>2. \A a \in Attempts : dial[a] = "none" /\ sockets[a] = "none"
    BY <2>1 DEF LoginInv, OnlyCurrent, Attempts
  <2> QED
    BY <1>0, <1>2, <2>1, <2>2, NextAttempt
       DEF Connect, Untold, events, LoginInv, TypeOK, WhenNew
<1>3. CASE Close
  <2>1. state = "LOGGED_IN" /\ ToFinalAfter(timers, connectTimer, sockets)
    BY <1>3 DEF Close, ToFinal
  <2>2. \A a \in Attempts : dial[a] = "none"
    BY <1>1, <2>1 DEF LoginInv, OnlyCurrent, WhenLoggedIn
  <2> QED
    BY <1>0, <1>3, <2>1, <2>2, EndsOver
       DEF Close, LoginInv, TypeOK, WhenLoggedIn, Idle
<1>4. ASSUME Answer, ToFinal, UNCHANGED <<config, attempt, retries, reroutes, dial>>,
             token' => config.lateToken,
             state = "LOGGED_IN" => connects' = connects,
             state # "LOGGED_IN" => connects' \in {connects, connects + 1}
      PROVE  LoginInv'
  <2>1. ToFinalAfter(timers, connectTimer, sockets)
    BY <1>4 DEF ToFinal
  <2>2. connects' <= 1
    BY <1>4, AnswerState DEF Untold
  <2>3. state # "INITIALIZED" /\ ~closed /\ timers \subseteq {connectTimer}
    BY <1>4, AnswerState DEF Connected, LoginSent
  <2> QED
    BY <1>0, <1>1, <1>4, <2>1, <2>2, <2>3, AnswerState, EndsOver DEF TypeOK
<1>5. ASSUME NEW a \in Attempts, dial[a] # "none"
      PROVE  /\ a = attempt /\ state = "CONNECTING" /\ sockets[a] = "none"
             /\ Armed /\ connects = 0 /\ ends = 0 /\ ~retryTimer /\ ~token
  <2>1. a = attempt /\ attempt # 0
    BY <1>1, <1>5 DEF LoginInv, OnlyCurrent, Attempts
  <2>2. state = "CONNECTING"
    BY <1>0, <1>1, <1>5, <2>1
       DEF LoginInv, TypeOK, States, WhenTalking, WhenLoggedIn,
           BetweenAttempts, WhenOver, Talking, Between
  <2> QED
    BY <1>5, <2>1, <2>2 DEF LoginInv, WhenConnecting
<1>6. ASSUME NEW a \in Attempts, LookupDone(a) PROVE LoginInv'
  <2>1. a = attempt /\ state = "CONNECTING" /\ dial' = [dial EXCEPT ![a] = "tcp"]
    BY <1>5, <1>6 DEF LookupDone
  <2>2. OnlyCurrent' /\ WhenConnecting'
    BY <1>0, <1>5, <1>6, <2>1
       DEF LookupDone, LoginInv, OnlyCurrent, WhenConnecting, TypeOK, Armed,
           login, timing, events
  <2> QED
    BY <1>0, <1>6, <2>1, <2>2
       DEF LookupDone, LoginInv, Accounted, AttemptsAccounted, Between, WhenNew,
           WhenTalking, WhenLoggedIn, BetweenAttempts, WhenOver, Talking,
           Connected, LoginSent, login
<1>7. ASSUME NEW a \in Attempts, LookupFails(a) PROVE LoginInv'
  <2>1. /\ a = attempt /\ state = "CONNECTING" /\ dial' = [dial EXCEPT ![a] = "none"]
        /\ Idle' /\ connects' = 1
    BY <1>5, <1>7 DEF LookupFails, ClearConnectTimer, Armed, Idle
  <2>2. OnlyCurrent' /\ WhenConnecting'
    BY <1>0, <1>5, <1>7, <2>1
       DEF LookupFails, LoginInv, OnlyCurrent, WhenConnecting, TypeOK, login
  <2> QED
    BY <1>0, <1>7, <2>1, <2>2
       DEF LookupFails, LoginInv, Accounted, AttemptsAccounted, Between, WhenNew,
           WhenTalking, WhenLoggedIn, BetweenAttempts, WhenOver, Talking,
           Connected, LoginSent, login
<1>8. ASSUME NEW a \in Attempts, DialDone(a) PROVE LoginInv'
  <2>1. /\ a = attempt /\ state' = "SENT_PRELOGIN" /\ ~closed' /\ socket' = a
        /\ dial' = [dial EXCEPT ![a] = "none"]
        /\ sockets' = [sockets EXCEPT ![a] = "open"]
    BY <1>5, <1>8 DEF DialDone
  <2>2. OnlyCurrent' /\ WhenTalking'
    BY <1>0, <1>1, <1>5, <1>8, <2>1
       DEF DialDone, LoginInv, OnlyCurrent, WhenTalking, TypeOK, Armed, Untold,
           timing, events
  <2>3. Accounted'
    BY <1>8, <2>1 DEF DialDone, LoginInv, Accounted, AttemptsAccounted, Between
  <2> QED
    BY <1>0, <2>1, <2>2, <2>3
       DEF LoginInv, WhenNew, WhenConnecting, WhenLoggedIn, BetweenAttempts,
           Between, WhenOver
<1>9. ASSUME NEW a \in Attempts, DialFails(a) PROVE LoginInv'
  <2>1. /\ a = attempt /\ state = "CONNECTING" /\ Armed /\ ~retryTimer /\ ~token
        /\ connects' = 1
    BY <1>5, <1>9 DEF DialFails, ReportSocketError, ReportSocketErrors
  <2>2. /\ ToFinalAfter(timers \ {connectTimer}, 0, sockets)
        /\ timers \ {connectTimer} = {}
        /\ \A b \in Attempts : dial'[b] = "none"
    BY <1>0, <1>9, <2>1 DEF DialFails, Armed, LoginInv, OnlyCurrent, TypeOK
  <2>3. /\ UNCHANGED <<config, attempt, retries, reroutes, token>>
        /\ sockets \in [Attempts -> {"none", "open", "destroyed", "closed"}]
    BY <1>0, <1>9 DEF DialFails, TypeOK
  <2> QED
    BY <1>0, <2>1, <2>2, <2>3, EndsOver
<1>10. CASE PreloginAnswered
  <2>1. CASE Fail
    BY <1>4, <1>10, <2>1, AnswerState DEF PreloginAnswered, Fail
  <2>2. CASE /\ state' \in {LoginState, "SENT_TLSSSLNEGOTIATION"}
             /\ UNCHANGED <<closed, timing, sockets, events>>
    <3>1. Answer /\ state # "LOGGED_IN" /\ ~token
      BY <1>10, AnswerState DEF PreloginAnswered
    <3>2. state' \in Talking
      BY <1>0, <2>2, LoginStates DEF Talking, Connected, LoginSent
    <3>3. UNCHANGED <<config, closed, attempt, retries, reroutes, token, timing,
                      wire, events>>
      BY <1>10, <2>2 DEF PreloginAnswered, wire
    <3> QED
      BY <1>0, <3>1, <3>2, <3>3, HandshakeGoesOn
  <2> QED
    BY <1>10, <2>1, <2>2 DEF PreloginAnswered
<1>11. CASE TlsNegotiated
  BY <1>0, <1>11, LoginStates, AnswerState, HandshakeGoesOn
     DEF TlsNegotiated, Talking, Connected, LoginSent
<1>12. CASE LoginAcknowledged
  BY <1>0, <1>12, HandshakeGoesOn
     DEF LoginAcknowledged, Talking, Connected, LoginSent
<1>13. CASE TokenDemanded
  BY <1>0, <1>13, HandshakeGoesOn
     DEF TokenDemanded, Talking, Connected, LoginSent
<1>14. CASE TlsFails
  <2>1. ToFinal /\ connects' = connects + 1 /\ ~token
    BY <1>14, AnswerState DEF TlsFails, SocketErrorHandler, ReportSocketError, ReportSocketErrors
  <2> QED
    BY <1>4, <1>14, <2>1 DEF TlsFails
<1>15. CASE LoginRerouted
  <2>1. /\ Answer /\ state # "LOGGED_IN" /\ ~token /\ CleanUp("REDIRECT")
        /\ UNCHANGED <<config, attempt, token, dial, socket, connects>>
    BY <1>15 DEF LoginRerouted, LoginSent
  <2>2. attempt <= retries' + reroutes'
    BY <1>0, <1>15 DEF LoginRerouted, LoginInv, Accounted, AttemptsAccounted, TypeOK
  <2>3. state' \in Between
    BY <1>15 DEF LoginRerouted, Between
  <2> QED
    BY <1>0, <2>1, <2>2, <2>3, GivenUpForNext
<1>16. CASE LoginRefused
  <2>1. CASE state' = "TRANSIENT_FAILURE_RETRY"
    <3>1. /\ Answer /\ state # "LOGGED_IN" /\ ~token /\ CleanUp("RETRY")
          /\ UNCHANGED <<config, attempt, token, dial, socket, connects>>
          /\ retries' = retries + 1
      BY <1>16, <2>1 DEF LoginRefused, LoginSent, Fail, ToFinal, ToFinalAfter
    <3>2. attempt <= retries' + reroutes'
      BY <1>0, <1>16, <3>1
         DEF LoginRefused, LoginInv, Accounted, AttemptsAccounted, TypeOK
    <3> QED
      BY <1>0, <2>1, <3>1, <3>2, GivenUpForNext DEF Between
  <2>2. CASE Fail /\ UNCHANGED retries
    BY <1>4, <1>16, <2>2 DEF LoginRefused, LoginSent, Fail
  <2> QED
    BY <1>16, <2>1, <2>2 DEF LoginRefused
<1>17. CASE InitialSqlDone
  <2>1. /\ state' = "LOGGED_IN" /\ Answer /\ state = "LOGGED_IN_SENDING_INITIAL_SQL"
        /\ connects' = connects + 1
        /\ UNCHANGED <<closed, attempt, retries, reroutes, token, retryTimer,
                       dial, sockets, socket, ends>>
        /\ timers' = timers \ {connectTimer} /\ connectTimer' = 0
    BY <1>17 DEF InitialSqlDone, ClearConnectTimer, wire
  <2>2. /\ state \in Talking /\ ~closed
    BY <2>1, AnswerState DEF Talking
  <2>3. WhenLoggedIn'
    BY <2>1, <2>2 DEF LoginInv, WhenTalking, WhenLoggedIn, Armed, Idle, Untold
  <2> QED
    BY <1>0, <2>1, <2>2, <2>3
       DEF LoginInv, OnlyCurrent, Accounted, AttemptsAccounted, Between, WhenNew,
           WhenConnecting, WhenTalking, BetweenAttempts, WhenOver, Talking
<1>18. CASE ConnectionLost
  <2>1. /\ Answer /\ ToFinal /\ UNCHANGED <<config, attempt, retries, reroutes, dial, token>>
        /\ connects' \in {connects, connects + 1}
        /\ state = "LOGGED_IN" => connects' = connects
    BY <1>18 DEF ConnectionLost, ReportSocketErrors
  <2>2. token => config.lateToken
    BY <1>18 DEF ConnectionLost, TokenOut
  <2> QED
    BY <1>4, <2>1, <2>2
<1>19. ASSUME token
       PROVE  \/ Answer /\ state = "SENT_LOGIN7_WITH_FEDAUTH"
              \/ /\ config.lateToken /\ closed /\ Idle /\ ~retryTimer
                 /\ state = "FINAL" \/ state \in Talking
                 /\ \A a \in Attempts : dial[a] = "none"
  <2>1. state = "FINAL" \/ state \in Talking
    BY <1>0, <1>19 DEF LoginInv, TypeOK, States, WhenNew, WhenConnecting,
       WhenLoggedIn, BetweenAttempts, Between, Talking
  <2>2. attempt \in Attempts /\ attempt # 0
    BY <1>1, <2>1 DEF Talking, Connected, LoginSent, Attempts
  <2>3. CASE state \in Talking /\ ~closed
    BY <1>19, <2>2, <2>3 DEF LoginInv, WhenTalking, Answer
  <2>4. CASE state = "FINAL" \/ (state \in Talking /\ closed)
    BY <1>19, <2>2, <2>4 DEF LoginInv, WhenOver, OnlyCurrent
  <2> QED
    BY <2>1, <2>3, <2>4
<1>20. CASE GotToken
  <2>1. /\ token /\ ~token' /\ state' = "SENT_LOGIN7_WITH_STANDARD_LOGIN"
        /\ UNCHANGED <<config, closed, attempt, retries, reroutes, timing, wire, events>>
    BY <1>20 DEF GotToken
  <2>2. state' \in Talking
    BY <2>1 DEF Talking, Connected, LoginSent
  <2>3. CASE Answer /\ state = "SENT_LOGIN7_WITH_FEDAUTH"
    BY <1>0, <2>1, <2>2, <2>3, HandshakeGoesOn
  <2>4. CASE ~(Answer /\ state = "SENT_LOGIN7_WITH_FEDAUTH")
    <3>1. config.lateToken /\ closed /\ (state = "FINAL" \/ state \in Talking)
      BY <1>19, <2>1, <2>4
    <3>2. WhenOver'
      BY <2>1, <3>1 DEF LoginInv, WhenOver, Idle, timing, wire
    <3>3. OnlyCurrent'
      BY <1>1, <2>1, <3>1 DEF LoginInv, OnlyCurrent, wire, Talking, Connected, LoginSent
    <3> QED
      BY <1>0, <2>1, <3>1, <3>2, <3>3
         DEF LoginInv, Accounted, AttemptsAccounted, Between, WhenNew,
             WhenConnecting, WhenTalking, WhenLoggedIn, BetweenAttempts
  <2> QED
    BY <2>3, <2>4
<1>21. CASE TokenFails
  <2>1. /\ token /\ ~token' /\ ToFinal /\ connects' = connects + 1
        /\ UNCHANGED <<config, attempt, retries, reroutes, dial>>
    BY <1>21 DEF TokenFails, Fail
  <2>2. CASE Answer /\ state = "SENT_LOGIN7_WITH_FEDAUTH"
    BY <1>4, <2>1, <2>2
  <2>3. CASE ~(Answer /\ state = "SENT_LOGIN7_WITH_FEDAUTH")
    <3>1. /\ config.lateToken /\ closed /\ Idle /\ ~retryTimer
          /\ state # "INITIALIZED" /\ \A a \in Attempts : dial[a] = "none"
      BY <1>19, <2>1, <2>3 DEF Talking, Connected, LoginSent
    <3>2. /\ ToFinalAfter(timers, connectTimer, sockets)
          /\ timers = {} /\ connectTimer = 0
          /\ sockets \in [Attempts -> {"none", "open", "destroyed", "closed"}]
      BY <1>0, <2>1, <3>1 DEF ToFinal, TypeOK, Idle
    <3> QED
      BY <1>0, <2>1, <3>1, <3>2, EndsOver
  <2> QED
    BY <2>2, <2>3
<1>22. CASE RetryTimeout
  <2>1. state = "TRANSIENT_FAILURE_RETRY"
    BY <1>0, <1>22 DEF RetryTimeout, LoginInv, TypeOK, States, WhenNew,
       WhenConnecting, WhenTalking, WhenLoggedIn, BetweenAttempts, WhenOver,
       Talking, Between
  <2>2. /\ Idle /\ ~token /\ Untold /\ attempt <= retries + reroutes
        /\ dial[attempt] = "none" /\ sockets[attempt] = "closed"
    BY <1>22, <2>1 DEF RetryTimeout, LoginInv, BetweenAttempts, Between, Accounted
  <2>3. \A a \in Attempts : /\ dial[a] = "none" /\ sockets[a] \in {"none", "closed"}
                            /\ a > attempt => sockets[a] = "none"
    BY <2>2 DEF LoginInv, OnlyCurrent
  <2> QED
    BY <1>0, <1>22, <2>2, <2>3, NextAttempt DEF RetryTimeout, Untold, events
<1>23. ASSUME NEW a \in Attempts, ConnectTimeout(a) PROVE LoginInv'
  <2>1. state = "CONNECTING" \/ (state \in Talking /\ ~closed)
    BY <1>0, <1>23 DEF ConnectTimeout, LoginInv, TypeOK, States, WhenNew,
       WhenLoggedIn, BetweenAttempts, WhenOver, Talking, Between, Idle
  <2>2. Armed /\ connects = 0 /\ ~retryTimer /\ a = attempt
    BY <1>23, <2>1 DEF ConnectTimeout, LoginInv, WhenConnecting, WhenTalking,
       Armed, Idle, Untold
  <2>3. /\ ToFinalAfter(timers \ {a}, 0, sockets) /\ timers \ {a} = {}
        /\ connects' = 1 /\ state # "INITIALIZED"
        /\ sockets \in [Attempts -> {"none", "open", "destroyed", "closed"}]
        /\ UNCHANGED <<config, attempt, retries, reroutes, token>>
    BY <1>0, <1>23, <2>1, <2>2
       DEF ConnectTimeout, Armed, TypeOK, Talking, Connected, LoginSent
  <2>4. token => config.lateToken
    BY <1>23 DEF ConnectTimeout, TokenOut
  <2>5. \A b \in Attempts : dial'[b] = "none"
    BY <1>0, <1>23, <2>2 DEF ConnectTimeout, LoginInv, OnlyCurrent, TypeOK
  <2> QED
    BY <1>0, <2>2, <2>3, <2>4, <2>5, EndsOver
<1>24. ASSUME NEW a \in Attempts, SocketClose(a) PROVE LoginInv'
  <2> DEFINE socks == [sockets EXCEPT ![a] = "closed"]
  <2>1. /\ a = attempt /\ attempt # 0 /\ sockets[a] = "destroyed"
        /\ UNCHANGED <<config, retries, reroutes, token, socket, connects>>
        /\ socks \in [Attempts -> {"none", "open", "destroyed", "closed"}]
    BY <1>0, <1>24, SMTT(30) DEF SocketClose, LoginInv, OnlyCurrent, TypeOK, Attempts
  <2>2. CASE state \in Between
    <3>1. /\ closed /\ Idle /\ ~token /\ ~retryTimer /\ Untold
          /\ attempt <= retries + reroutes /\ dial[attempt] = "none"
      BY <2>1, <2>2 DEF LoginInv, BetweenAttempts, Accounted
    <3>2. \A b \in Attempts : /\ dial[b] = "none" /\ socks[b] \in {"none", "closed"}
                              /\ b > attempt => socks[b] = "none"
      BY <1>0, <2>1, <3>1 DEF LoginInv, OnlyCurrent, TypeOK
    <3>3. CASE state = "REROUTING"
      <4>1. StartAttempt /\ sockets' = socks /\ UNCHANGED <<closed, retryTimer, ends>>
        BY <1>24, <3>3 DEF SocketClose
      <4> QED
        BY <1>0, <2>1, <3>1, <3>2, <4>1, NextAttempt DEF Untold
    <3>4. CASE state = "TRANSIENT_FAILURE_RETRY"
      <4>1. /\ retryTimer' /\ sockets' = socks
            /\ UNCHANGED <<state, closed, attempt, timers, connectTimer, dial, ends>>
        BY <1>24, <3>4 DEF SocketClose
      <4>2. socks[attempt] = "closed"
        BY <1>0, <2>1 DEF TypeOK
      <4>3. BetweenAttempts'
        BY <2>1, <3>1, <3>4, <4>1, <4>2 DEF BetweenAttempts, Idle, Untold
      <4>4. OnlyCurrent'
        BY <2>1, <3>2, <3>4, <4>1 DEF LoginInv, OnlyCurrent
      <4> QED
        BY <1>0, <2>1, <3>4, <4>1, <4>3, <4>4
           DEF LoginInv, Accounted, AttemptsAccounted, Between, WhenNew,
               WhenConnecting, WhenTalking, WhenLoggedIn, WhenOver, Talking,
               Connected, LoginSent
    <3> QED
      BY <2>2, <3>3, <3>4 DEF Between
  <2>3. CASE state \notin Between
    <3>1. /\ ToFinalAfter(timers, connectTimer, socks)
          /\ UNCHANGED <<attempt, dial>>
      BY <1>24, <2>3 DEF SocketClose, Between
    <3>2. state = "FINAL" \/ (state \in Talking /\ closed)
      BY <1>0, <1>1, <2>1, <2>3
         DEF LoginInv, TypeOK, States, WhenConnecting, WhenTalking, WhenLoggedIn,
             Talking, Between
    <3>3. /\ closed /\ timers = {} /\ connectTimer = 0 /\ ~retryTimer
          /\ token => config.lateToken
          /\ ~config.lateToken => connects <= 1
          /\ \A b \in Attempts : dial[b] = "none"
      BY <1>0, <3>2 DEF LoginInv, WhenOver, OnlyCurrent, Idle
    <3>4. /\ state # "INITIALIZED"
          /\ \A b \in Attempts : \/ socks[b] = sockets[b]
                                 \/ sockets[b] = "destroyed" /\ socks[b] = "closed"
      BY <1>0, <2>1, <3>2 DEF TypeOK, Talking, Connected, LoginSent
    <3>5. UNCHANGED <<config, attempt, retries, reroutes, token, connects, dial>>
      BY <2>1, <3>1
    <3> HIDE DEF socks
    <3> QED
      BY <1>0, <2>1, <3>1, <3>3, <3>4, <3>5, EndsOver
  <2> QED
    BY <2>2, <2>3
<1>25. CASE UNCHANGED vars
  BY <1>0, <1>25
     DEF vars, login, timing, wire, events, LoginInv, OnlyCurrent, Accounted,
         AttemptsAccounted, WhenNew, WhenConnecting, WhenTalking, WhenLoggedIn,
         BetweenAttempts, WhenOver, Idle, Armed, Untold
<1> QED
  BY <1>2, <1>3, <1>6, <1>7, <1>8, <1>9, <1>10, <1>11, <1>12, <1>13, <1>14,
     <1>15, <1>16, <1>17, <1>18, <1>20, <1>21, <1>22, <1>23, <1>24, <1>25
     DEF Next, Timer, Dialing, Conversation

---------------------------------------------------------------------------

\* The invariant of a connection that comes up, when close() is left to
\* connections that are up.
THEOREM LoginInvariant == ASSUME ~EarlyClose PROVE Spec => []LoginInv
<1>1. LoginInv /\ [Next]_vars => LoginInv'
  BY LoginNext
<1> QED
  BY <1>1, LoginInit, PTL DEF Spec

\* The state stays well typed (all of the coming up of a connection).
THEOREM LoginTypes == Spec => []TypeOK
BY TypeInit, TypeNext, PTL DEF Spec

\* No connect or retry timer survives success or failure (processedInitialSql,
\* cleanupConnection).
THEOREM TimersAreStopped == ASSUME ~EarlyClose PROVE Spec => []NoStrayTimers
<1>1. LoginInv => NoStrayTimers
  BY DEF LoginInv, NoStrayTimers, WhenLoggedIn, WhenOver, Idle
<1> QED
  BY <1>1, LoginInvariant, PTL

\* No attempt, reroute, retry or failure leaks a socket (closeConnection).
THEOREM SocketsAreClosed == ASSUME ~EarlyClose PROVE Spec => []NoOrphanSocket
<1>1. LoginInv => NoOrphanSocket
  <2> SUFFICES ASSUME LoginInv, NEW a \in Attempts, sockets[a] = "open"
               PROVE  a = socket /\ state \in Connected
    BY DEF NoOrphanSocket
  <2>1. a = attempt /\ state # "INITIALIZED"
    BY DEF LoginInv, OnlyCurrent, Attempts
  <2>2. state \in Connected
    BY <2>1 DEF LoginInv, TypeOK, States, WhenConnecting, BetweenAttempts,
       Between, WhenOver
  <2> QED
    BY <2>1, <2>2 DEF LoginInv, WhenTalking, WhenLoggedIn, WhenOver, Talking
<1> QED
  BY <1>1, LoginInvariant, PTL

\* The user is told of the outcome at most once (connect).
THEOREM ConnectIsToldOnce == ASSUME ~EarlyClose PROVE Spec => []ConnectOnce
<1>1. LoginInv => ConnectOnce
  BY DEF LoginInv, TypeOK, States, ConnectOnce, WhenNew, WhenConnecting,
     WhenTalking, WhenLoggedIn, BetweenAttempts, WhenOver, Talking, Between, Untold
<1> QED
  BY <1>1, LoginInvariant, PTL

\* After the end event nothing is left that could bring the connection up
\* again (cleanupConnection).
THEOREM EndIsFinal == ASSUME ~EarlyClose PROVE Spec => []EndIsTheEnd
<1>1. LoginInv => EndIsTheEnd
  <2> SUFFICES ASSUME LoginInv, ends > 0, ~config.lateToken
               PROVE  /\ state = "FINAL" /\ ends = 1 /\ ~retryTimer
                      /\ \A a \in Attempts : dial[a] = "none" /\ sockets[a] # "open"
    BY DEF EndIsTheEnd
  <2>1. state = "FINAL"
    BY DEF LoginInv, TypeOK, States, WhenNew, WhenConnecting, WhenTalking,
       WhenLoggedIn, BetweenAttempts, WhenOver, Talking, Between, Untold
  <2> QED
    BY <2>1 DEF LoginInv, TypeOK, WhenOver, OnlyCurrent
<1> QED
  BY <1>1, LoginInvariant, PTL

\* The bound on attempts is no restriction: each is paid for by a retry or a
\* reroute (REROUTING, TRANSIENT_FAILURE_RETRY).
THEOREM AttemptsArePaidFor == ASSUME ~EarlyClose PROVE Spec => []AttemptsAccounted
<1>1. LoginInv => AttemptsAccounted
  BY DEF LoginInv, Accounted
<1> QED
  BY <1>1, LoginInvariant, PTL

---------------------------------------------------------------------------
(* Nobody who connects is forgotten: what fairness then turns into         *)
(* ConnectReports.                                                         *)

Over == state = "FINAL" \/ (state \in Talking /\ closed)
OverIsTold == Over => connects + errors > 0

\* Events are counted, never taken back.
LEMMA EventsAreCounted ==
  ASSUME [Next]_vars, connects \in Nat, errors \in Nat
  PROVE  connects' \in {connects, connects + 1} /\ errors' \in {errors, errors + 1, errors + 2}
<1>0. \A later \in {0, 1} : ReportSocketErrors(later) =>
        connects' \in {connects, connects + 1} /\ errors' \in {errors, errors + 1, errors + 2}
  BY DEF ReportSocketErrors
<1> USE DEF login, timing, wire, events, ReportSocketError, SocketErrorHandler, Fail
<1>1. CASE UNCHANGED vars
  BY <1>1 DEF vars
<1>2. CASE Connect \/ Close
  BY <1>2 DEF Connect, Close
<1>3. CASE Timer
  BY <1>3 DEF Timer, RetryTimeout, ConnectTimeout, SocketClose
<1>4. CASE \E a \in Attempts : Dialing(a)
  BY <1>0, <1>4 DEF Dialing, LookupDone, LookupFails, DialDone, DialFails
<1>5. CASE Conversation
  <2>1. CASE PreloginAnswered \/ TlsNegotiated \/ TlsFails \/ LoginAcknowledged
    BY <1>0, <2>1 DEF PreloginAnswered, TlsNegotiated, TlsFails, LoginAcknowledged
  <2>2. CASE LoginRerouted \/ LoginRefused \/ TokenDemanded \/ GotToken
    BY <2>2 DEF LoginRerouted, LoginRefused, TokenDemanded, GotToken
  <2>3. CASE TokenFails \/ InitialSqlDone \/ ConnectionLost
    BY <1>0, <2>3 DEF TokenFails, InitialSqlDone, ConnectionLost
  <2> QED
    BY <1>5, <2>1, <2>2, <2>3 DEF Conversation
<1> QED
  BY <1>1, <1>2, <1>3, <1>4, <1>5 DEF Next

\* A step after which a connection is over, and was not before, tells of it.
LEMMA EndingTells ==
  ASSUME ~EarlyClose, LoginInv, LoginInv', [Next]_vars, ~Over, connects = 0, errors = 0,
         connects' = 0, errors' = 0
  PROVE  ~Over'
<1> USE DEF login, timing, wire, events, ReportSocketError, ReportSocketErrors, SocketErrorHandler, Fail
<1>0. /\ state # "FINAL" /\ (state \in Talking => ~closed) /\ state # "LOGGED_IN"
  BY DEF Over, LoginInv, WhenLoggedIn
<1>talk. /\ LoginState \in LoginSent
         /\ \A x : x \in LoginSent => x # "FINAL" /\ x \in Talking
  BY LoginStates DEF LoginInv, LoginSent, Talking, Connected
<1>1. CASE UNCHANGED vars
  BY <1>0, <1>1 DEF vars, Over
<1>2. CASE Connect \/ Close
  BY <1>0, <1>2 DEF Connect, Close, StartAttempt, Over, Talking, Connected, LoginSent
<1>3. ASSUME NEW a \in Attempts, ConnectTimeout(a)
      PROVE  FALSE
  BY <1>3 DEF ConnectTimeout
<1>4. CASE RetryTimeout
  BY <1>4 DEF RetryTimeout, StartAttempt, Over, Talking, Connected, LoginSent
<1>5. ASSUME NEW a \in Attempts, SocketClose(a)
      PROVE  ~Over'
  <2>1. a = attempt /\ state # "INITIALIZED"
    BY <1>5 DEF LoginInv, OnlyCurrent, SocketClose, Attempts
  <2>2. state \in Between
    BY <1>0, <1>5, <2>1
       DEF SocketClose, LoginInv, TypeOK, States, WhenConnecting, WhenTalking, Talking, Between
  <2>3. state' \in Between \cup {"CONNECTING"}
    BY <1>5, <2>2 DEF SocketClose, StartAttempt, Between
  <2> QED
    BY <2>3 DEF Over, Between, Talking, Connected, LoginSent
<1>6. ASSUME NEW a \in Attempts, Dialing(a)
      PROVE  ~Over'
  <2>1. CASE LookupDone(a)
    BY <1>0, <2>1 DEF LookupDone, Over
  <2>2. CASE LookupFails(a) \/ DialFails(a)
    BY <2>2 DEF LookupFails, DialFails
  <2>3. CASE DialDone(a)
    BY <2>3 DEF DialDone, Over
  <2> QED
    BY <1>6, <2>1, <2>2, <2>3 DEF Dialing
<1>7. CASE Conversation
  <2>1. CASE PreloginAnswered
    BY <1>0, <1>talk, <2>1 DEF PreloginAnswered, Over, Talking, Connected, LoginSent
  <2>2. CASE TlsNegotiated \/ LoginAcknowledged \/ TokenDemanded
    BY <1>0, <1>talk, <2>2
       DEF TlsNegotiated, LoginAcknowledged, TokenDemanded, Over, Talking, Connected, LoginSent
  <2>3. CASE TlsFails \/ TokenFails \/ InitialSqlDone \/ ConnectionLost
    BY <2>3 DEF TlsFails, TokenFails, InitialSqlDone, ConnectionLost
  <2>4. CASE LoginRerouted
    BY <2>4 DEF LoginRerouted, Over, Talking, Connected, LoginSent
  <2>5. CASE LoginRefused
    BY <2>5 DEF LoginRefused, Over, Talking, Connected, LoginSent
  <2>6. CASE GotToken
    <3>1. state \in Talking
      <4>1. state # "INITIALIZED" /\ state # "CONNECTING" /\ state \notin Between
        BY <2>6 DEF GotToken, LoginInv, WhenNew, WhenConnecting, BetweenAttempts
      <4> QED
        BY <1>0, <4>1 DEF LoginInv, TypeOK, States, Talking, Between
    <3> QED
      BY <1>0, <2>6, <3>1 DEF GotToken, Over
  <2> QED
    BY <1>7, <2>1, <2>2, <2>3, <2>4, <2>5, <2>6 DEF Conversation
<1> QED
  BY <1>1, <1>2, <1>3, <1>4, <1>5, <1>6, <1>7 DEF Next, Timer

\* Whoever called connect() and has not heard of the outcome is owed an event that
\* comes without the server and the network: a connect timer or the retry timer is
\* armed, or the close event of a destroyed socket is due (connectTimeout,
\* retryTimeout, socketClose).
THEOREM NobodyIsForgotten ==
  ASSUME ~EarlyClose
  PROVE  Spec => [](state # "INITIALIZED" /\ connects = 0 /\ errors = 0 =>
                      \/ timers # {} \/ retryTimer
                      \/ \E a \in Attempts : sockets[a] = "destroyed")
<1>1. Init => OverIsTold
  BY DEF Init, OverIsTold, Over, Talking, Connected, LoginSent
<1>2. LoginInv /\ LoginInv' /\ OverIsTold /\ [Next]_vars => OverIsTold'
  <2> SUFFICES ASSUME LoginInv, LoginInv', OverIsTold, [Next]_vars, Over'
               PROVE  connects' + errors' > 0
    BY DEF OverIsTold
  <2>1. /\ connects \in Nat /\ errors \in Nat
        /\ connects' \in {connects, connects + 1} /\ errors' \in {errors, errors + 1, errors + 2}
    BY EventsAreCounted DEF LoginInv, TypeOK
  <2>2. ~(connects = 0 /\ errors = 0 /\ connects' = 0 /\ errors' = 0)
    BY EndingTells DEF OverIsTold
  <2>3. \A c, e \in Nat : ~(c = 0 /\ e = 0) => c + e > 0
    OBVIOUS
  <2>4. connects' \in Nat /\ errors' \in Nat /\ ~(connects' = 0 /\ errors' = 0)
    BY <2>1, <2>2
  <2> QED
    BY <2>3, <2>4
<1>3. ASSUME LoginInv, OverIsTold, state # "INITIALIZED", connects = 0, errors = 0
      PROVE  \/ timers # {} \/ retryTimer
             \/ \E a \in Attempts : sockets[a] = "destroyed"
  <2>1. ~Over /\ attempt \in Attempts
    BY <1>3 DEF OverIsTold, LoginInv, TypeOK, OnlyCurrent, Attempts
  <2>2. CASE state = "CONNECTING"
    BY <1>3, <2>2 DEF LoginInv, WhenConnecting, Armed
  <2>3. CASE state \in Talking
    <3>1. ~closed
      BY <2>1, <2>3, Zenon DEF Over
    <3>2. timers = {attempt}
      BY <1>3, <2>3, <3>1 DEF LoginInv, WhenTalking, Armed
    <3>3. timers # {}
      BY <3>2
    <3> QED
      BY <3>3, Zenon
  <2>4. CASE state \in Between
    <3>1. sockets[attempt] = "destroyed" \/ retryTimer
      BY <1>3, <2>4, Zenon DEF LoginInv, BetweenAttempts
    <3> QED
      BY <2>1, <3>1, Zenon
  <2> QED
    BY <1>3, <2>1, <2>2, <2>3, <2>4
       DEF LoginInv, TypeOK, States, WhenLoggedIn, Talking, Between, Over
<1> QED
  BY <1>1, <1>2, <1>3, LoginInvariant, PTL DEF Spec
=============================================================================
