------------------------------ MODULE Dialing ------------------------------
(***************************************************************************)
(* How one attempt of the tedious driver gets its socket: the port of a    *)
(* named instance is asked from the SQL Server Browser (instanceLookup,    *)
(* sendMessage, withTimeout), the host is resolved (lookupAllAddresses),   *)
(* and a socket per address is tried, one after the other or all at once   *)
(* (connectInSequence, connectInParallel), while the connect timer may     *)
(* abort whatever is going on.                                             *)
(*                                                                         *)
(* A step is one event - an answer of DNS, a datagram, a socket event, a   *)
(* timer - with the promise continuations it sets off, which run before    *)
(* the next event.  What an abort does depends on the listeners that the   *)
(* signal has at that moment, so these are part of the state.  DNS, the    *)
(* browser and the server are external.                                    *)
(***************************************************************************)
EXTENDS Naturals

CONSTANTS
  Retries,       \* instanceLookup's retries: RETRIES, or the caller's
  MaxAddresses   \* bound: addresses a name resolves to

ASSUME ConstantsAssumption == Retries \in Nat /\ MaxAddresses \in Nat \ {0}

VARIABLES
  config,       \* how the dial was asked for, see Config
  reachable,    \* the addresses at which a server listens
  stage,        \* where the dial is, or how it ended
  attempt,      \* i: the attempt of the lookup
  answered,     \* response: has an attempt of the lookup been answered?
  attemptTimer, \* is withTimeout's timer armed?
  addresses,    \* how many addresses the last name resolved to
  udp,          \* for each address: its datagram socket
  tcp,          \* for each address: its stream socket
  connectTimer, \* is the connect timer armed?
  aborted,      \* signal.aborted
  listeners     \* who listens for the abort of the connect timer's signal

looking == <<attempt, answered, attemptTimer, udp>>
outside == <<config, reachable>>
dialVars == <<outside, stage, looking, addresses, tcp, connectTimer, aborted, listeners>>

\* multiSubnetFailover; no options.port; the host is an IP address; is the timeout
\* of an attempt shorter than the connect timeout?  (A connection passes the
\* connect timeout for both, and the timer it armed first fires first.)
Config == [parallel : BOOLEAN, browser : BOOLEAN, ip : BOOLEAN, short : BOOLEAN]

Addresses == 1 .. MaxAddresses
Lookup == {"naming", "asking"}
Settled == stage \in {"connected", "failed", "aborted"}

DialTypeOK ==
  /\ config \in Config /\ reachable \in SUBSET Addresses
  /\ stage \in Lookup \cup {"resolving", "dialing", "connected", "failed", "aborted"}
  /\ attempt \in 0 .. Retries
  /\ answered \in BOOLEAN /\ attemptTimer \in BOOLEAN
  /\ addresses \in 0 .. MaxAddresses
  /\ udp \in [Addresses -> {"none", "open", "failed", "closed"}]
  /\ tcp \in [Addresses -> {"none", "connecting", "connected", "destroyed"}]
  /\ connectTimer \in BOOLEAN /\ aborted \in BOOLEAN
  /\ listeners \in SUBSET {"attempt", "resolving", "dialing"}

---------------------------------------------------------------------------
(* Sockets.                                                                *)

\* clearSockets of sendInParallel
ClosedUdp == [a \in Addresses |-> IF udp[a] = "none" THEN "none" ELSE "closed"]

\* sendInParallel: a datagram to each of n addresses.
FreshUdp(n) == [a \in Addresses |-> IF a <= n THEN "open" ELSE "none"]

\* destroy() of every stream socket but those of winners
DestroyedBut(winners) ==
  [a \in Addresses |-> IF tcp[a] = "none" THEN "none"
                       ELSE IF a \in winners THEN "connected" ELSE "destroyed"]

\* net.connect of every address at once, or of the first.
FreshTcp(n) ==
  [a \in Addresses |-> IF a <= (IF config.parallel THEN n ELSE 1) /\ a <= n
                         THEN "connecting" ELSE "none"]

---------------------------------------------------------------------------
(* How stages follow each other.  Each operator sets stage, addresses, tcp,*)
(* connectTimer and listeners.                                             *)

\* The promise is rejected: initialiseConnection and connectOnPort clear the
\* connect timer.
Fail(socks) ==
  /\ stage' = "failed" /\ connectTimer' = FALSE
  /\ listeners' = {} /\ tcp' = socks

\* connectInParallel and connectInSequence with n addresses.  No address at all
\* is an error in sequence, and in parallel a promise that only an abort settles.
Dial(n) ==
  /\ addresses' = n
  /\ IF n = 0 /\ ~config.parallel
       THEN Fail(tcp)
       ELSE /\ stage' = "dialing" /\ tcp' = FreshTcp(n)
            /\ listeners' = {"dialing"} /\ UNCHANGED connectTimer

\* Mutant of Resolve: the connect timer is cleared when the port is known.
ResolveUntimed ==
  IF config.ip
    THEN Dial(1)
    ELSE /\ stage' = "resolving" /\ listeners' = {"resolving"}
         /\ connectTimer' = FALSE /\ UNCHANGED <<addresses, tcp>>

\* lookupAllAddresses
Resolve ==
  IF config.ip
    THEN Dial(1)
    ELSE /\ stage' = "resolving" /\ listeners' = {"resolving"}
         /\ UNCHANGED <<addresses, tcp, connectTimer>>

\* Mutant of Ask: the attempt does not listen for the abort.
AskUnheard ==
  /\ attemptTimer' = TRUE /\ listeners' = {}
  /\ IF config.ip
       THEN stage' = "asking" /\ addresses' = 1 /\ udp' = FreshUdp(1)
       ELSE stage' = "naming" /\ UNCHANGED addresses /\ udp' = ClosedUdp
  /\ UNCHANGED <<tcp, connectTimer>>

\* sendMessage of an attempt, wrapped by withTimeout.
Ask ==
  /\ attemptTimer' = TRUE /\ listeners' = {"attempt"}
  /\ IF config.ip
       THEN stage' = "asking" /\ addresses' = 1 /\ udp' = FreshUdp(1)
       ELSE stage' = "naming" /\ UNCHANGED addresses /\ udp' = ClosedUdp
  /\ UNCHANGED <<tcp, connectTimer>>

\* The attempt of the lookup is over, by an answer or by its timeout, and the loop
\* goes on with the next, an answer or not.  After the last one the port is
\* looked for in the last answer.
EndAttempt(hasAnswer) ==
  /\ answered' = hasAnswer
  /\ IF attempt < Retries
       THEN attempt' = attempt + 1 /\ Ask
       ELSE /\ UNCHANGED attempt
            /\ udp' = ClosedUdp /\ attemptTimer' = FALSE
            /\ \/ hasAnswer /\ Resolve
               \/ Fail(tcp) /\ UNCHANGED addresses

\* Mutant of LookupFails: without the finally of withTimeout.
LookupFailsTimed ==
  /\ udp' = ClosedUdp /\ UNCHANGED attemptTimer
  /\ Fail(tcp) /\ UNCHANGED <<attempt, answered, addresses>>

\* An attempt of the lookup fails otherwise: the lookup gives up, even with an
\* answer to an earlier attempt at hand.
LookupFails ==
  /\ udp' = ClosedUdp /\ attemptTimer' = FALSE
  /\ Fail(tcp) /\ UNCHANGED <<attempt, answered, addresses>>

---------------------------------------------------------------------------
(* The lookup of the instance.                                             *)

\* The host of the browser is resolved to n addresses.
HostNamed ==
  /\ stage = "naming"
  /\ \E n \in 0 .. MaxAddresses :
       stage' = "asking" /\ addresses' = n /\ udp' = FreshUdp(n)
  /\ UNCHANGED <<outside, attempt, answered, attemptTimer, tcp, connectTimer,
                 aborted, listeners>>

NamingFails ==
  /\ stage = "naming"
  /\ LookupFails
  /\ UNCHANGED <<outside, aborted>>

\* onMessage: the first datagram that comes back is the answer.
BrowserAnswers ==
  /\ \E a \in Addresses : udp[a] = "open"
  /\ EndAttempt(TRUE)
  /\ UNCHANGED <<outside, aborted>>

\* onError of sendInParallel: the last error is the attempt's.
UdpFails ==
  /\ \E a \in Addresses :
       /\ udp[a] = "open"
       /\ IF \A b \in 1 .. addresses : b = a \/ udp[b] = "failed"
            THEN LookupFails
            ELSE /\ udp' = [udp EXCEPT ![a] = "failed"]
                 /\ UNCHANGED <<stage, attempt, answered, attemptTimer, addresses,
                                tcp, connectTimer, listeners>>
  /\ UNCHANGED <<outside, aborted>>

\* withTimeout's timer aborts the attempt's own signal: TimeoutError.
AttemptTimeout ==
  /\ attemptTimer /\ config.short
  /\ EndAttempt(answered)
  /\ UNCHANGED <<outside, aborted>>

---------------------------------------------------------------------------
(* The sockets.                                                            *)

HostResolved ==
  /\ stage = "resolving"
  /\ \E n \in 0 .. MaxAddresses : Dial(n)
  /\ UNCHANGED <<outside, looking, aborted>>

ResolvingFails ==
  /\ stage = "resolving"
  /\ Fail(tcp)
  /\ UNCHANGED <<outside, looking, addresses, aborted>>

\* Mutant of SocketConnects: the abort listener is not removed.
SocketConnectsHeard(a) ==
  /\ tcp[a] = "connecting" /\ a \in reachable
  /\ tcp' = DestroyedBut({a})
  /\ stage' = "connected" /\ UNCHANGED listeners
  /\ UNCHANGED <<outside, looking, addresses, connectTimer, aborted>>

\* onConnect: the others are destroyed, the promise resolves to this socket.
SocketConnects(a) ==
  /\ tcp[a] = "connecting" /\ a \in reachable
  /\ tcp' = DestroyedBut({a})
  /\ stage' = "connected" /\ listeners' = {}
  /\ UNCHANGED <<outside, looking, addresses, connectTimer, aborted>>

\* Mutant of SocketFails: the first error in parallel is the dial's.
SocketFailsFirst(a) ==
  LET failed == [tcp EXCEPT ![a] = "destroyed"]
      over == config.parallel \/ a = addresses
  IN /\ tcp[a] = "connecting" /\ a \notin reachable
     /\ IF over
          THEN Fail(failed)
          ELSE /\ tcp' = [failed EXCEPT ![a + 1] = "connecting"]
               /\ UNCHANGED <<stage, connectTimer, listeners>>
     /\ UNCHANGED <<outside, looking, addresses, aborted>>

\* onError: the promise fails with the last socket; in sequence the next address
\* follows.
SocketFails(a) ==
  LET failed == [tcp EXCEPT ![a] = "destroyed"]
      over == IF config.parallel
                THEN \A b \in 1 .. addresses : failed[b] = "destroyed"
                ELSE a = addresses
  IN /\ tcp[a] = "connecting" /\ a \notin reachable
     /\ IF over
          THEN Fail(failed)
          ELSE /\ tcp' = IF config.parallel THEN failed
                           ELSE [failed EXCEPT ![a + 1] = "connecting"]
               /\ UNCHANGED <<stage, connectTimer, listeners>>
     /\ UNCHANGED <<outside, looking, addresses, aborted>>

---------------------------------------------------------------------------
(* The connect timer aborts its signal.  An attempt's listener aborts the  *)
(* attempt's own signal, whose listeners close the datagram sockets; that  *)
(* of the stream sockets destroys them.  The listener of a name that is    *)
(* being resolved is the only one that is not removed.  A dial that is     *)
(* settled has no listener, and its socket stays as it is.                 *)

Abort ==
  /\ connectTimer /\ connectTimer' = FALSE
  /\ aborted' = TRUE
  /\ stage' = IF listeners = {} \/ Settled THEN stage ELSE "aborted"
  /\ IF "attempt" \in listeners
       THEN udp' = ClosedUdp /\ attemptTimer' = FALSE
       ELSE UNCHANGED <<udp, attemptTimer>>
  /\ tcp' = IF "dialing" \in listeners THEN DestroyedBut({}) ELSE tcp
  /\ listeners' = listeners \cap {"resolving"}
  /\ UNCHANGED <<outside, attempt, answered, addresses>>

---------------------------------------------------------------------------
\* initialiseConnection: the connect timer is armed, and the lookup or the dial has
\* got as far as it gets without waiting.
DialInit ==
  /\ config \in Config /\ reachable \in SUBSET Addresses
  /\ stage = IF config.browser THEN IF config.ip THEN "asking" ELSE "naming"
                               ELSE IF config.ip THEN "dialing" ELSE "resolving"
  /\ attempt = 0 /\ answered = FALSE /\ attemptTimer = config.browser
  /\ addresses = IF config.ip THEN 1 ELSE 0
  /\ udp = FreshUdp(IF stage = "asking" THEN 1 ELSE 0)
  /\ tcp = FreshTcp(IF stage = "dialing" THEN 1 ELSE 0)
  /\ connectTimer = TRUE /\ aborted = FALSE
  /\ listeners = {IF config.browser THEN "attempt" ELSE stage}

DialNext ==
  \/ HostNamed \/ NamingFails \/ BrowserAnswers \/ UdpFails \/ AttemptTimeout
  \/ HostResolved \/ ResolvingFails \/ Abort
  \/ \E a \in Addresses : SocketConnects(a) \/ SocketFails(a)

DialSpec == DialInit /\ [][DialNext]_dialVars

\* The connect timer fires, if it is armed for long.  DNS, the browser and the
\* server need not answer, nor the sockets report an error.
LiveSpec == DialSpec /\ WF_dialVars(Abort)

---------------------------------------------------------------------------
(* Properties.                                                             *)

\* An abort ends the dial wherever it is, in the same step: each stage has a
\* listener on the signal, and no two stages leave a gap (connector.ts,
\* sender.ts and with-timeout.ts add and remove them).
AbortIsHeard == aborted => Settled

\* What a dial has opened it has closed when it goes on: datagram sockets and the
\* attempt's timer end with each attempt, in whatever way it ends, and a dial that
\* is over leaves no socket behind that still tries, and no listener but that of a
\* name whose answer is due.
NothingLeftBehind ==
  /\ stage # "asking" => \A a \in Addresses : udp[a] \in {"none", "closed"}
  /\ attemptTimer => stage \in Lookup
  /\ Settled => /\ \A a \in Addresses : tcp[a] # "connecting"
                /\ listeners = {} \/ (stage = "aborted" /\ listeners = {"resolving"})
  /\ stage = "failed" => ~connectTimer

\* At most one socket is ever handed out, when the dial is over, with all others
\* destroyed; in sequence at most one socket is open at a time.
OneSocket ==
  /\ \A a, b \in Addresses :
       tcp[a] = "connected" => stage = "connected" /\ (b # a => tcp[b] # "connected")
  /\ stage = "connected" => \E a \in Addresses : tcp[a] = "connected"
  /\ ~config.parallel => \A a, b \in Addresses :
       tcp[a] = "connecting" /\ tcp[b] = "connecting" => a = b

\* A dial that tried its addresses and failed has not missed one at which a server
\* listens (connectInParallel and connectInSequence reject with all errors only).
ReachableIsReached ==
  stage = "failed" /\ (\E a \in Addresses : tcp[a] # "none") =>
    \A a \in 1 .. addresses : a \notin reachable /\ tcp[a] = "destroyed"

\* The socket handed out is the connection's from then on: a late abort, or a late
\* event of another socket, neither destroys it nor changes how the dial ended.
HandedOver == [][stage = "connected" => UNCHANGED <<stage, tcp>>]_dialVars

\* Nobody answers, and the dial ends all the same: whatever is awaited, the connect
\* timer is still armed and still heard.
Settles == <>Settled
=============================================================================
