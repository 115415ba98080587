---------------------------- MODULE TransportProofs ----------------------------
(* How the driver gets its socket and what goes over it.                           *)
(*                                                                                 *)
(* The first part is about Dialing, for any number of addresses and of retries,    *)
(* and for any DNS, browser and server.  The safety properties look at a dial that *)
(* is over; what they need of one that is not is in DialInv: which listener the    *)
(* signal has in each stage (Heard), and which sockets a stage has tried (Tried).  *)
(*                                                                                 *)
(* The second part is about the two message streams, for every plan of messages,   *)
(* every packet size, every high-water mark and every way the bytes are cut on     *)
(* their way: packets are well framed, buffers are bounded, and the pair of        *)
(* streams is a queue of messages.                                                 *)
EXTENDS Dialing, MessageStreams, SequenceTheorems, FiniteSetTheorems, TLAPS

(*********************************** Dialing *************************************)

\* The abort is heard: who listens in each stage, and that the timer is armed.
Heard ==
  /\ stage \in Lookup => listeners = {"attempt"}
  /\ stage \in {"resolving", "dialing"} => listeners = {stage}
  /\ stage \in {"connected", "failed"} => listeners = {}
  /\ ~Settled => connectTimer /\ ~aborted
  /\ aborted => ~connectTimer

\* The sockets of a dial that is not over: in parallel one per address, in sequence
\* one after those that failed; a socket is gone only if no server listens there.
Tried ==
  /\ stage \in Lookup \cup {"resolving"} => \A a \in Addresses : tcp[a] = "none"
  /\ stage = "dialing" => \A a \in Addresses :
       /\ tcp[a] # "connected"
       /\ tcp[a] # "none" => a <= addresses
       /\ tcp[a] = "destroyed" => a \notin reachable
       /\ config.parallel /\ a <= addresses => tcp[a] # "none"
       /\ ~config.parallel /\ tcp[a] = "connecting" =>
            \A b \in Addresses : /\ b < a => tcp[b] = "destroyed"
                                 /\ b > a => tcp[b] = "none"

DialInv ==
  /\ AbortIsHeard /\ Heard /\ Tried
  /\ NothingLeftBehind /\ OneSocket /\ ReachableIsReached

---------------------------------------------------------------------------
(* Type correctness.                                                       *)

\* What the sockets may become has their type.
LEMMA SocketTypes ==
  ASSUME DialTypeOK, NEW n \in 0 .. MaxAddresses, NEW winners
  PROVE /\ ClosedUdp \in [Addresses -> {"none", "open", "failed", "closed"}]
        /\ FreshUdp(n) \in [Addresses -> {"none", "open", "failed", "closed"}]
        /\ DestroyedBut(winners) \in
             [Addresses -> {"none", "connecting", "connected", "destroyed"}]
        /\ FreshTcp(n) \in
             [Addresses -> {"none", "connecting", "connected", "destroyed"}]
BY DEF DialTypeOK, ClosedUdp, FreshUdp, DestroyedBut, FreshTcp

LEMMA DialTypeInit == DialInit => DialTypeOK
<1> SUFFICES ASSUME DialInit PROVE DialTypeOK
  OBVIOUS
<1>1. udp \in [Addresses -> {"none", "open", "failed", "closed"}]
  BY DEF DialInit, FreshUdp
<1>2. tcp \in [Addresses -> {"none", "connecting", "connected", "destroyed"}]
  BY DEF DialInit, FreshTcp
<1>3. /\ stage \in Lookup \cup {"resolving", "dialing"}
      /\ listeners \in SUBSET {"attempt", "resolving", "dialing"}
  BY DEF DialInit, Lookup
<1>4. addresses \in 0 .. MaxAddresses /\ attempt \in 0 .. Retries
  BY ConstantsAssumption DEF DialInit
<1>5. config \in Config /\ attemptTimer \in BOOLEAN
  BY DEF DialInit, Config
<1> QED
  BY <1>1, <1>2, <1>3, <1>4, <1>5 DEF DialInit, DialTypeOK

\* A dial that starts, or a lookup that asks or ends, keeps the types.
LEMMA DialAddressTypes ==
  ASSUME DialTypeOK, NEW n \in 0 .. MaxAddresses, Dial(n),
         UNCHANGED <<outside, aborted>>,
         attempt' \in 0 .. Retries, answered' \in BOOLEAN, attemptTimer' \in BOOLEAN,
         udp' \in [Addresses -> {"none", "open", "failed", "closed"}]
  PROVE DialTypeOK'
<1>1. CASE n = 0 /\ ~config.parallel
  BY <1>1, ConstantsAssumption DEF DialTypeOK, Dial, Fail, outside, Addresses
<1>2. CASE ~(n = 0 /\ ~config.parallel)
  BY <1>2, SocketTypes DEF DialTypeOK, Dial, outside, Addresses
<1> QED
  BY <1>1, <1>2

LEMMA AskTypes ==
  ASSUME DialTypeOK, Ask, UNCHANGED <<outside, aborted>>,
         attempt' \in 0 .. Retries, answered' \in BOOLEAN
  PROVE DialTypeOK'
<1>1. udp' \in [Addresses -> {"none", "open", "failed", "closed"}]
  BY SocketTypes, ConstantsAssumption DEF Ask
<1>2. addresses' \in 0 .. MaxAddresses
  BY ConstantsAssumption DEF DialTypeOK, Ask
<1> QED
  BY <1>1, <1>2 DEF DialTypeOK, Ask, outside, Lookup, Addresses

LEMMA FailTypes ==
  ASSUME DialTypeOK, Fail(tcp), UNCHANGED <<outside, addresses, aborted>>,
         attempt' \in 0 .. Retries, answered' \in BOOLEAN, attemptTimer' \in BOOLEAN,
         udp' \in [Addresses -> {"none", "open", "failed", "closed"}]
  PROVE DialTypeOK'
BY DEF DialTypeOK, Fail, outside, Addresses

LEMMA EndAttemptTypes ==
  ASSUME DialTypeOK, NEW hasAnswer \in BOOLEAN, EndAttempt(hasAnswer),
         UNCHANGED <<outside, aborted>>
  PROVE DialTypeOK'
<1>1. CASE attempt < Retries /\ attempt' = attempt + 1 /\ Ask
  BY <1>1, AskTypes, ConstantsAssumption DEF DialTypeOK, EndAttempt
<1>2. CASE ~(attempt < Retries)
  <2>1. /\ attempt' \in 0 .. Retries /\ answered' \in BOOLEAN
        /\ attemptTimer' \in BOOLEAN
        /\ udp' \in [Addresses -> {"none", "open", "failed", "closed"}]
    BY <1>2, SocketTypes DEF DialTypeOK, EndAttempt
  <2>2. CASE Fail(tcp) /\ UNCHANGED addresses
    BY <2>1, <2>2, FailTypes
  <2>3. CASE Resolve /\ config.ip
    BY <2>1, <2>3, DialAddressTypes, ConstantsAssumption DEF Resolve
  <2>4. CASE Resolve /\ ~config.ip
    BY <2>1, <2>4 DEF Resolve, DialTypeOK, outside, Addresses
  <2> QED
    BY <1>2, <2>2, <2>3, <2>4 DEF EndAttempt
<1> QED
  BY <1>1, <1>2 DEF EndAttempt

LEMMA LookupFailsTypes ==
  ASSUME DialTypeOK, LookupFails, UNCHANGED <<outside, aborted>>
  PROVE DialTypeOK'
BY FailTypes, SocketTypes DEF LookupFails, DialTypeOK

LEMMA DialTypeNext == DialTypeOK /\ [DialNext]_dialVars => DialTypeOK'
<1> SUFFICES ASSUME DialTypeOK, [DialNext]_dialVars PROVE DialTypeOK'
  OBVIOUS
<1>1. CASE HostNamed
  BY <1>1, SocketTypes DEF HostNamed, DialTypeOK, outside, Lookup, Addresses
<1>2. CASE NamingFails
  BY <1>2, LookupFailsTypes DEF NamingFails
<1>3. CASE BrowserAnswers
  BY <1>3, EndAttemptTypes DEF BrowserAnswers
<1>4. CASE UdpFails
  <2>1. PICK a \in Addresses : 
          \/ LookupFails
          \/ /\ udp' = [udp EXCEPT ![a] = "failed"]
             /\ UNCHANGED <<stage, attempt, answered, attemptTimer, addresses,
                            tcp, connectTimer, listeners>>
    BY <1>4 DEF UdpFails
  <2>2. UNCHANGED <<outside, aborted>>
    BY <1>4 DEF UdpFails
  <2> QED
    BY <2>1, <2>2, LookupFailsTypes DEF DialTypeOK, outside, Addresses
<1>5. CASE AttemptTimeout
  BY <1>5, EndAttemptTypes DEF AttemptTimeout, DialTypeOK
<1>6. CASE HostResolved
  BY <1>6, DialAddressTypes DEF HostResolved, looking, DialTypeOK
<1>7. CASE ResolvingFails
  BY <1>7, FailTypes DEF ResolvingFails, looking, DialTypeOK
<1>8. CASE Abort
  <2>1. /\ udp' \in [Addresses -> {"none", "open", "failed", "closed"}]
        /\ attemptTimer' \in BOOLEAN
        /\ tcp' \in [Addresses -> {"none", "connecting", "connected", "destroyed"}]
    BY <1>8, SocketTypes DEF Abort, DialTypeOK
  <2> QED
    BY <1>8, <2>1 DEF Abort, DialTypeOK, outside, Addresses
<1>9. ASSUME NEW a \in Addresses, SocketConnects(a) PROVE DialTypeOK'
  BY <1>9, SocketTypes DEF SocketConnects, DialTypeOK, outside, looking, Addresses
<1>10. ASSUME NEW a \in Addresses, SocketFails(a) PROVE DialTypeOK'
  BY <1>10 DEF SocketFails, Fail, DialTypeOK, outside, looking, Addresses
<1>11. CASE UNCHANGED dialVars
  BY <1>11 DEF dialVars, outside, looking, DialTypeOK, Addresses
<1> QED
  BY <1>1, <1>2, <1>3, <1>4, <1>5, <1>6, <1>7, <1>8, <1>9, <1>10, <1>11 DEF DialNext

\* The state of a dial stays well typed, whatever DNS, browser and server do.
THEOREM DialTypeCorrect == DialSpec => []DialTypeOK
BY DialTypeInit, DialTypeNext, PTL DEF DialSpec

---------------------------------------------------------------------------
(* The invariant.                                                          *)

LEMMA DialInvInit == DialInit => DialInv
<1> SUFFICES ASSUME DialInit PROVE DialInv
  OBVIOUS
<1>1. /\ stage \in Lookup \cup {"resolving", "dialing"}
      /\ stage \in Lookup <=> config.browser
  BY DEF DialInit, Lookup
<1>2. AbortIsHeard /\ Heard
  BY <1>1 DEF DialInit, AbortIsHeard, Heard, Settled, Lookup
<1>3. \A a \in Addresses :
        /\ tcp[a] \in {"none", "connecting"}
        /\ tcp[a] = "connecting" => a = 1 /\ stage = "dialing" /\ addresses = 1
        /\ stage = "dialing" /\ a = 1 => tcp[a] = "connecting"
  BY ConstantsAssumption DEF DialInit, FreshTcp, Addresses
<1>4. Tried
  BY <1>3, ConstantsAssumption DEF DialInit, Tried, Lookup, Addresses
<1>5. \A a \in Addresses : stage # "asking" => udp[a] = "none"
  BY ConstantsAssumption DEF DialInit, FreshUdp, Addresses
<1>6. NothingLeftBehind
  <2>1. attemptTimer => stage \in Lookup
    BY <1>1 DEF DialInit
  <2> QED
    BY <1>1, <1>5, <2>1 DEF NothingLeftBehind, Settled, Lookup
<1>7. OneSocket /\ ReachableIsReached
  BY <1>1, <1>3 DEF OneSocket, ReachableIsReached, Lookup
<1> QED
  BY <1>2, <1>4, <1>6, <1>7 DEF DialInv

\* A dial that has not tried a socket may fail.
LEMMA FailKeepsInv ==
  ASSUME DialTypeOK, DialInv, stage \in Lookup \cup {"resolving"},
         Fail(tcp), UNCHANGED <<outside, aborted>>,
         attemptTimer' = FALSE, \A a \in Addresses : udp'[a] \in {"none", "closed"}
  PROVE DialInv'
<1>1. ~aborted /\ \A a \in Addresses : tcp'[a] = "none"
  BY DEF DialInv, Heard, Tried, Settled, Lookup, Fail
<1>2. /\ stage' = "failed" /\ ~connectTimer' /\ listeners' = {} /\ ~aborted'
  BY <1>1 DEF Fail
<1> QED
  BY <1>1, <1>2 DEF DialInv, AbortIsHeard, Heard, Tried, NothingLeftBehind, OneSocket,
     ReachableIsReached, Settled, Lookup

\* A dial that has its address may try it.
LEMMA DialKeepsInv ==
  ASSUME DialTypeOK, DialInv, stage \in Lookup \cup {"resolving"},
         NEW n \in 0 .. MaxAddresses, Dial(n), UNCHANGED <<outside, aborted>>,
         attemptTimer' = FALSE, \A a \in Addresses : udp'[a] \in {"none", "closed"}
  PROVE DialInv'
<1>1. CASE n = 0 /\ ~config.parallel
  BY <1>1, FailKeepsInv DEF Dial
<1>2. CASE ~(n = 0 /\ ~config.parallel)
  <2>1. /\ stage' = "dialing" /\ listeners' = {"dialing"} /\ addresses' = n
        /\ connectTimer' /\ ~aborted' /\ tcp' = FreshTcp(n) /\ config' = config
    BY <1>2 DEF Dial, DialInv, Heard, Settled, Lookup, outside
  <2>2. \A a \in Addresses :
          /\ tcp'[a] \in {"none", "connecting"}
          /\ tcp'[a] = "connecting" => a <= n
          /\ config.parallel /\ a <= n => tcp'[a] = "connecting"
          /\ ~config.parallel /\ tcp'[a] = "connecting" => a = 1
    BY <2>1 DEF FreshTcp, Addresses
  <2>3. Tried'
    BY <2>1, <2>2 DEF Tried, Lookup, Addresses
  <2>4. OneSocket'
    BY <2>1, <2>2 DEF OneSocket
  <2> QED
    BY <2>1, <2>3, <2>4 DEF DialInv, AbortIsHeard, Heard, NothingLeftBehind,
       ReachableIsReached, Settled, Lookup
<1> QED
  BY <1>1, <1>2

\* A lookup may ask again.
LEMMA AskKeepsInv ==
  ASSUME DialTypeOK, DialInv, stage \in Lookup, Ask, UNCHANGED <<outside, aborted>>
  PROVE DialInv'
<1>1. /\ stage' \in Lookup /\ listeners' = {"attempt"} /\ connectTimer' /\ ~aborted'
      /\ tcp' = tcp
  BY DEF Ask, DialInv, Heard, Settled, Lookup
<1>2. \A a \in Addresses : tcp[a] = "none"
  BY DEF DialInv, Tried
<1>3. stage' # "asking" => \A a \in Addresses : udp'[a] \in {"none", "closed"}
  BY DEF Ask, ClosedUdp
<1> QED
  BY <1>1, <1>2, <1>3 DEF DialInv, AbortIsHeard, Heard, Tried, NothingLeftBehind,
     OneSocket, ReachableIsReached, Settled, Lookup

LEMMA ClosedIsClosed == \A a \in Addresses : ClosedUdp[a] \in {"none", "closed"}
BY DEF ClosedUdp

LEMMA EndAttemptKeepsInv ==
  ASSUME DialTypeOK, DialInv, stage \in Lookup, NEW hasAnswer, EndAttempt(hasAnswer),
         UNCHANGED <<outside, aborted>>
  PROVE DialInv'
<1>1. CASE Ask
  BY <1>1, AskKeepsInv
<1>2. CASE udp' = ClosedUdp /\ attemptTimer' = FALSE
           /\ (Resolve \/ (Fail(tcp) /\ UNCHANGED addresses))
  <2>1. CASE Fail(tcp)
    BY <1>2, <2>1, FailKeepsInv, ClosedIsClosed
  <2>2. CASE Resolve /\ config.ip
    <3>1. 1 \in 0 .. MaxAddresses /\ Dial(1)
      BY <2>2, ConstantsAssumption DEF Resolve
    <3>2. \A a \in Addresses : udp'[a] \in {"none", "closed"}
      BY <1>2, ClosedIsClosed
    <3> QED
      BY <1>2, <3>1, <3>2, DialKeepsInv DEF Lookup
  <2>3. CASE Resolve /\ ~config.ip
    <3>1. /\ stage' = "resolving" /\ listeners' = {"resolving"} /\ tcp' = tcp
          /\ connectTimer' /\ ~aborted'
      BY <2>3 DEF Resolve, DialInv, Heard, Settled, Lookup
    <3>2. \A a \in Addresses : tcp[a] = "none" /\ udp'[a] \in {"none", "closed"}
      BY <1>2, ClosedIsClosed DEF DialInv, Tried
    <3>3. Tried' /\ OneSocket' /\ ReachableIsReached'
      BY <3>1, <3>2 DEF Tried, OneSocket, ReachableIsReached, Lookup
    <3>4. Heard' /\ AbortIsHeard'
      BY <3>1 DEF AbortIsHeard, Heard, Settled, Lookup
    <3>5. NothingLeftBehind'
      BY <1>2, <3>1, <3>2 DEF NothingLeftBehind, Settled
    <3> QED
      BY <3>3, <3>4, <3>5 DEF DialInv
  <2> QED
    BY <1>2, <2>1, <2>2, <2>3
<1> QED
  BY <1>1, <1>2 DEF EndAttempt

LEMMA LookupFailsKeepsInv ==
  ASSUME DialTypeOK, DialInv, stage \in Lookup, LookupFails, UNCHANGED <<outside, aborted>>
  PROVE DialInv'
BY FailKeepsInv, ClosedIsClosed DEF LookupFails

LEMMA SocketConnectsKeepsInv ==
  ASSUME DialTypeOK, DialInv, NEW a \in Addresses, SocketConnects(a)
  PROVE DialInv'
<1>1. stage = "dialing"
  BY DEF SocketConnects, DialInv, Tried, NothingLeftBehind, Settled, DialTypeOK, Lookup
<1>2. /\ stage' = "connected" /\ listeners' = {} /\ ~aborted' /\ ~attemptTimer'
      /\ udp' = udp /\ config' = config
  BY <1>1 DEF SocketConnects, DialInv, Heard, NothingLeftBehind, Settled, outside, looking,
     Lookup
<1>3. /\ tcp'[a] = "connected"
      /\ \A b \in Addresses : b # a => tcp'[b] \in {"none", "destroyed"}
  BY DEF SocketConnects, DestroyedBut
<1>4. OneSocket'
  BY <1>2, <1>3 DEF OneSocket
<1>5. NothingLeftBehind'
  BY <1>1, <1>2, <1>3 DEF DialInv, NothingLeftBehind, Settled
<1> QED
  BY <1>2, <1>4, <1>5 DEF DialInv, AbortIsHeard, Heard, Tried, ReachableIsReached,
     Settled, Lookup

LEMMA SocketFailsKeepsInv ==
  ASSUME DialTypeOK, DialInv, NEW a \in Addresses, SocketFails(a)
  PROVE DialInv'
<1> DEFINE failed == [tcp EXCEPT ![a] = "destroyed"]
           over == IF config.parallel
                     THEN \A b \in 1 .. addresses : failed[b] = "destroyed"
                     ELSE a = addresses
<1>1. stage = "dialing"
  BY DEF SocketFails, DialInv, Tried, NothingLeftBehind, Settled, DialTypeOK, Lookup
<1>2. /\ tcp[a] = "connecting" /\ a \notin reachable /\ a <= addresses
      /\ config' = config /\ reachable' = reachable /\ addresses' = addresses
      /\ udp' = udp /\ attemptTimer' = attemptTimer /\ ~aborted' /\ ~attemptTimer
  BY <1>1 DEF SocketFails, DialInv, Tried, Heard, NothingLeftBehind, Settled, outside,
     looking, Lookup
<1>3. /\ tcp \in [Addresses -> {"none", "connecting", "connected", "destroyed"}]
      /\ addresses \in 0 .. MaxAddresses
  BY DEF DialTypeOK
<1>4. \A b \in Addresses : udp[b] \in {"none", "closed"}
  BY <1>1 DEF DialInv, NothingLeftBehind
<1>5. \A b \in Addresses :
        /\ tcp[b] # "connected"
        /\ tcp[b] # "none" => b <= addresses
        /\ tcp[b] = "destroyed" => b \notin reachable
        /\ config.parallel /\ b <= addresses => tcp[b] # "none"
        /\ ~config.parallel /\ b < a => tcp[b] = "destroyed"
        /\ ~config.parallel /\ b > a => tcp[b] = "none"
  BY <1>1, <1>2 DEF DialInv, Tried
<1>6. CASE over
  <2>1. /\ stage' = "failed" /\ ~connectTimer' /\ listeners' = {} /\ tcp' = failed
    BY <1>6 DEF SocketFails, Fail
  <2>2. \A b \in 1 .. addresses : failed[b] = "destroyed" /\ b \notin reachable
    <3> SUFFICES ASSUME NEW b \in 1 .. addresses
                 PROVE failed[b] = "destroyed" /\ b \notin reachable
      OBVIOUS
    <3>1. b \in Addresses
      BY <1>3, ConstantsAssumption DEF Addresses
    <3>2. failed[b] = "destroyed"
      BY <1>3, <1>5, <1>6, <3>1 DEF Addresses
    <3> QED
      BY <1>2, <1>3, <1>5, <3>1, <3>2
  <2>3. \A b \in Addresses : failed[b] \in {"none", "destroyed"}
    <3> SUFFICES ASSUME NEW b \in Addresses PROVE failed[b] \in {"none", "destroyed"}
      OBVIOUS
    <3>1. CASE b <= addresses
      BY <2>2, <3>1 DEF Addresses
    <3>2. CASE ~(b <= addresses)
      BY <1>2, <1>3, <1>5, <3>2
    <3> QED
      BY <3>1, <3>2
  <2>4. ReachableIsReached'
    BY <1>2, <2>1, <2>2 DEF ReachableIsReached
  <2>5. OneSocket' /\ NothingLeftBehind'
    BY <1>2, <1>4, <2>1, <2>3 DEF OneSocket, NothingLeftBehind, Settled
  <2> QED
    BY <1>2, <2>1, <2>4, <2>5 DEF DialInv, AbortIsHeard, Heard, Tried, Settled, Lookup
<1>7. CASE ~over
  <2>1. /\ UNCHANGED <<stage, connectTimer, listeners>>
        /\ tcp' = IF config.parallel THEN failed ELSE [failed EXCEPT ![a + 1] = "connecting"]
    BY <1>7 DEF SocketFails
  <2>2. \A b \in Addresses :
          tcp'[b] = IF b = a THEN "destroyed"
                    ELSE IF ~config.parallel /\ b = a + 1 THEN "connecting" ELSE tcp[b]
    BY <1>3, <2>1 DEF Addresses
  <2>3. ~config.parallel => a + 1 <= addresses
    BY <1>2, <1>3, <1>7 DEF Addresses
  <2>4. \A b \in Addresses :
          /\ tcp'[b] # "connected"
          /\ tcp'[b] # "none" => b <= addresses
          /\ tcp'[b] = "destroyed" => b \notin reachable
          /\ config.parallel /\ b <= addresses => tcp'[b] # "none"
    BY <1>2, <1>5, <2>2, <2>3
  <2>5. ~config.parallel => \A b \in Addresses :
          /\ tcp'[b] = "connecting" => b = a + 1
          /\ b < a + 1 => tcp'[b] = "destroyed"
          /\ b > a + 1 => tcp'[b] = "none"
    BY <1>2, <1>5, <2>2 DEF Addresses
  <2>6. Tried'
    BY <1>1, <1>2, <2>1, <2>4, <2>5 DEF Tried, Lookup
  <2>7. OneSocket'
    BY <1>1, <1>2, <2>1, <2>4, <2>5 DEF OneSocket
  <2> QED
    BY <1>1, <1>2, <1>4, <2>1, <2>6, <2>7 DEF DialInv, AbortIsHeard, Heard,
       NothingLeftBehind, ReachableIsReached, Settled, Lookup
<1> QED
  BY <1>6, <1>7

LEMMA AbortKeepsInv ==
  ASSUME DialTypeOK, DialInv, Abort
  PROVE DialInv'
<1>1. CASE Settled
  <2>1. /\ UNCHANGED <<stage, tcp, udp, attemptTimer, config, reachable, addresses>>
        /\ ~connectTimer' /\ aborted' /\ listeners' \subseteq listeners
    BY <1>1 DEF Abort, DialInv, NothingLeftBehind, Settled, outside
  <2>2. listeners' = listeners
    BY <1>1, <2>1 DEF Abort, DialInv, NothingLeftBehind, Settled
  <2> QED
    BY <1>1, <2>1, <2>2 DEF DialInv, AbortIsHeard, Heard, Tried, NothingLeftBehind,
       OneSocket, ReachableIsReached, Settled, Lookup
<1>2. CASE ~Settled
  <2>1. stage \in Lookup \cup {"resolving", "dialing"}
    BY <1>2 DEF DialTypeOK, Settled
  <2>2. /\ stage' = "aborted" /\ ~connectTimer' /\ aborted' /\ config' = config
        /\ listeners' \in {{}, {"resolving"}}
    BY <1>2, <2>1 DEF Abort, DialInv, Heard, Lookup, outside
  <2>3. \A a \in Addresses : tcp'[a] \in {"none", "destroyed"}
    BY <2>1 DEF Abort, DialInv, Heard, Tried, DestroyedBut, Lookup
  <2>4. ~attemptTimer' /\ \A a \in Addresses : udp'[a] \in {"none", "closed"}
    <3>1. CASE stage \in Lookup
      BY <3>1, ClosedIsClosed DEF Abort, DialInv, Heard
    <3>2. CASE stage \in {"resolving", "dialing"}
      BY <3>2 DEF Abort, DialInv, Heard, NothingLeftBehind, Lookup
    <3> QED
      BY <2>1, <3>1, <3>2
  <2> QED
    BY <2>2, <2>3, <2>4 DEF DialInv, AbortIsHeard, Heard, Tried, NothingLeftBehind,
       OneSocket, ReachableIsReached, Settled, Lookup
<1> QED
  BY <1>1, <1>2

LEMMA DialInvNext == DialTypeOK /\ DialInv /\ [DialNext]_dialVars => DialInv'
<1> SUFFICES ASSUME DialTypeOK, DialInv, [DialNext]_dialVars PROVE DialInv'
  OBVIOUS
<1>1. CASE HostNamed
  <2>1. /\ stage = "naming" /\ stage' = "asking"
        /\ UNCHANGED <<outside, attemptTimer, tcp, connectTimer, aborted, listeners>>
    BY <1>1 DEF HostNamed
  <2> QED
    BY <2>1 DEF DialInv, AbortIsHeard, Heard, Tried, NothingLeftBehind, OneSocket,
       ReachableIsReached, Settled, Lookup, outside
<1>2. CASE NamingFails
  BY <1>2, LookupFailsKeepsInv DEF NamingFails, Lookup
<1>3. CASE BrowserAnswers
  <2>1. stage \in Lookup
    BY <1>3 DEF BrowserAnswers, DialInv, NothingLeftBehind, Lookup
  <2> QED
    BY <1>3, <2>1, EndAttemptKeepsInv DEF BrowserAnswers
<1>4. CASE UdpFails
  <2>1. PICK a \in Addresses :
          /\ udp[a] = "open"
          /\ \/ LookupFails
             \/ /\ udp' = [udp EXCEPT ![a] = "failed"]
                /\ UNCHANGED <<stage, attempt, answered, attemptTimer, addresses,
                               tcp, connectTimer, listeners>>
    BY <1>4 DEF UdpFails
  <2>2. UNCHANGED <<outside, aborted>>
    BY <1>4 DEF UdpFails
  <2>3. stage = "asking"
    BY <2>1 DEF DialInv, NothingLeftBehind
  <2>4. CASE LookupFails
    BY <2>2, <2>3, <2>4, LookupFailsKeepsInv DEF Lookup
  <2>5. CASE UNCHANGED <<stage, attempt, answered, attemptTimer, addresses, tcp,
                         connectTimer, listeners>>
    BY <2>2, <2>3, <2>5 DEF DialInv, AbortIsHeard, Heard, Tried, NothingLeftBehind,
       OneSocket, ReachableIsReached, Settled, Lookup, outside
  <2> QED
    BY <2>1, <2>4, <2>5
<1>5. CASE AttemptTimeout
  <2>1. stage \in Lookup
    BY <1>5 DEF AttemptTimeout, DialInv, NothingLeftBehind
  <2> QED
    BY <1>5, <2>1, EndAttemptKeepsInv DEF AttemptTimeout
<1>6. CASE HostResolved
  <2>1. PICK n \in 0 .. MaxAddresses : Dial(n)
    BY <1>6 DEF HostResolved
  <2>2. /\ stage = "resolving" /\ UNCHANGED <<outside, aborted, attemptTimer, udp>>
    BY <1>6 DEF HostResolved, looking
  <2>3. /\ attemptTimer' = FALSE /\ \A a \in Addresses : udp'[a] \in {"none", "closed"}
    BY <2>2 DEF DialInv, NothingLeftBehind, Lookup, DialTypeOK
  <2> QED
    BY <2>1, <2>2, <2>3, DialKeepsInv
<1>7. CASE ResolvingFails
  <2>1. /\ stage = "resolving" /\ UNCHANGED <<outside, aborted, attemptTimer, udp>>
        /\ Fail(tcp)
    BY <1>7 DEF ResolvingFails, looking
  <2>2. /\ attemptTimer' = FALSE /\ \A a \in Addresses : udp'[a] \in {"none", "closed"}
    BY <2>1 DEF DialInv, NothingLeftBehind, Lookup, DialTypeOK
  <2> QED
    BY <2>1, <2>2, FailKeepsInv
<1>8. CASE Abort
  BY <1>8, AbortKeepsInv
<1>9. ASSUME NEW a \in Addresses, SocketConnects(a) PROVE DialInv'
  BY <1>9, SocketConnectsKeepsInv
<1>10. ASSUME NEW a \in Addresses, SocketFails(a) PROVE DialInv'
  BY <1>10, SocketFailsKeepsInv
<1>11. CASE UNCHANGED dialVars
  BY <1>11 DEF dialVars, outside, looking, DialInv, AbortIsHeard, Heard, Tried,
     NothingLeftBehind, OneSocket, ReachableIsReached, Settled, Lookup
<1> QED
  BY <1>1, <1>2, <1>3, <1>4, <1>5, <1>6, <1>7, <1>8, <1>9, <1>10, <1>11 DEF DialNext

\* What is true in every state of a dial: DialInv, inductive with the types.
THEOREM DialInvariant == DialSpec => [](DialTypeOK /\ DialInv)
<1>1. DialInit => DialTypeOK /\ DialInv
  BY DialTypeInit, DialInvInit
<1>2. DialTypeOK /\ DialInv /\ [DialNext]_dialVars => (DialTypeOK /\ DialInv)'
  BY DialTypeNext, DialInvNext
<1> QED
  BY <1>1, <1>2, PTL DEF DialSpec

---------------------------------------------------------------------------
(* What follows.                                                           *)

\* A dial that is not over can be ended, whatever it waits for: the connect timer
\* is armed, something listens for its abort, and when it fires the dial is over
\* (the safety half of Settles).
THEOREM DialsCanBeEnded ==
  DialSpec => [](~Settled => connectTimer /\ listeners # {}) /\ [][Abort => Settled']_dialVars
<1>1. DialTypeOK /\ DialInv => (~Settled => connectTimer /\ listeners # {})
  BY DEF DialInv, Heard, DialTypeOK, Settled, Lookup
<1>2. (DialTypeOK /\ DialInv) /\ (DialTypeOK /\ DialInv)' => [Abort => Settled']_dialVars
  BY DEF DialInv, AbortIsHeard, Abort
<1> QED
  BY <1>1, <1>2, DialInvariant, PTL

\* An abort always ends the dial at once.
THEOREM AbortsAreHeard == DialSpec => []AbortIsHeard
<1>1. DialTypeOK /\ DialInv => AbortIsHeard
  BY DEF DialInv
<1> QED
  BY <1>1, DialInvariant, PTL

\* A dial leaves no socket, timer or listener behind, and hands out one socket.
THEOREM DialsAreClean == DialSpec => [](NothingLeftBehind /\ OneSocket)
<1>1. DialTypeOK /\ DialInv => NothingLeftBehind /\ OneSocket
  BY DEF DialInv
<1> QED
  BY <1>1, DialInvariant, PTL

\* A dial that fails has tried every address it was given.
THEOREM NoServerIsMissed == DialSpec => []ReachableIsReached
<1>1. DialTypeOK /\ DialInv => ReachableIsReached
  BY DEF DialInv
<1> QED
  BY <1>1, DialInvariant, PTL

\* The socket that was handed out is left alone ever after.
THEOREM SocketIsHandedOver == DialSpec => HandedOver
<1>1. DialTypeOK /\ DialInv /\ [DialNext]_dialVars => [stage = "connected" => UNCHANGED <<stage, tcp>>]_dialVars
  <2> SUFFICES ASSUME DialTypeOK, DialInv, DialNext, stage = "connected"
               PROVE UNCHANGED <<stage, tcp>>
    BY DEF dialVars, outside, looking
  <2>1. /\ listeners = {} /\ ~attemptTimer
        /\ \A a \in Addresses : tcp[a] # "connecting" /\ udp[a] # "open"
    BY DEF DialInv, Heard, NothingLeftBehind, Settled, Lookup
  <2>2. Abort
    BY <2>1 DEF DialNext, HostNamed, NamingFails, BrowserAnswers, UdpFails, AttemptTimeout,
       HostResolved, ResolvingFails, SocketConnects, SocketFails
  <2> QED
    BY <2>1, <2>2 DEF Abort
<1> QED
  BY <1>1, DialInvariant, PTL DEF DialSpec, HandedOver

(****************************** the message streams ******************************)

(************************************ bytes **************************************)

Buffers == Seq(Nat)

\* The bytes a + 1 to b of message m.
Text(m, a, b) == [i \in 1 .. b - a |-> Byte(m, a + i)]

\* The bytes s are those chunks, one after the other: e says where each ends.
Laid(s, chunks) ==
  \E e \in [0 .. Len(chunks) -> 0 .. Len(s)] :
    /\ e[0] = 0 /\ e[Len(chunks)] = Len(s)
    /\ \A i, j \in 0 .. Len(chunks) : i <= j => e[i] <= e[j]
    /\ \A j \in 1 .. Len(chunks) : /\ e[j] = e[j - 1] + Len(chunks[j])
                                   /\ chunks[j] = SubSeq(s, e[j - 1] + 1, e[j])

(*********************************** invariant ***********************************)

TypeOK ==
  /\ msg \in [Messages -> [opened : BOOLEAN, n : Nat, buffer : Seq(Buffers), ended : BOOLEAN,
                           finished : BOOLEAN, ignore : BOOLEAN]]
  /\ out \in [current : Nat, next : Nat, size : PacketSizes, limit : Nat, number : Nat,
              bl : Buffers, paused : BOOLEAN, ready : Seq(Buffers)]
  /\ wire \in Buffers
  /\ inc \in [bl : Buffers, current : Nat, at : {"idle", "loop", "drain", "end"}]
  /\ got \in Seq([type : Nat, buffer : Seq(Buffers), ended : BOOLEAN, read : Buffers, done : BOOLEAN])
  /\ log \in Seq([m : Messages, limit : Nat, buffer : Buffers, from : Nat])

\* The write that is chunk j of what a message still holds.
Nth(m, j) == msg[m].n - Len(msg[m].buffer) + j

\* Messages are opened in order.
OpenedInv == \E k \in 0 .. Len(Plan) : \A m \in Messages : msg[m].opened <=> m <= k

\* A message is ended after all its writes unless it was given up, and holds the last of them.
MessageOk(m) ==
  /\ ~msg[m].opened => msg[m].n = 0 /\ ~msg[m].ended
  /\ msg[m].finished => msg[m].ended
  /\ msg[m].ignore => msg[m].ended
  /\ msg[m].ended /\ ~msg[m].ignore => msg[m].n = Len(Plan[m].writes)
  /\ msg[m].n <= Len(Plan[m].writes)
  /\ Len(msg[m].buffer) <= msg[m].n
  /\ \A j \in DOMAIN msg[m].buffer :
       msg[m].buffer[j] = Text(m, Size(m, Nth(m, j) - 1), Size(m, Nth(m, j)))

MessageInv == \A m \in Messages : MessageOk(m)

\* The messages whose last packet was made: these and those before.
Sent == IF log = <<>> THEN 0
        ELSE IF IsLast(log[Len(log)].buffer) THEN log[Len(log)].m ELSE log[Len(log)].m - 1

\* What OnData has cut off the current message.
Packed == out.number * out.limit

\* The message in _write follows those that were sent.
TurnInv ==
  /\ out.current \in {0, Sent + 1} /\ out.next = Sent + (IF out.current = 0 THEN 1 ELSE 2)
  /\ out.next \in 1 .. Len(Plan) + 1
  /\ out.current = 0 => out.bl = <<>> /\ (log = <<>> \/ IsLast(log[Len(log)].buffer))
  /\ \A m \in Messages : m < out.next => msg[m].opened
  /\ \A m \in Messages : m >= out.next => Len(msg[m].buffer) = msg[m].n

\* What of the message in _write is in no packet yet is in bl, and its packets so far lead up to that.
WriterInv ==
  out.current # 0 =>
    /\ out.limit + HeaderLength \in PacketSizes
    /\ Len(out.bl) <= out.limit
    /\ out.bl = Text(out.current, Packed, Packed + Len(out.bl))
    /\ Packed + Len(out.bl) <= Size(out.current, msg[out.current].n)
    /\ ~msg[out.current].ignore => Packed + Len(out.bl) = Size(out.current, Nth(out.current, 0))
    /\ IF log = <<>> \/ log[Len(log)].m # out.current THEN out.number = 0
       ELSE /\ log[Len(log)].limit = out.limit
            /\ log[Len(log)].from + out.limit = Packed
            /\ log[Len(log)].buffer[4] = out.number % IdModulus

\* A packet as Packet makes it, full unless it is the last of its message.
Framed(p) ==
  /\ p.limit + HeaderLength \in PacketSizes
  /\ Len(p.buffer) >= HeaderLength /\ Len(p.buffer) - HeaderLength <= p.limit
  /\ p.buffer[1] = Plan[p.m].type
  /\ PacketLength(p.buffer) = Len(p.buffer)
  /\ HasBit(p.buffer[2], Status.RESETCONNECTION) <=> Plan[p.m].reset
  /\ HasBit(p.buffer[2], Status.IGNORE) => IsLast(p.buffer)
  /\ IsLast(p.buffer) \/ Len(p.buffer) - HeaderLength = p.limit

\* What a packet carries; the last one ends a message that is finished, whole or to be ignored.
End(p) == p.from + Len(p.buffer) - HeaderLength
Carries(p) ==
  /\ PacketData(p.buffer) = Text(p.m, p.from, End(p))
  /\ msg[p.m].opened /\ End(p) <= Size(p.m, msg[p.m].n)
  /\ IsLast(p.buffer) => /\ msg[p.m].finished
                         /\ HasBit(p.buffer[2], Status.IGNORE) <=> msg[p.m].ignore
                         /\ ~msg[p.m].ignore => End(p) = Size(p.m, Len(Plan[p.m].writes))

\* Packet q follows packet p; packet q is the first of its message.
First(q) == q.buffer[4] = 1 % IdModulus /\ q.from = 0
Follows(p, q) ==
  IF IsLast(p.buffer) THEN q.m = p.m + 1 /\ First(q)
  ELSE /\ q.m = p.m /\ q.limit = p.limit /\ q.from = End(p)
       /\ q.buffer[4] = (p.buffer[4] + 1) % IdModulus

LogInv ==
  /\ \A i \in DOMAIN log : Framed(log[i]) /\ Carries(log[i])
  /\ log # <<>> => log[1].m = 1 /\ First(log[1])
  /\ \A i \in DOMAIN log : i > 1 => Follows(log[i - 1], log[i])
  /\ \A i \in DOMAIN log : log[i].m <= log[Len(log)].m

\* The packets the socket has read.
Passed == Len(log) - Len(out.ready)

ReadyInv ==
  /\ Len(out.ready) <= Len(log)
  /\ \A j \in DOMAIN out.ready : out.ready[j] = log[Passed + j].buffer

\* The packets between the c-th and the last the socket has read.
Under(c) == [k \in 1 .. Passed - c |-> log[c + k].buffer]

\* What the reader has when c packets were put together.
ReaderInv(c) ==
  /\ c = 0 => got = <<>> /\ inc.current = 0 /\ inc.at \in {"idle", "loop"}
  /\ c > 0 =>
       LET p == log[c] g == got[p.m] IN
       /\ Len(got) = p.m
       /\ IF IsLast(p.buffer)
          THEN \/ inc.current = 0 /\ inc.at \in {"idle", "loop"} /\ g.done
               \/ inc.current = p.m /\ inc.at = "end" /\ ~g.done
          ELSE inc.current = p.m /\ inc.at \in {"idle", "loop", "drain"} /\ ~g.done
       /\ g.read = Text(p.m, 0, Len(g.read))
       /\ Len(g.read) <= End(p)
       /\ Laid(Text(p.m, Len(g.read), End(p)), g.buffer)
       /\ inc.current = 0 => g.buffer = <<>>
  /\ \A k \in DOMAIN got : got[k].type = Plan[k].type
  /\ \A k \in DOMAIN got : k < Len(got) => got[k].done /\ got[k].buffer = <<>>

\* The bytes on their way are packets, and what the reader has is what they carried.
StreamInv ==
  \E c \in 0 .. Passed : Laid(inc.bl \o wire, Under(c)) /\ ReaderInv(c)

\* Below the high-water mark the message in _write flows; what makes it stop is one of its writes.
WriterBound ==
  out.current # 0 =>
    \/ HeldIn(out.ready, WaitingOf(out.current)) < HighWater
    \/ /\ out.paused
       /\ \E i \in DOMAIN Plan[out.current].writes :
            HeldIn(out.ready, WaitingOf(out.current)) <
              HighWater + Burst(Size(out.current, i) - Size(out.current, i - 1), out.limit)

\* Below it the message being received takes packets; what makes it wait is one packet.
ReaderBound ==
  /\ inc.current # 0 /\ inc.at \in {"idle", "loop"} => Held(got[inc.current].buffer) < HighWater
  /\ \A m \in DOMAIN got : \E n \in PacketSizes : Held(got[m].buffer) < HighWater + n - HeaderLength

Inv == TypeOK /\ OpenedInv /\ MessageInv /\ TurnInv /\ WriterInv /\ LogInv /\ ReadyInv /\ StreamInv
       /\ WriterBound /\ ReaderBound

-------------------------------------------------------------------------------
(* Arithmetic.                                                                   *)

LEMMA Division ==
  ASSUME NEW a \in Nat, NEW l \in Nat \ {0}
  PROVE  /\ a \div l \in Nat /\ a % l \in Nat
         /\ (a \div l) * l \in Nat /\ (a \div l) * l <= a /\ a < (a \div l) * l + l
  OBVIOUS

LEMMA Quotients ==
  ASSUME NEW a \in Nat, NEW b \in Nat, a <= b, NEW l \in Nat \ {0}
  PROVE  a \div l <= b \div l
  OBVIOUS

LEMMA Products ==
  ASSUME NEW a \in Nat, NEW b \in Nat, NEW l \in Nat
  PROVE  /\ a * l \in Nat /\ (a + b) * l = a * l + b * l
         /\ a <= b => a * l <= b * l
  OBVIOUS

LEMMA Remainder ==
  ASSUME NEW q \in Nat, NEW l \in Nat \ {0}, NEW r \in 0 .. l - 1
  PROVE  (l * q + r) % l = r
  OBVIOUS

\* Packet numbers go on by one.
LEMMA NextNumber ==
  ASSUME NEW a \in Nat, NEW l \in Nat \ {0}
  PROVE  (a + 1) % l = ((a % l) + 1) % l
<1> DEFINE q == a \div l
           r == a % l
<1>1. q \in Nat /\ r \in 0 .. l - 1 /\ a = l * q + r
  OBVIOUS
<1> HIDE DEF q, r
<1>2. CASE r < l - 1
  <2>1. r + 1 \in 0 .. l - 1 /\ a + 1 = l * q + (r + 1)
    BY <1>1, <1>2
  <2>2. (a + 1) % l = r + 1
    BY <1>1, <2>1, Remainder
  <2>3. (l * 0 + (r + 1)) % l = r + 1
    BY <2>1, Remainder
  <2>4. l * 0 + (r + 1) = r + 1
    BY <1>1
  <2> QED
    BY <2>2, <2>3, <2>4 DEF r
<1>3. CASE r = l - 1
  <2>1. a + 1 = l * (q + 1) + 0 /\ r + 1 = l * 1 + 0 /\ q + 1 \in Nat /\ 0 \in 0 .. l - 1
    BY <1>1, <1>3
  <2>2. (l * (q + 1) + 0) % l = 0
    BY <2>1, Remainder
  <2>3. (l * 1 + 0) % l = 0
    BY <2>1, Remainder
  <2> QED
    BY <2>1, <2>2, <2>3 DEF r
<1> QED
  BY <1>1, <1>2, <1>3

-------------------------------------------------------------------------------
(* Bytes of messages.                                                            *)

LEMMA TextType ==
  ASSUME NEW m \in Nat, NEW a \in Nat, NEW b \in Nat, a <= b
  PROVE  /\ Text(m, a, b) \in Buffers /\ Len(Text(m, a, b)) = b - a
         /\ \A i \in 1 .. b - a : Text(m, a, b)[i] = Byte(m, a + i)
<1>1. b - a \in Nat
  OBVIOUS
<1>2. \A i \in 1 .. b - a : Byte(m, a + i) \in Nat
  BY DEF Byte
<1>3. Text(m, a, b) \in [1 .. b - a -> Nat]
  BY <1>2 DEF Text
<1>4. Text(m, a, b) \in Buffers /\ Len(Text(m, a, b)) = b - a
  BY <1>1, <1>3 DEF Buffers
<1> QED
  BY <1>4 DEF Text

LEMMA TextEmpty ==
  ASSUME NEW m \in Nat, NEW a \in Nat
  PROVE  Text(m, a, a) = <<>>
<1>1. Text(m, a, a) \in Buffers /\ Len(Text(m, a, a)) = 0
  BY TextType
<1> QED
  BY <1>1, EmptySeq DEF Buffers

LEMMA TextConcat ==
  ASSUME NEW m \in Nat, NEW a \in Nat, NEW b \in Nat, NEW c \in Nat, a <= b, b <= c
  PROVE  Text(m, a, b) \o Text(m, b, c) = Text(m, a, c)
<1> DEFINE s == Text(m, a, b)
           t == Text(m, b, c)
           u == Text(m, a, c)
<1>1. /\ s \in Seq(Nat) /\ Len(s) = b - a /\ \A i \in 1 .. b - a : s[i] = Byte(m, a + i)
      /\ t \in Seq(Nat) /\ Len(t) = c - b /\ \A i \in 1 .. c - b : t[i] = Byte(m, b + i)
      /\ u \in Seq(Nat) /\ Len(u) = c - a /\ \A i \in 1 .. c - a : u[i] = Byte(m, a + i)
  <2>1. s \in Seq(Nat) /\ Len(s) = b - a /\ \A i \in 1 .. b - a : s[i] = Byte(m, a + i)
    BY TextType DEF Buffers
  <2>2. t \in Seq(Nat) /\ Len(t) = c - b /\ \A i \in 1 .. c - b : t[i] = Byte(m, b + i)
    BY TextType DEF Buffers
  <2>3. a <= c
    OBVIOUS
  <2>4. u \in Seq(Nat) /\ Len(u) = c - a /\ \A i \in 1 .. c - a : u[i] = Byte(m, a + i)
    BY <2>3, TextType DEF Buffers
  <2> QED
    BY <2>1, <2>2, <2>4
<1> HIDE DEF s, t, u
<1>2. /\ s \o t \in Seq(Nat) /\ Len(s \o t) = c - a
      /\ \A i \in 1 .. c - a : (s \o t)[i] = IF i <= b - a THEN s[i] ELSE t[i - (b - a)]
  <2>1. /\ s \o t \in Seq(Nat) /\ Len(s \o t) = Len(s) + Len(t)
        /\ \A i \in 1 .. Len(s) + Len(t) : (s \o t)[i] = IF i <= Len(s) THEN s[i] ELSE t[i - Len(s)]
    BY <1>1, ConcatProperties
  <2>2. Len(s) = b - a /\ Len(s) + Len(t) = c - a
    BY <1>1
  <2> QED
    BY <2>1, <2>2
<1>3. ASSUME NEW i \in 1 .. c - a
      PROVE  (s \o t)[i] = u[i]
  <2>1. CASE i <= b - a
    BY <1>1, <1>2, <2>1
  <2>2. CASE i > b - a
    <3>1. i - (b - a) \in 1 .. c - b /\ b + (i - (b - a)) = a + i
      BY <2>2
    <3>2. (s \o t)[i] = t[i - (b - a)]
      BY <1>2, <2>2
    <3>3. t[i - (b - a)] = Byte(m, a + i)
      BY <1>1, <3>1
    <3> QED
      BY <1>1, <3>2, <3>3
  <2>3. i <= b - a \/ i > b - a
    OBVIOUS
  <2> QED
    BY <2>1, <2>2, <2>3
<1>4. s \o t = u
  BY <1>1, <1>2, <1>3, SeqEqual
<1> QED
  BY <1>4 DEF s, t, u

LEMMA TextSub ==
  ASSUME NEW m \in Nat, NEW a \in Nat, NEW b \in Nat, a <= b, NEW i \in 0 .. b - a, NEW j \in i .. b - a
  PROVE  SubSeq(Text(m, a, b), i + 1, j) = Text(m, a + i, a + j)
<1> DEFINE s == Text(m, a, b)
           t == Text(m, a + i, a + j)
           u == SubSeq(s, i + 1, j)
<1>1. /\ s \in Seq(Nat) /\ Len(s) = b - a /\ \A k \in 1 .. b - a : s[k] = Byte(m, a + k)
  BY TextType DEF Buffers
<1>2. /\ t \in Seq(Nat) /\ Len(t) = j - i /\ \A k \in 1 .. j - i : t[k] = Byte(m, (a + i) + k)
  <2> DEFINE c == a + i
             d == a + j
  <2>1. c \in Nat /\ d \in Nat /\ c <= d /\ d - c = j - i
    OBVIOUS
  <2> HIDE DEF c, d
  <2>2. /\ Text(m, c, d) \in Seq(Nat) /\ Len(Text(m, c, d)) = d - c
        /\ \A k \in 1 .. d - c : Text(m, c, d)[k] = Byte(m, c + k)
    BY <2>1, TextType, ZenonT(40) DEF Buffers
  <2> QED
    BY <2>1, <2>2 DEF c, d
<1> HIDE DEF s, t
<1>3. /\ u \in Seq(Nat) /\ Len(u) = j - i /\ \A k \in 1 .. j - i : u[k] = s[i + k]
  <2>1. \A k \in i + 1 .. j : s[k] \in Nat
    BY <1>1, ElementOfSeq
  <2>2. /\ u \in Seq(Nat) /\ Len(u) = IF i + 1 <= j THEN j - (i + 1) + 1 ELSE 0
        /\ \A k \in 1 .. j - (i + 1) + 1 : u[k] = s[(i + 1) + k - 1]
    BY <2>1, SubSeqProperties
  <2> HIDE DEF u
  <2> QED
    BY <2>2
<1> HIDE DEF u
<1>4. ASSUME NEW k \in 1 .. j - i
      PROVE  u[k] = t[k]
  <2>1. i + k \in 1 .. b - a /\ a + (i + k) = (a + i) + k
    OBVIOUS
  <2> QED
    BY <1>1, <1>2, <1>3, <2>1
<1>5. u = t
  BY <1>2, <1>3, <1>4, SeqEqual
<1> QED
  BY <1>5 DEF s, t, u

-------------------------------------------------------------------------------
(* Chunks.                                                                       *)

LEMMA Part ==
  ASSUME NEW s \in Buffers, NEW i \in 0 .. Len(s), NEW j \in i .. Len(s)
  PROVE  /\ SubSeq(s, i + 1, j) \in Buffers /\ Len(SubSeq(s, i + 1, j)) = j - i
         /\ \A k \in 1 .. j - i : SubSeq(s, i + 1, j)[k] = s[i + k]
<1> DEFINE u == SubSeq(s, i + 1, j)
<1>0. i \in Int /\ j \in Int /\ i <= j /\ j <= Len(s) /\ Len(s) \in Nat
  BY DEF Buffers
<1>1. \A k \in i + 1 .. j : s[k] \in Nat
  BY <1>0, ElementOfSeq DEF Buffers
<1>2. /\ u \in Seq(Nat) /\ Len(u) = IF i + 1 <= j THEN j - (i + 1) + 1 ELSE 0
      /\ \A k \in 1 .. j - (i + 1) + 1 : u[k] = s[(i + 1) + k - 1]
  BY <1>0, <1>1, SubSeqProperties, SMTT(30)
<1> HIDE DEF u
<1>3. u \in Buffers /\ Len(u) = j - i
  BY <1>0, <1>2 DEF Buffers
<1>4. ASSUME NEW k \in 1 .. j - i
      PROVE  u[k] = s[i + k]
  <2>1. /\ i + 1 \in Int /\ k \in Int /\ (i + 1) + k - 1 = i + k
        /\ k \in 1 .. j - (i + 1) + 1
    BY <1>0
  <2> QED
    BY <1>2, <2>1
<1> QED
  BY <1>3, <1>4 DEF u

LEMMA SameBytes ==
  ASSUME NEW s \in Buffers, NEW t \in Buffers, NEW n \in Nat, Len(s) = n, Len(t) = n,
         \A k \in 1 .. n : s[k] = t[k]
  PROVE  s = t
  BY SeqEqual DEF Buffers

LEMMA Concatenated ==
  ASSUME NEW S, NEW s \in Seq(S), NEW c \in Seq(S)
  PROVE  /\ s \o c \in Seq(S) /\ Len(s \o c) = Len(s) + Len(c)
         /\ Len(s) \in Nat /\ Len(c) \in Nat
         /\ \A k \in 1 .. Len(s) : (s \o c)[k] = s[k]
         /\ \A k \in 1 .. Len(c) : (s \o c)[Len(s) + k] = c[k]
<1>1. /\ s \o c \in Seq(S) /\ Len(s \o c) = Len(s) + Len(c)
      /\ \A k \in 1 .. Len(s) + Len(c) : (s \o c)[k] = IF k <= Len(s) THEN s[k] ELSE c[k - Len(s)]
  BY ConcatProperties
<1>2. Len(s) \in Nat /\ Len(c) \in Nat
  OBVIOUS
<1>3. \A k \in 1 .. Len(s) : (s \o c)[k] = s[k]
  BY <1>1, <1>2
<1>4. ASSUME NEW k \in 1 .. Len(c)
      PROVE  (s \o c)[Len(s) + k] = c[k]
  <2>1. Len(s) + k \in 1 .. Len(s) + Len(c) /\ ~(Len(s) + k <= Len(s)) /\ (Len(s) + k) - Len(s) = k
    BY <1>2
  <2> QED
    BY <1>1, <2>1
<1> QED
  BY <1>1, <1>2, <1>3, <1>4

LEMMA Joined ==
  ASSUME NEW s \in Buffers, NEW c \in Buffers
  PROVE  /\ s \o c \in Buffers /\ Len(s \o c) = Len(s) + Len(c)
         /\ Len(s) \in Nat /\ Len(c) \in Nat
         /\ \A k \in 1 .. Len(s) : (s \o c)[k] = s[k]
         /\ \A k \in 1 .. Len(c) : (s \o c)[Len(s) + k] = c[k]
BY Concatenated DEF Buffers

LEMMA ChunksJoined ==
  ASSUME NEW s \in Seq(Buffers), NEW c \in Seq(Buffers)
  PROVE  /\ s \o c \in Seq(Buffers) /\ Len(s \o c) = Len(s) + Len(c)
         /\ Len(s) \in Nat /\ Len(c) \in Nat
         /\ \A k \in 1 .. Len(s) : (s \o c)[k] = s[k]
         /\ \A k \in 1 .. Len(c) : (s \o c)[Len(s) + k] = c[k]
<1> DEFINE T == Buffers
<1>1. s \in Seq(T) /\ c \in Seq(T)
  OBVIOUS
<1> HIDE DEF T
<1>2. /\ s \o c \in Seq(T) /\ Len(s \o c) = Len(s) + Len(c)
      /\ Len(s) \in Nat /\ Len(c) \in Nat
      /\ \A k \in 1 .. Len(s) : (s \o c)[k] = s[k]
      /\ \A k \in 1 .. Len(c) : (s \o c)[Len(s) + k] = c[k]
  BY <1>1, Concatenated
<1> QED
  BY <1>2 DEF T

LEMMA Associative ==
  ASSUME NEW s \in Buffers, NEW t \in Buffers, NEW u \in Buffers
  PROVE  (s \o t) \o u = s \o (t \o u)
<1> DEFINE S == Nat
<1>1. s \in Seq(S) /\ t \in Seq(S) /\ u \in Seq(S)
  BY DEF Buffers
<1> HIDE DEF S
<1> QED
  BY <1>1, ConcatAssociative, SMTT(30)

\* A buffer is its first bytes and the rest.
LEMMA Parts ==
  ASSUME NEW s \in Buffers, NEW n \in 0 .. Len(s)
  PROVE  /\ SubSeq(s, 1, n) \in Buffers /\ SubSeq(s, n + 1, Len(s)) \in Buffers
         /\ SubSeq(s, 1, n) \o SubSeq(s, n + 1, Len(s)) = s
<1> DEFINE l == Len(s)
           a == SubSeq(s, 1, n)
           z == SubSeq(s, n + 1, l)
<1>1. l \in Nat /\ 0 + 1 = 1 /\ 0 \in 0 .. l /\ n \in 0 .. l /\ l \in n .. l /\ n \in Nat /\ n - 0 = n
  BY DEF Buffers
<1>2. z \in Buffers /\ Len(z) = l - n /\ \A k \in 1 .. l - n : z[k] = s[n + k]
  BY <1>1, Part
<1>3. a \in Buffers /\ Len(a) = n /\ \A k \in 1 .. n : a[k] = s[k]
  <2>1. /\ SubSeq(s, 0 + 1, n) \in Buffers /\ Len(SubSeq(s, 0 + 1, n)) = n - 0
        /\ \A k \in 1 .. n - 0 : SubSeq(s, 0 + 1, n)[k] = s[0 + k]
    BY <1>1, Part
  <2> QED
    BY <1>1, <2>1
<1> HIDE DEF a, z, l
<1>4. /\ a \o z \in Buffers /\ Len(a \o z) = Len(a) + Len(z)
      /\ \A k \in 1 .. Len(a) : (a \o z)[k] = a[k]
      /\ \A k \in 1 .. Len(z) : (a \o z)[Len(a) + k] = z[k]
  BY <1>2, <1>3, Joined
<1>5. Len(a \o z) = l
  BY <1>1, <1>2, <1>3, <1>4
<1>6. ASSUME NEW k \in 1 .. l
      PROVE  (a \o z)[k] = s[k]
  <2>1. CASE k \in 1 .. n
    BY <1>3, <1>4, <2>1
  <2>2. CASE k > n
    <3> DEFINE j == k - n
    <3>1. j \in 1 .. l - n /\ n + j = k
      BY <1>1, <2>2
    <3> HIDE DEF j
    <3>2. (a \o z)[n + j] = z[j] /\ z[j] = s[n + j]
      BY <1>2, <1>3, <1>4, <3>1
    <3> QED
      BY <3>1, <3>2
  <2>3. k \in 1 .. n \/ k > n
    BY <1>1
  <2> QED
    BY <2>1, <2>2, <2>3
<1>7. a \o z = s
  BY <1>1, <1>4, <1>5, <1>6, SameBytes DEF l
<1> QED
  BY <1>2, <1>3, <1>7 DEF a, z, l

\* What is joined to a buffer changes nothing in it, and is found after it.
LEMMA PartOfJoined ==
  ASSUME NEW s \in Buffers, NEW c \in Buffers
  PROVE  /\ \A i \in 0 .. Len(s) : \A j \in i .. Len(s) :
              SubSeq(s \o c, i + 1, j) = SubSeq(s, i + 1, j)
         /\ SubSeq(s \o c, Len(s) + 1, Len(s) + Len(c)) = c
<1>1. /\ s \o c \in Buffers /\ Len(s \o c) = Len(s) + Len(c) /\ Len(s) \in Nat /\ Len(c) \in Nat
      /\ \A k \in 1 .. Len(s) : (s \o c)[k] = s[k]
      /\ \A k \in 1 .. Len(c) : (s \o c)[Len(s) + k] = c[k]
  BY Joined
<1>2. ASSUME NEW i \in 0 .. Len(s), NEW j \in i .. Len(s)
      PROVE  SubSeq(s \o c, i + 1, j) = SubSeq(s, i + 1, j)
  <2> DEFINE u == SubSeq(s \o c, i + 1, j)
             v == SubSeq(s, i + 1, j)
  <2>1. i \in 0 .. Len(s \o c) /\ j \in i .. Len(s \o c) /\ j - i \in Nat
    BY <1>1
  <2>2. u \in Buffers /\ Len(u) = j - i /\ \A k \in 1 .. j - i : u[k] = (s \o c)[i + k]
    BY <1>1, <2>1, Part
  <2>3. v \in Buffers /\ Len(v) = j - i /\ \A k \in 1 .. j - i : v[k] = s[i + k]
    BY Part
  <2> HIDE DEF u, v
  <2>4. ASSUME NEW k \in 1 .. j - i
        PROVE  u[k] = v[k]
    <3>1. i + k \in 1 .. Len(s)
      BY <1>1
    <3> QED
      BY <1>1, <2>2, <2>3, <3>1
  <2>5. u = v
    BY <2>1, <2>2, <2>3, <2>4, SameBytes
  <2> QED
    BY <2>5 DEF u, v
<1>3. SubSeq(s \o c, Len(s) + 1, Len(s) + Len(c)) = c
  <2> DEFINE u == SubSeq(s \o c, Len(s) + 1, Len(s) + Len(c))
  <2>1. /\ Len(s) \in 0 .. Len(s \o c) /\ Len(s) + Len(c) \in Len(s) .. Len(s \o c)
        /\ (Len(s) + Len(c)) - Len(s) = Len(c)
    BY <1>1
  <2>2. u \in Buffers /\ Len(u) = Len(c) /\ \A k \in 1 .. Len(c) : u[k] = (s \o c)[Len(s) + k]
    BY <1>1, <2>1, Part, ZenonT(40)
  <2> HIDE DEF u
  <2>3. u = c
    BY <1>1, <2>2, SameBytes, SMTT(30)
  <2> QED
    BY <2>3 DEF u
<1> QED
  BY <1>2, <1>3

LEMMA PartOfRest ==
  ASSUME NEW s \in Buffers, NEW k \in 0 .. Len(s),
         NEW i \in k .. Len(s), NEW j \in i .. Len(s)
  PROVE  SubSeq(SubSeq(s, k + 1, Len(s)), (i - k) + 1, j - k) = SubSeq(s, i + 1, j)
<1> DEFINE r == SubSeq(s, k + 1, Len(s))
           u == SubSeq(r, (i - k) + 1, j - k)
           v == SubSeq(s, i + 1, j)
<1>0. Len(s) \in k .. Len(s) /\ i \in 0 .. Len(s) /\ j - i \in Nat /\ Len(s) \in Nat
  BY DEF Buffers
<1>1. r \in Buffers /\ Len(r) = Len(s) - k /\ \A n \in 1 .. Len(s) - k : r[n] = s[k + n]
  BY <1>0, Part
<1>2. v \in Buffers /\ Len(v) = j - i /\ \A n \in 1 .. j - i : v[n] = s[i + n]
  BY <1>0, Part
<1> HIDE DEF r, v
<1>3. u \in Buffers /\ Len(u) = j - i /\ \A n \in 1 .. j - i : u[n] = r[(i - k) + n]
  <2> DEFINE a == i - k
             b == j - k
  <2>1. a \in 0 .. Len(r) /\ b \in a .. Len(r) /\ b - a = j - i
    BY <1>0, <1>1
  <2> HIDE DEF a, b
  <2>2. /\ SubSeq(r, a + 1, b) \in Buffers /\ Len(SubSeq(r, a + 1, b)) = b - a
        /\ \A n \in 1 .. b - a : SubSeq(r, a + 1, b)[n] = r[a + n]
    BY <1>1, <2>1, Part
  <2> QED
    BY <2>1, <2>2 DEF a, b
<1> HIDE DEF u
<1>4. ASSUME NEW n \in 1 .. j - i
      PROVE  u[n] = v[n]
  <2>1. (i - k) + n \in 1 .. Len(s) - k /\ k + ((i - k) + n) = i + n
    BY <1>0
  <2> QED
    BY <1>1, <1>2, <1>3, <2>1
<1>5. u = v
  BY <1>0, <1>2, <1>3, <1>4, SameBytes
<1> QED
  BY <1>5 DEF u, v, r

LEMMA LaidEmpty ==
  /\ Laid(<<>>, <<>>)
  /\ \A s \in Buffers : Laid(s, <<>>) => s = <<>>
<1>1. Laid(<<>>, <<>>)
  <2> DEFINE e == [k \in 0 .. 0 |-> 0]
  <2>1. Len(<<>>) = 0
    OBVIOUS
  <2>2. e \in [0 .. Len(<<>>) -> 0 .. Len(<<>>)] /\ e[0] = 0
    BY <2>1
  <2> HIDE DEF e
  <2>3. \A i, j \in 0 .. Len(<<>>) : i <= j => e[i] <= e[j]
    BY <2>1, <2>2
  <2>4. \A j \in 1 .. Len(<<>>) : FALSE
    BY <2>1
  <2> QED
    BY <2>1, <2>2, <2>3, <2>4 DEF Laid
<1>2. ASSUME NEW s \in Buffers, Laid(s, <<>>)
      PROVE  s = <<>>
  <2>1. Len(<<>>) = 0
    OBVIOUS
  <2>2. Len(s) = 0
    BY <1>2, <2>1 DEF Laid
  <2> QED
    BY <2>2, EmptySeq DEF Buffers
<1> QED
  BY <1>1, <1>2

LEMMA LaidAppend ==
  ASSUME NEW s \in Buffers, NEW chunks \in Seq(Buffers), NEW c \in Buffers, Laid(s, chunks)
  PROVE  Laid(s \o c, Append(chunks, c))
<1> DEFINE n == Len(chunks)
           more == Append(chunks, c)
<1>1. PICK e \in [0 .. n -> 0 .. Len(s)] :
        /\ e[0] = 0 /\ e[n] = Len(s)
        /\ \A i, j \in 0 .. n : i <= j => e[i] <= e[j]
        /\ \A j \in 1 .. n : e[j] = e[j - 1] + Len(chunks[j]) /\ chunks[j] = SubSeq(s, e[j - 1] + 1, e[j])
  BY DEF Laid
<1>2. /\ n \in Nat /\ Len(more) = n + 1
      /\ \A j \in 1 .. n : more[j] = chunks[j]
      /\ more[n + 1] = c
  BY AppendProperties
<1>3. Len(s) \in Nat /\ Len(c) \in Nat /\ Len(s \o c) = Len(s) + Len(c)
  BY Joined
<1> HIDE DEF n, more
<1> DEFINE f == [k \in 0 .. n + 1 |-> IF k <= n THEN e[k] ELSE Len(s) + Len(c)]
<1>4. /\ f \in [0 .. n + 1 -> 0 .. Len(s) + Len(c)]
      /\ \A k \in 0 .. n : f[k] = e[k]
      /\ f[n + 1] = Len(s) + Len(c)
  <2>1. ASSUME NEW k \in 0 .. n + 1
        PROVE  (IF k <= n THEN e[k] ELSE Len(s) + Len(c)) \in 0 .. Len(s) + Len(c)
    <3>1. CASE k <= n
      <4>1. e[k] \in 0 .. Len(s)
        BY <1>2, <3>1
      <4> QED
        BY <1>3, <3>1, <4>1
    <3>2. CASE ~(k <= n)
      BY <1>3, <3>2
    <3> QED
      BY <3>1, <3>2
  <2> QED
    BY <1>2, <2>1
<1> HIDE DEF f
<1>5. \A i, j \in 0 .. n + 1 : i <= j => f[i] <= f[j]
  <2> SUFFICES ASSUME NEW i \in 0 .. n + 1, NEW j \in 0 .. n + 1, i <= j
               PROVE  f[i] <= f[j]
    OBVIOUS
  <2>1. CASE j <= n
    <3>1. i \in 0 .. n /\ j \in 0 .. n
      BY <1>2, <2>1
    <3> QED
      BY <1>1, <1>4, <3>1
  <2>2. CASE j = n + 1
    <3>1. f[i] \in 0 .. Len(s) + Len(c)
      BY <1>4
    <3> QED
      BY <1>3, <1>4, <2>2, <3>1
  <2> QED
    BY <1>2, <2>1, <2>2
<1>6. ASSUME NEW j \in 1 .. n + 1
      PROVE  f[j] = f[j - 1] + Len(more[j]) /\ more[j] = SubSeq(s \o c, f[j - 1] + 1, f[j])
  <2>1. CASE j <= n
    <3>1. j \in 1 .. n /\ j - 1 \in 0 .. n /\ j \in 0 .. n /\ j - 1 <= j
      BY <1>2, <2>1
    <3>2. f[j] = e[j] /\ f[j - 1] = e[j - 1] /\ more[j] = chunks[j]
      BY <1>2, <1>4, <3>1
    <3>3. e[j - 1] \in 0 .. Len(s) /\ e[j] \in e[j - 1] .. Len(s)
      <4>1. e[j - 1] \in 0 .. Len(s) /\ e[j] \in 0 .. Len(s) /\ e[j - 1] <= e[j]
        BY <1>1, <3>1
      <4> QED
        BY <1>3, <4>1
    <3>4. SubSeq(s \o c, e[j - 1] + 1, e[j]) = SubSeq(s, e[j - 1] + 1, e[j])
      BY <3>3, PartOfJoined
    <3> QED
      BY <1>1, <3>1, <3>2, <3>4
  <2>2. CASE j = n + 1
    <3>1. j - 1 = n /\ n \in 0 .. n
      BY <1>2, <2>2
    <3>2. f[j] = Len(s) + Len(c) /\ f[j - 1] = Len(s) /\ more[j] = c
      BY <1>1, <1>2, <1>4, <2>2, <3>1
    <3>3. SubSeq(s \o c, Len(s) + 1, Len(s) + Len(c)) = c
      BY PartOfJoined
    <3> QED
      BY <3>2, <3>3
  <2>3. j <= n \/ j = n + 1
    BY <1>2
  <2> QED
    BY <2>1, <2>2, <2>3
<1>7. f[0] = 0
  BY <1>1, <1>2, <1>4
<1>8. Laid(s \o c, more)
  BY <1>2, <1>3, <1>4, <1>5, <1>6, <1>7 DEF Laid
<1> QED
  BY <1>8 DEF more

\* The first chunk comes first, and what is left is the chunks that are left.
LEMMA LaidTail ==
  ASSUME NEW s \in Buffers, NEW chunks \in Seq(Buffers), chunks # <<>>, Laid(s, chunks)
  PROVE  /\ Head(chunks) \in Buffers /\ Len(Head(chunks)) \in 0 .. Len(s)
         /\ Head(chunks) = SubSeq(s, 1, Len(Head(chunks)))
         /\ Laid(SubSeq(s, Len(Head(chunks)) + 1, Len(s)), Tail(chunks))
<1> DEFINE n == Len(chunks)
           k == Len(Head(chunks))
           rest == SubSeq(s, k + 1, Len(s))
           less == Tail(chunks)
<1>1. PICK e \in [0 .. n -> 0 .. Len(s)] :
        /\ e[0] = 0 /\ e[n] = Len(s)
        /\ \A i, j \in 0 .. n : i <= j => e[i] <= e[j]
        /\ \A j \in 1 .. n : e[j] = e[j - 1] + Len(chunks[j]) /\ chunks[j] = SubSeq(s, e[j - 1] + 1, e[j])
  BY DEF Laid
<1>2. /\ n \in Nat \ {0} /\ Len(less) = n - 1 /\ Head(chunks) = chunks[1] /\ Head(chunks) \in Buffers
      /\ \A j \in 1 .. n - 1 : less[j] = chunks[j + 1]
  <2>1. n \in Nat \ {0}
    BY EmptySeq
  <2>2. /\ Head(chunks) \in Buffers /\ Len(less) = n - 1
        /\ \A j \in 1 .. Len(less) : less[j] = chunks[j + 1]
    BY HeadTailProperties
  <2> HIDE DEF n, less
  <2>3. \A j \in 1 .. n - 1 : less[j] = chunks[j + 1]
    BY <2>2
  <2> QED
    BY <2>1, <2>2, <2>3
<1>3. k \in Nat /\ Len(s) \in Nat
  BY <1>2 DEF Buffers
<1> HIDE DEF n, less
<1>4. e[1] = k /\ k \in 0 .. Len(s) /\ Head(chunks) = SubSeq(s, 1, k)
  <2>1. 1 \in 1 .. n /\ 1 \in 0 .. n /\ 1 - 1 = 0
    BY <1>2
  <2>2. e[1] = e[0] + Len(chunks[1]) /\ chunks[1] = SubSeq(s, e[0] + 1, e[1]) /\ e[1] \in 0 .. Len(s)
    BY <1>1, <2>1
  <2>3. 0 + 1 = 1 /\ 0 + k = k
    BY <1>3
  <2> QED
    BY <1>1, <1>2, <2>2, <2>3
<1> HIDE DEF k
<1>5. rest \in Buffers /\ Len(rest) = Len(s) - k
  <2>1. Len(s) \in k .. Len(s)
    BY <1>3, <1>4
  <2> QED
    BY <1>4, <2>1, Part
<1> DEFINE f == [j \in 0 .. n - 1 |-> e[j + 1] - k]
<1>6. ASSUME NEW j \in 0 .. n - 1
      PROVE  /\ j + 1 \in 0 .. n /\ e[j + 1] \in k .. Len(s) /\ e[j + 1] - k \in 0 .. Len(s) - k
  <2>1. j + 1 \in 0 .. n /\ 1 \in 0 .. n /\ 1 <= j + 1
    BY <1>2
  <2>2. e[j + 1] \in 0 .. Len(s) /\ e[1] <= e[j + 1]
    BY <1>1, <2>1
  <2> QED
    BY <1>3, <1>4, <2>1, <2>2
<1>7. /\ f \in [0 .. n - 1 -> 0 .. Len(s) - k]
      /\ \A j \in 0 .. n - 1 : f[j] = e[j + 1] - k
  BY <1>6
<1> HIDE DEF f, rest
<1>8. f[0] = 0 /\ f[n - 1] = Len(s) - k
  <2>1. 0 \in 0 .. n - 1 /\ n - 1 \in 0 .. n - 1 /\ 0 + 1 = 1 /\ (n - 1) + 1 = n
    BY <1>2
  <2>2. f[0] = e[1] - k /\ f[n - 1] = e[n] - k
    BY <1>7, <2>1
  <2> QED
    BY <1>1, <1>3, <1>4, <2>2
<1>9. ASSUME NEW i \in 0 .. n - 1, NEW j \in 0 .. n - 1, i <= j
      PROVE  f[i] <= f[j]
  <2>1. i + 1 <= j + 1
    BY <1>9
  <2>2. e[i + 1] <= e[j + 1] /\ e[i + 1] \in k .. Len(s) /\ e[j + 1] \in k .. Len(s)
    BY <1>1, <1>6, <2>1
  <2> QED
    BY <1>3, <1>7, <2>2
<1>10. ASSUME NEW j \in 1 .. n - 1
       PROVE  f[j] = f[j - 1] + Len(less[j]) /\ less[j] = SubSeq(rest, f[j - 1] + 1, f[j])
  <2>1. j \in 0 .. n - 1 /\ j - 1 \in 0 .. n - 1 /\ (j - 1) + 1 = j /\ (j + 1) - 1 = j /\ j + 1 \in 1 .. n
    BY <1>2
  <2>2. f[j] = e[j + 1] - k /\ f[j - 1] = e[j] - k /\ less[j] = chunks[j + 1]
    BY <1>2, <1>7, <2>1
  <2>3. e[j + 1] = e[j] + Len(chunks[j + 1]) /\ chunks[j + 1] = SubSeq(s, e[j] + 1, e[j + 1])
    BY <1>1, <2>1
  <2>4. e[j] \in k .. Len(s) /\ e[j + 1] \in k .. Len(s)
    BY <1>6, <2>1
  <2>5. Len(chunks[j + 1]) \in Nat
    BY <2>1 DEF Buffers, n
  <2>6. PICK x \in Nat, y \in Nat, l \in Nat : x = e[j] /\ y = e[j + 1] /\ l = Len(chunks[j + 1])
    BY <1>3, <2>4, <2>5
  <2>7. y = x + l /\ x \in k .. Len(s) /\ y \in k .. Len(s)
    BY <2>3, <2>4, <2>6
  <2>8. y \in x .. Len(s) /\ y - k = (x - k) + l
    BY <1>3, <2>7
  <2>9. SubSeq(rest, (x - k) + 1, y - k) = SubSeq(s, x + 1, y)
    BY <1>4, <2>7, <2>8, PartOfRest DEF rest
  <2> QED
    BY <2>2, <2>3, <2>6, <2>8, <2>9
<1>11. Laid(rest, less)
  BY <1>2, <1>5, <1>7, <1>8, <1>9, <1>10 DEF Laid
<1> QED
  BY <1>2, <1>4, <1>11 DEF k, rest, less

-------------------------------------------------------------------------------
(* The plan and the packets made of it.                                          *)

LEMMA PlanIs ==
  /\ Len(Plan) \in Nat /\ Messages = 1 .. Len(Plan)
  /\ \A m \in Messages : /\ m \in Nat \ {0} /\ Plan[m].type \in Nat /\ Plan[m].reset \in BOOLEAN
                         /\ Plan[m].writes \in Seq(Nat) /\ Len(Plan[m].writes) \in Nat
  /\ FirstSize \in PacketSizes /\ HighWater \in Nat \ {0} /\ IdModulus \in Nat \ {0}
  /\ \A n \in PacketSizes : n \in Nat /\ n - HeaderLength \in Nat \ {0}
<1>1. Len(Plan) \in Nat /\ Messages = 1 .. Len(Plan)
  BY PlanAssumption DEF Messages
<1>2. ASSUME NEW m \in Messages
      PROVE  /\ m \in Nat \ {0} /\ Plan[m].type \in Nat /\ Plan[m].reset \in BOOLEAN
             /\ Plan[m].writes \in Seq(Nat) /\ Len(Plan[m].writes) \in Nat
  <2>1. Plan[m] \in [type : Nat, reset : BOOLEAN, writes : Seq(Nat)]
    BY <1>1, PlanAssumption, ElementOfSeq
  <2> QED
    BY <1>1, <2>1
<1> QED
  BY <1>1, <1>2, PlanAssumption DEF HeaderLength

LEMMA SizeIs ==
  ASSUME NEW m \in Messages, NEW b \in 0 .. Len(Plan[m].writes), NEW a \in 0 .. b
  PROVE  /\ Size(m, a) \in Nat /\ Size(m, b) \in Nat /\ Size(m, a) <= Size(m, b)
         /\ Size(m, 0) = 0
<1>1. Plan[m].writes \in Seq(Nat) /\ Len(Plan[m].writes) \in Nat
  BY PlanIs
<1>2. \A i \in 1 .. Len(Plan[m].writes) : Plan[m].writes[i] \in Nat
  BY <1>1, ElementOfSeq
<1>3. DOMAIN Plan[m].writes = 1 .. Len(Plan[m].writes)
  BY <1>1
<1>4. Size(m, a) \in Nat /\ Size(m, b) \in Nat /\ Size(m, 0) = 0
  BY <1>1, <1>2 DEF Size
<1>5. CASE a = 0
  BY <1>4, <1>5
<1>6. CASE a # 0
  <2>1. a \in DOMAIN Plan[m].writes /\ b \in DOMAIN Plan[m].writes /\ a <= b /\ b # 0
    BY <1>1, <1>3, <1>6
  <2>2. Plan[m].writes[a] <= Plan[m].writes[b]
    BY <2>1, PlanAssumption DEF Messages
  <2> QED
    BY <1>4, <1>6, <2>1, <2>2 DEF Size
<1> QED
  BY <1>4, <1>5, <1>6

LEMMA Bits ==
  ASSUME NEW r \in {0, 8}, NEW l \in {0, 1}, NEW i \in {0, 2}
  PROVE  /\ HasBit(r + l + i, Status.EOM) <=> l = 1
         /\ HasBit(r + l + i, Status.IGNORE) <=> i = 2
         /\ HasBit(r + l + i, Status.RESETCONNECTION) <=> r = 8
<1>1. Status.EOM = 1 /\ Status.IGNORE = 2 /\ Status.RESETCONNECTION = 8
  BY DEF Status
<1>2. /\ (r + l + i) \div 1 = r + l + i
      /\ r = 0 => (r + l + i) \div 8 = 0
      /\ r = 8 => (r + l + i) \div 8 = 1
  OBVIOUS
<1>3. /\ r = 0 /\ i = 0 => (r + l + i) \div 2 = 0
      /\ r = 0 /\ i = 2 => (r + l + i) \div 2 = 1
      /\ r = 8 /\ i = 0 => (r + l + i) \div 2 = 4
      /\ r = 8 /\ i = 2 => (r + l + i) \div 2 = 5
  OBVIOUS
<1>4. /\ 0 % 2 = 0 /\ 1 % 2 = 1 /\ 2 % 2 = 0 /\ 3 % 2 = 1 /\ 4 % 2 = 0 /\ 5 % 2 = 1
      /\ 8 % 2 = 0 /\ 9 % 2 = 1 /\ 10 % 2 = 0 /\ 11 % 2 = 1
  OBVIOUS
<1>5. HasBit(r + l + i, 1) <=> l = 1
  BY <1>2, <1>4 DEF HasBit
<1>6. HasBit(r + l + i, 2) <=> i = 2
  BY <1>3, <1>4 DEF HasBit
<1>7. HasBit(r + l + i, 8) <=> r = 8
  BY <1>2, <1>4 DEF HasBit
<1> QED
  BY <1>1, <1>5, <1>6, <1>7

LEMMA PacketIs ==
  ASSUME NEW m \in Messages, msg[m].ignore \in BOOLEAN,
         NEW number \in Nat, NEW last \in BOOLEAN, NEW data \in Buffers
  PROVE  LET b == Packet(m, number, last, data) IN
         /\ b \in Buffers /\ Len(b) = HeaderLength + Len(data) /\ Len(data) \in Nat
         /\ b[1] = Plan[m].type /\ PacketLength(b) = Len(b) /\ b[4] = number % IdModulus
         /\ PacketData(b) = data
         /\ IsLast(b) <=> last
         /\ HasBit(b[2], Status.IGNORE) <=> last /\ msg[m].ignore
         /\ HasBit(b[2], Status.RESETCONNECTION) <=> Plan[m].reset
<1> DEFINE r == IF Plan[m].reset THEN Status.RESETCONNECTION ELSE 0
           l == IF last THEN Status.EOM ELSE 0
           i == IF last /\ msg[m].ignore THEN Status.IGNORE ELSE 0
           status == r + l + i
           header == <<Plan[m].type, status, HeaderLength + Len(data), number % IdModulus>>
           b == Packet(m, number, last, data)
<1>1. /\ r \in {0, 8} /\ (r = 8 <=> Plan[m].reset)
      /\ l \in {0, 1} /\ (l = 1 <=> last)
      /\ i \in {0, 2} /\ (i = 2 <=> last /\ msg[m].ignore)
  BY PlanIs DEF Status
<1> HIDE DEF r, l, i
<1>2. /\ HasBit(status, Status.EOM) <=> last
      /\ HasBit(status, Status.IGNORE) <=> last /\ msg[m].ignore
      /\ HasBit(status, Status.RESETCONNECTION) <=> Plan[m].reset
  BY <1>1, Bits
<1>3. status \in Nat
  BY <1>1
<1>4. b = header \o data
  BY DEF Packet, r, l, i
<1> HIDE DEF status, b
<1>5. Len(data) \in Nat /\ Plan[m].type \in Nat /\ number % IdModulus \in Nat
  BY PlanIs, Division DEF Buffers
<1>6. /\ header \in Buffers /\ Len(header) = 4 /\ header[1] = Plan[m].type /\ header[2] = status
      /\ header[3] = HeaderLength + Len(data) /\ header[4] = number % IdModulus
  BY <1>3, <1>5 DEF Buffers, HeaderLength
<1> HIDE DEF header
<1>7. /\ b \in Buffers /\ Len(b) = 4 + Len(data)
      /\ \A k \in 1 .. 4 : b[k] = header[k]
  <2>1. /\ header \o data \in Buffers /\ Len(header \o data) = Len(header) + Len(data)
        /\ \A k \in 1 .. Len(header) : (header \o data)[k] = header[k]
    BY <1>6, Joined
  <2> QED
    BY <1>4, <1>6, <2>1
<1>8. b[1] = Plan[m].type /\ b[2] = status /\ b[3] = 4 + Len(data) /\ b[4] = number % IdModulus
  BY <1>6, <1>7 DEF HeaderLength
<1>9. PacketData(b) = data
  <2>1. SubSeq(header \o data, Len(header) + 1, Len(header) + Len(data)) = data
    BY <1>6, PartOfJoined
  <2> QED
    BY <1>4, <1>6, <1>7, <2>1 DEF PacketData, HeaderLength
<1>10. b \in Buffers /\ Len(b) = HeaderLength + Len(data) /\ Len(data) \in Nat
  BY <1>5, <1>7 DEF HeaderLength
<1>11. b[1] = Plan[m].type /\ PacketLength(b) = Len(b) /\ b[4] = number % IdModulus
  BY <1>7, <1>8 DEF PacketLength
<1>12. /\ IsLast(b) <=> last
       /\ HasBit(b[2], Status.IGNORE) <=> last /\ msg[m].ignore
       /\ HasBit(b[2], Status.RESETCONNECTION) <=> Plan[m].reset
  BY <1>2, <1>8 DEF IsLast
<1> QED
  BY <1>9, <1>10, <1>11, <1>12 DEF b

-------------------------------------------------------------------------------
(* How many bytes a buffer holds.                                                *)

Bytes(chunks, some) == UNION {{i} \X DOMAIN chunks[i] : i \in some}

LEMMA HeldFinite ==
  ASSUME NEW chunks \in Seq(Buffers), NEW some \in SUBSET (1 .. Len(chunks))
  PROVE  IsFiniteSet(Bytes(chunks, some)) /\ HeldIn(chunks, some) \in Nat
<1> DEFINE Of(i) == {i} \X DOMAIN chunks[i]
           all == {Of(i) : i \in some}
           f == [i \in some |-> Of(i)]
<1>1. IsFiniteSet(some)
  <2>1. Len(chunks) \in Int /\ 1 \in Int
    OBVIOUS
  <2>2. IsFiniteSet(1 .. Len(chunks))
    BY <2>1, FS_Interval
  <2> QED
    BY <2>2, FS_Subset
<1>2. f \in Surjection(some, all)
  BY DEF Surjection
<1>3. IsFiniteSet(all)
  BY <1>1, <1>2, FS_Surjection
<1>4. ASSUME NEW i \in some
      PROVE  IsFiniteSet(Of(i))
  <2>1. chunks[i] \in Seq(Nat)
    BY ElementOfSeq DEF Buffers
  <2>2. DOMAIN chunks[i] = 1 .. Len(chunks[i]) /\ Len(chunks[i]) \in Nat
    BY <2>1
  <2>3. Len(chunks[i]) \in Int /\ 1 \in Int
    BY <2>2
  <2>4. IsFiniteSet({i}) /\ IsFiniteSet(1 .. Len(chunks[i]))
    BY <2>3, FS_Singleton, FS_Interval
  <2> QED
    BY <2>2, <2>4, FS_Product
<1>5. \A T \in all : IsFiniteSet(T)
  BY <1>4
<1>6. IsFiniteSet(UNION all)
  BY <1>3, <1>5, FS_UNION
<1>7. Bytes(chunks, some) = UNION all
  BY DEF Bytes
<1>8. HeldIn(chunks, some) = Cardinality(Bytes(chunks, some))
  BY DEF HeldIn, Bytes
<1> QED
  BY <1>6, <1>7, <1>8, FS_CardinalityType

LEMMA HeldNone ==
  ASSUME NEW chunks
  PROVE  HeldIn(chunks, {}) = 0 /\ (chunks = <<>> => Held(chunks) = 0)
<1>1. UNION {{i} \X DOMAIN chunks[i] : i \in {}} = {}
  OBVIOUS
<1>2. HeldIn(chunks, {}) = 0
  BY <1>1, FS_EmptySet DEF HeldIn
<1>3. DOMAIN <<>> = {}
  OBVIOUS
<1> QED
  BY <1>2, <1>3 DEF Held

LEMMA HeldMore ==
  ASSUME NEW chunks \in Seq(Buffers), NEW more \in SUBSET (1 .. Len(chunks)), NEW some \in SUBSET more
  PROVE  HeldIn(chunks, some) \in Nat /\ HeldIn(chunks, more) \in Nat
         /\ HeldIn(chunks, some) <= HeldIn(chunks, more)
<1>1. some \in SUBSET (1 .. Len(chunks))
  OBVIOUS
<1>2. IsFiniteSet(Bytes(chunks, more)) /\ HeldIn(chunks, more) \in Nat /\ HeldIn(chunks, some) \in Nat
  BY <1>1, HeldFinite
<1>3. Bytes(chunks, some) \in SUBSET Bytes(chunks, more)
  BY DEF Bytes
<1>4. Cardinality(Bytes(chunks, some)) <= Cardinality(Bytes(chunks, more))
  BY <1>2, <1>3, FS_Subset
<1>5. /\ HeldIn(chunks, some) = Cardinality(Bytes(chunks, some))
      /\ HeldIn(chunks, more) = Cardinality(Bytes(chunks, more))
  BY DEF HeldIn, Bytes
<1> QED
  BY <1>2, <1>4, <1>5

LEMMA HeldSame ==
  ASSUME NEW chunks, NEW others, NEW some, \A i \in some : chunks[i] = others[i]
  PROVE  HeldIn(chunks, some) = HeldIn(others, some)
<1>1. {{i} \X DOMAIN chunks[i] : i \in some} = {{i} \X DOMAIN others[i] : i \in some}
  OBVIOUS
<1> QED
  BY <1>1 DEF HeldIn

LEMMA HeldBoth ==
  ASSUME NEW chunks \in Seq(Buffers),
         NEW some \in SUBSET (1 .. Len(chunks)), NEW more \in SUBSET (1 .. Len(chunks))
  PROVE  HeldIn(chunks, some \cup more) <= HeldIn(chunks, some) + HeldIn(chunks, more)
<1> DEFINE a == Bytes(chunks, some)
           b == Bytes(chunks, more)
<1>1. IsFiniteSet(a) /\ IsFiniteSet(b)
  BY HeldFinite
<1>2. Bytes(chunks, some \cup more) = a \cup b
  BY DEF Bytes
<1>3. /\ HeldIn(chunks, some) = Cardinality(a) /\ HeldIn(chunks, more) = Cardinality(b)
      /\ HeldIn(chunks, some \cup more) = Cardinality(a \cup b)
  <2>1. /\ HeldIn(chunks, some) = Cardinality(a) /\ HeldIn(chunks, more) = Cardinality(b)
        /\ HeldIn(chunks, some \cup more) = Cardinality(Bytes(chunks, some \cup more))
    BY DEF HeldIn, Bytes
  <2> QED
    BY <1>2, <2>1
<1> HIDE DEF a, b
<1>4. Cardinality(a \cup b) = Cardinality(a) + Cardinality(b) - Cardinality(a \cap b)
  BY <1>1, FS_Union
<1>5. Cardinality(a) \in Nat /\ Cardinality(b) \in Nat /\ Cardinality(a \cap b) \in Nat
  <2>1. (a \cap b) \in SUBSET a
    OBVIOUS
  <2>2. IsFiniteSet(a \cap b)
    BY <1>1, <2>1, FS_Subset
  <2> QED
    BY <1>1, <2>2, FS_CardinalityType
<1> QED
  BY <1>3, <1>4, <1>5

LEMMA HeldAtMost ==
  ASSUME NEW chunks \in Seq(Buffers), NEW a \in 0 .. Len(chunks), NEW b \in a .. Len(chunks),
         NEW l \in Nat, \A i \in a + 1 .. b : Len(chunks[i]) <= l
  PROVE  HeldIn(chunks, a + 1 .. b) <= (b - a) * l
<1>1. Len(chunks) \in Nat /\ a + 1 .. b \in SUBSET (1 .. Len(chunks)) /\ a \in Nat /\ b \in Nat
  OBVIOUS
<1>2. Bytes(chunks, a + 1 .. b) \in SUBSET ((a + 1 .. b) \X (1 .. l))
  <2>1. ASSUME NEW i \in a + 1 .. b
        PROVE  DOMAIN chunks[i] \subseteq 1 .. l
    <3>1. chunks[i] \in Seq(Nat) /\ Len(chunks[i]) <= l
      BY <1>1, ElementOfSeq DEF Buffers
    <3> QED
      BY <3>1
  <2> QED
    BY <2>1 DEF Bytes
<1>3. /\ IsFiniteSet(a + 1 .. b) /\ Cardinality(a + 1 .. b) = b - a
      /\ IsFiniteSet(1 .. l) /\ Cardinality(1 .. l) = l
  <2>1. /\ IsFiniteSet(a + 1 .. b) /\ Cardinality(a + 1 .. b) = IF a + 1 > b THEN 0 ELSE b - (a + 1) + 1
        /\ IsFiniteSet(1 .. l) /\ Cardinality(1 .. l) = IF 1 > l THEN 0 ELSE l - 1 + 1
    <3>1. a + 1 \in Int /\ b \in Int /\ 1 \in Int /\ l \in Int
      BY <1>1
    <3> QED
      BY <3>1, FS_Interval
  <2> QED
    BY <1>1, <2>1
<1>4. /\ IsFiniteSet((a + 1 .. b) \X (1 .. l))
      /\ Cardinality((a + 1 .. b) \X (1 .. l)) = (b - a) * l
  BY <1>3, FS_Product, ZenonT(40)
<1>5. Cardinality(Bytes(chunks, a + 1 .. b)) <= (b - a) * l
  BY <1>2, <1>4, FS_Subset
<1>6. HeldIn(chunks, a + 1 .. b) = Cardinality(Bytes(chunks, a + 1 .. b))
  BY DEF HeldIn, Bytes
<1> QED
  BY <1>5, <1>6

LEMMA HeldTail ==
  ASSUME NEW chunks \in Seq(Buffers), chunks # <<>>, NEW some \in SUBSET (1 .. Len(Tail(chunks)))
  PROVE  /\ {i + 1 : i \in some} \in SUBSET (1 .. Len(chunks))
         /\ HeldIn(Tail(chunks), some) <= HeldIn(chunks, {i + 1 : i \in some})
<1> DEFINE less == Tail(chunks)
           more == {i + 1 : i \in some}
           a == Bytes(less, some)
           b == Bytes(chunks, more)
           f == [p \in a |-> <<p[1] + 1, p[2]>>]
<1>1. /\ less \in Seq(Buffers) /\ Len(less) = Len(chunks) - 1 /\ Len(chunks) \in Nat
      /\ \A i \in 1 .. Len(less) : less[i] = chunks[i + 1]
  BY HeadTailProperties
<1>2. more \in SUBSET (1 .. Len(chunks))
  BY <1>1
<1>3. IsFiniteSet(b)
  BY <1>2, HeldFinite
<1>4. \A p \in a : p[1] \in some /\ p[2] \in DOMAIN less[p[1]] /\ p = <<p[1], p[2]>>
  BY DEF Bytes
<1>5. \A i \in some : \A k \in DOMAIN chunks[i + 1] : <<i + 1, k>> \in b
  BY DEF Bytes
<1>6. f \in [a -> b]
  <2>1. ASSUME NEW p \in a
        PROVE  <<p[1] + 1, p[2]>> \in b
    <3>1. p[1] \in some /\ p[2] \in DOMAIN chunks[p[1] + 1]
      BY <1>1, <1>4
    <3> QED
      BY <1>5, <3>1
  <2> QED
    BY <2>1
<1>7. ASSUME NEW p \in a, NEW q \in a, f[p] = f[q]
      PROVE  p = q
  <2>1. p[1] + 1 = q[1] + 1 /\ p[2] = q[2]
    BY <1>7
  <2>2. p[1] \in Nat /\ q[1] \in Nat
    BY <1>1, <1>4
  <2>3. p[1] = q[1]
    BY <2>1, <2>2
  <2> QED
    BY <1>4, <2>1, <2>3, Zenon
<1> HIDE DEF f
<1>8. f \in Injection(a, b)
  BY <1>6, <1>7 DEF Injection, IsInjective
<1>9. Cardinality(a) <= Cardinality(b)
  BY <1>3, <1>8, FS_Injection
<1>10. HeldIn(less, some) = Cardinality(a) /\ HeldIn(chunks, more) = Cardinality(b)
  BY DEF HeldIn, Bytes
<1> QED
  BY <1>2, <1>9, <1>10

-------------------------------------------------------------------------------
(* The parts of the state.                                                       *)

LEMMA MsgIs ==
  ASSUME TypeOK, NEW m \in Messages
  PROVE  /\ msg[m].opened \in BOOLEAN /\ msg[m].n \in Nat /\ msg[m].buffer \in Seq(Buffers)
         /\ Len(msg[m].buffer) \in Nat
         /\ msg[m].ended \in BOOLEAN /\ msg[m].finished \in BOOLEAN /\ msg[m].ignore \in BOOLEAN
         /\ msg[m] \in [opened : BOOLEAN, n : Nat, buffer : Seq(Buffers), ended : BOOLEAN,
                        finished : BOOLEAN, ignore : BOOLEAN]
<1>1. msg[m] \in [opened : BOOLEAN, n : Nat, buffer : Seq(Buffers), ended : BOOLEAN,
                  finished : BOOLEAN, ignore : BOOLEAN]
  BY DEF TypeOK
<1>2. msg[m].buffer \in Seq(Buffers)
  BY <1>1
<1> QED
  BY <1>1, <1>2

LEMMA OutIs ==
  ASSUME TypeOK
  PROVE  /\ out.current \in Nat /\ out.next \in Nat /\ out.size \in PacketSizes /\ out.limit \in Nat
         /\ out.number \in Nat /\ out.bl \in Buffers /\ Len(out.bl) \in Nat
         /\ out.paused \in BOOLEAN /\ out.ready \in Seq(Buffers) /\ Len(out.ready) \in Nat
         /\ out = [current |-> out.current, next |-> out.next, size |-> out.size, limit |-> out.limit,
                   number |-> out.number, bl |-> out.bl, paused |-> out.paused, ready |-> out.ready]
<1>1. /\ out.current \in Nat /\ out.next \in Nat /\ out.size \in PacketSizes /\ out.limit \in Nat
      /\ out.number \in Nat /\ out.bl \in Buffers
      /\ out.paused \in BOOLEAN /\ out.ready \in Seq(Buffers)
  BY DEF TypeOK
<1>2. out = [current |-> out.current, next |-> out.next, size |-> out.size, limit |-> out.limit,
             number |-> out.number, bl |-> out.bl, paused |-> out.paused, ready |-> out.ready]
  BY DEF TypeOK
<1>3. Len(out.bl) \in Nat /\ Len(out.ready) \in Nat
  BY <1>1 DEF Buffers
<1> QED
  BY <1>1, <1>2, <1>3

LEMMA LogIs ==
  ASSUME TypeOK
  PROVE  /\ Len(log) \in Nat /\ DOMAIN log = 1 .. Len(log)
         /\ \A i \in 1 .. Len(log) : /\ log[i] \in [m : Messages, limit : Nat, buffer : Buffers, from : Nat]
                                     /\ log[i].m \in Messages /\ log[i].m \in Nat \ {0} /\ log[i].limit \in Nat
                                     /\ log[i].buffer \in Buffers /\ Len(log[i].buffer) \in Nat
                                     /\ log[i].from \in Nat
<1>1. log \in Seq([m : Messages, limit : Nat, buffer : Buffers, from : Nat])
  BY DEF TypeOK
<1>2. Len(log) \in Nat /\ DOMAIN log = 1 .. Len(log)
  BY <1>1
<1>3. ASSUME NEW i \in 1 .. Len(log)
      PROVE  /\ log[i] \in [m : Messages, limit : Nat, buffer : Buffers, from : Nat]
             /\ log[i].m \in Messages /\ log[i].m \in Nat \ {0} /\ log[i].limit \in Nat
             /\ log[i].buffer \in Buffers /\ Len(log[i].buffer) \in Nat
             /\ log[i].from \in Nat
  <2>1. log[i] \in [m : Messages, limit : Nat, buffer : Buffers, from : Nat]
    BY <1>1, ElementOfSeq
  <2>2. log[i].m \in Messages /\ log[i].limit \in Nat /\ log[i].buffer \in Buffers /\ log[i].from \in Nat
    BY <2>1
  <2>3. Len(log[i].buffer) \in Nat
    BY <2>2 DEF Buffers
  <2> QED
    BY <2>1, <2>2, <2>3, PlanIs
<1> QED
  BY <1>2, <1>3

LEMMA GotIs ==
  ASSUME TypeOK
  PROVE  /\ Len(got) \in Nat /\ DOMAIN got = 1 .. Len(got)
         /\ \A i \in 1 .. Len(got) :
              /\ got[i] \in [type : Nat, buffer : Seq(Buffers), ended : BOOLEAN, read : Buffers, done : BOOLEAN]
              /\ got[i].type \in Nat /\ got[i].buffer \in Seq(Buffers) /\ Len(got[i].buffer) \in Nat
              /\ got[i].ended \in BOOLEAN /\ got[i].read \in Buffers /\ Len(got[i].read) \in Nat
              /\ got[i].done \in BOOLEAN
<1>1. got \in Seq([type : Nat, buffer : Seq(Buffers), ended : BOOLEAN, read : Buffers, done : BOOLEAN])
  BY DEF TypeOK
<1>2. Len(got) \in Nat /\ DOMAIN got = 1 .. Len(got)
  BY <1>1
<1>3. ASSUME NEW i \in 1 .. Len(got)
      PROVE  /\ got[i] \in [type : Nat, buffer : Seq(Buffers), ended : BOOLEAN, read : Buffers, done : BOOLEAN]
             /\ got[i].type \in Nat /\ got[i].buffer \in Seq(Buffers) /\ Len(got[i].buffer) \in Nat
             /\ got[i].ended \in BOOLEAN /\ got[i].read \in Buffers /\ Len(got[i].read) \in Nat
             /\ got[i].done \in BOOLEAN
  <2>1. got[i] \in [type : Nat, buffer : Seq(Buffers), ended : BOOLEAN, read : Buffers, done : BOOLEAN]
    BY <1>1, ElementOfSeq
  <2>2. /\ got[i].type \in Nat /\ got[i].buffer \in Seq(Buffers)
        /\ got[i].ended \in BOOLEAN /\ got[i].read \in Buffers /\ got[i].done \in BOOLEAN
    BY <2>1
  <2>3. Len(got[i].buffer) \in Nat /\ Len(got[i].read) \in Nat
    BY <2>2 DEF Buffers
  <2> QED
    BY <2>1, <2>2, <2>3
<1> QED
  BY <1>2, <1>3

LEMMA UnderIs ==
  ASSUME TypeOK, ReadyInv, NEW c \in 0 .. Passed
  PROVE  /\ Passed \in Nat /\ Passed <= Len(log)
         /\ Under(c) \in Seq(Buffers) /\ Len(Under(c)) = Passed - c
         /\ \A k \in 1 .. Passed - c : Under(c)[k] = log[c + k].buffer
         /\ c < Passed => /\ Under(c) # <<>> /\ Head(Under(c)) = log[c + 1].buffer
                          /\ Tail(Under(c)) = Under(c + 1)
<1>1. Passed \in Nat /\ Passed <= Len(log) /\ Len(log) \in Nat
  BY LogIs, OutIs DEF Passed, ReadyInv
<1>2. ASSUME NEW a \in 0 .. Passed
      PROVE  /\ Under(a) \in Seq(Buffers) /\ Len(Under(a)) = Passed - a
             /\ \A k \in 1 .. Passed - a : Under(a)[k] = log[a + k].buffer
  <2>1. Passed - a \in Nat
    BY <1>1
  <2>2. \A k \in 1 .. Passed - a : log[a + k].buffer \in Buffers
    BY <1>1, LogIs
  <2>3. Under(a) \in [1 .. Passed - a -> Buffers]
    BY <2>2 DEF Under
  <2>4. Under(a) \in Seq(Buffers) /\ Len(Under(a)) = Passed - a
    BY <2>1, <2>3
  <2> QED
    BY <2>4 DEF Under
<1>3. ASSUME c < Passed
      PROVE  Under(c) # <<>> /\ Head(Under(c)) = log[c + 1].buffer /\ Tail(Under(c)) = Under(c + 1)
  <2> DEFINE u == Under(c)
             v == Under(c + 1)
  <2>1. c + 1 \in 0 .. Passed /\ Passed - c \in Nat \ {0} /\ 1 \in 1 .. Passed - c
    BY <1>1, <1>3
  <2>2. /\ u \in Seq(Buffers) /\ Len(u) = Passed - c
        /\ \A k \in 1 .. Passed - c : u[k] = log[c + k].buffer
    BY <1>2
  <2>3. /\ v \in Seq(Buffers) /\ Len(v) = Passed - (c + 1)
        /\ \A k \in 1 .. Passed - (c + 1) : v[k] = log[(c + 1) + k].buffer
    BY <1>2, <2>1
  <2> HIDE DEF u, v
  <2>4. u # <<>> /\ Head(u) = log[c + 1].buffer
    <3>1. u # <<>>
      BY <2>1, <2>2
    <3>2. Head(u) = u[1]
      BY <2>2, <3>1
    <3> QED
      BY <2>1, <2>2, <3>1, <3>2
  <2>5. /\ Tail(u) \in Seq(Buffers) /\ Len(Tail(u)) = Passed - (c + 1)
        /\ \A k \in 1 .. Passed - (c + 1) : Tail(u)[k] = u[k + 1]
    <3>1. /\ Tail(u) \in Seq(Buffers) /\ Len(Tail(u)) = Len(u) - 1
          /\ \A k \in 1 .. Len(Tail(u)) : Tail(u)[k] = u[k + 1]
      BY <2>2, <2>4, HeadTailProperties
    <3>2. Len(u) - 1 = Passed - (c + 1)
      BY <1>1, <2>2
    <3> QED
      BY <3>1, <3>2
  <2>6. ASSUME NEW k \in 1 .. Passed - (c + 1)
        PROVE  Tail(u)[k] = v[k]
    <3>1. k + 1 \in 1 .. Passed - c /\ c + (k + 1) = (c + 1) + k
      BY <1>1
    <3> QED
      BY <2>2, <2>3, <2>5, <3>1
  <2>7. Tail(u) = v
    BY <2>3, <2>5, <2>6, SeqEqual
  <2> QED
    BY <2>4, <2>7 DEF u, v
<1> QED
  BY <1>1, <1>2, <1>3

\* What the reader finds at the front of its bytes is the packet it is due.
LEMMA PacketAhead ==
  ASSUME TypeOK, LogInv, ReadyInv, NEW c \in 0 .. Passed,
         Laid(inc.bl \o wire, Under(c)), Len(inc.bl) >= HeaderLength
  PROVE  /\ c < Passed /\ c + 1 \in 1 .. Len(log)
         /\ PacketLength(inc.bl) = Len(log[c + 1].buffer) /\ Len(log[c + 1].buffer) >= HeaderLength
         /\ HasPacket => /\ PacketLength(inc.bl) \in 0 .. Len(inc.bl)
                         /\ SubSeq(inc.bl, 1, PacketLength(inc.bl)) = log[c + 1].buffer
                         /\ Laid(SubSeq(inc.bl, PacketLength(inc.bl) + 1, Len(inc.bl)) \o wire, Under(c + 1))
<1> DEFINE s == inc.bl
           w == s \o wire
           b == log[c + 1].buffer
<1>1. s \in Buffers /\ wire \in Buffers
  BY DEF TypeOK
<1> HIDE DEF s
<1>2. /\ w \in Buffers /\ Len(w) = Len(s) + Len(wire) /\ Len(s) \in Nat /\ Len(wire) \in Nat
      /\ \A k \in 1 .. Len(s) : w[k] = s[k]
  BY <1>1, Joined
<1>3. Laid(w, Under(c)) /\ Len(s) >= 4
  BY DEF s, HeaderLength
<1>4. c < Passed
  <2>1. CASE ~(c < Passed)
    <3>1. Len(Under(c)) = 0 /\ Under(c) \in Seq(Buffers)
      <4>1. Under(c) \in Seq(Buffers) /\ Len(Under(c)) = Passed - c /\ Passed \in Nat
        BY UnderIs
      <4> QED
        BY <2>1, <4>1
    <3>2. Under(c) = <<>>
      BY <3>1, EmptySeq
    <3>3. w = <<>>
      BY <1>2, <1>3, <3>2, LaidEmpty
    <3>4. Len(w) = 0
      BY <3>3
    <3> QED
      BY <1>2, <1>3, <3>4
  <2> QED
    BY <2>1
<1>5. /\ Under(c) \in Seq(Buffers) /\ Under(c) # <<>> /\ Head(Under(c)) = b /\ Tail(Under(c)) = Under(c + 1)
      /\ c + 1 \in 1 .. Len(log)
  <2>1. Passed \in Nat /\ Passed <= Len(log) /\ Len(log) \in Nat
    BY UnderIs, LogIs
  <2>2. c + 1 \in 1 .. Len(log)
    BY <1>4, <2>1
  <2> QED
    BY <1>4, <2>2, UnderIs
<1>6. Framed(log[c + 1])
  BY <1>5, LogIs DEF LogInv
<1>7. Len(b) >= 4 /\ b[3] = Len(b) /\ b \in Buffers /\ Len(b) \in Nat
  <2>1. Len(b) >= HeaderLength /\ PacketLength(b) = Len(b)
    BY <1>6 DEF Framed
  <2>2. b \in Buffers /\ Len(b) \in Nat
    BY <1>5, LogIs
  <2> QED
    BY <2>1, <2>2 DEF PacketLength, HeaderLength
<1> HIDE DEF w, b
<1>8. Len(b) \in 0 .. Len(w) /\ b = SubSeq(w, 1, Len(b)) /\ Laid(SubSeq(w, Len(b) + 1, Len(w)), Under(c + 1))
  <2>1. /\ Len(Head(Under(c))) \in 0 .. Len(w)
        /\ Head(Under(c)) = SubSeq(w, 1, Len(Head(Under(c))))
        /\ Laid(SubSeq(w, Len(Head(Under(c))) + 1, Len(w)), Tail(Under(c)))
    BY <1>2, <1>3, <1>5, LaidTail
  <2> QED
    BY <1>5, <2>1
<1>9. s[3] = Len(b)
  <2>1. 0 \in 0 .. Len(w) /\ Len(b) \in 0 .. Len(w) /\ 0 + 1 = 1 /\ 0 + 3 = 3 /\ 3 \in 1 .. Len(b) - 0
    BY <1>2, <1>7, <1>8
  <2>2. SubSeq(w, 0 + 1, Len(b))[3] = w[0 + 3]
    BY <1>2, <2>1, Part
  <2>3. b[3] = w[3]
    BY <1>8, <2>1, <2>2
  <2>4. 3 \in 1 .. Len(s)
    BY <1>2, <1>3
  <2> QED
    BY <1>2, <1>7, <2>3, <2>4
<1>10. ASSUME Len(s) >= Len(b)
       PROVE  SubSeq(s, 1, Len(b)) = b /\ Laid(SubSeq(s, Len(b) + 1, Len(s)) \o wire, Under(c + 1))
  <2>1. 0 \in 0 .. Len(s) /\ Len(b) \in 0 .. Len(s) /\ 0 + 1 = 1
    BY <1>2, <1>7, <1>10
  <2>2. SubSeq(s \o wire, 0 + 1, Len(b)) = SubSeq(s, 0 + 1, Len(b))
    BY <1>1, <2>1, PartOfJoined
  <2>3. SubSeq(s, 1, Len(b)) = b
    BY <1>8, <2>1, <2>2 DEF w
  <2>4. SubSeq(w, Len(b) + 1, Len(w)) = SubSeq(s, Len(b) + 1, Len(s)) \o wire
    <3> DEFINE r == SubSeq(s, Len(b) + 1, Len(s))
               u == SubSeq(w, Len(b) + 1, Len(w))
               l == Len(b)
    <3>1. /\ r \in Buffers /\ Len(r) = Len(s) - Len(b) /\ \A k \in 1 .. Len(s) - Len(b) : r[k] = s[Len(b) + k]
      <4>1. Len(s) \in Len(b) .. Len(s)
        BY <1>2, <1>7, <1>10
      <4> QED
        BY <1>1, <2>1, <4>1, Part
    <3>2. /\ u \in Buffers /\ Len(u) = Len(w) - Len(b) /\ \A k \in 1 .. Len(w) - Len(b) : u[k] = w[Len(b) + k]
      <4>1. Len(w) \in Len(b) .. Len(w)
        BY <1>2, <1>7, <1>10
      <4> QED
        BY <1>2, <1>8, <4>1, Part
    <3> HIDE DEF r, u
    <3>3. /\ r \o wire \in Buffers /\ Len(r \o wire) = Len(r) + Len(wire)
          /\ \A k \in 1 .. Len(r) : (r \o wire)[k] = r[k]
          /\ \A k \in 1 .. Len(wire) : (r \o wire)[Len(r) + k] = wire[k]
      BY <1>1, <3>1, Joined
    <3>4. /\ \A k \in 1 .. Len(wire) : w[Len(s) + k] = wire[k]
      BY <1>1, Joined DEF w
    <3>5. l \in Nat /\ l <= Len(s) /\ l = Len(b)
      BY <1>7, <1>10
    <3> HIDE DEF l
    <3>6. ASSUME NEW k \in 1 .. Len(w) - l
          PROVE  (r \o wire)[k] = u[k]
      <4>1. u[k] = w[l + k]
        BY <3>2, <3>5
      <4>2. CASE k <= Len(s) - l
        <5>1. k \in 1 .. Len(s) - l /\ l + k \in 1 .. Len(s)
          BY <1>2, <3>5, <4>2
        <5>2. w[l + k] = s[l + k] /\ r[k] = s[l + k]
          BY <1>2, <3>1, <3>5, <5>1
        <5>3. k \in 1 .. Len(r)
          BY <3>1, <3>5, <5>1
        <5> QED
          BY <3>3, <4>1, <5>2, <5>3
      <4>3. CASE k > Len(s) - l
        <5>1. PICK x \in 1 .. Len(wire) : k = (Len(s) - l) + x /\ l + k = Len(s) + x
          <6>1. k - (Len(s) - l) \in 1 .. Len(wire)
            BY <1>2, <3>5, <4>3
          <6>2. k = (Len(s) - l) + (k - (Len(s) - l)) /\ l + k = Len(s) + (k - (Len(s) - l))
            BY <1>2, <3>5
          <6> QED
            BY <6>1, <6>2
        <5>2. w[Len(s) + x] = wire[x] /\ (r \o wire)[Len(r) + x] = wire[x]
          BY <3>3, <3>4
        <5>3. Len(r) = Len(s) - l
          BY <3>1, <3>5
        <5> QED
          BY <4>1, <5>1, <5>2, <5>3
      <4>4. k <= Len(s) - l \/ k > Len(s) - l
        BY <1>2, <3>5
      <4> QED
        BY <4>2, <4>3, <4>4
    <3>7. Len(r \o wire) = Len(w) - l /\ Len(u) = Len(w) - l /\ Len(w) - l \in Nat
      BY <1>2, <3>1, <3>2, <3>3, <3>5
    <3>8. r \o wire = u
      BY <3>2, <3>3, <3>6, <3>7, SameBytes
    <3> QED
      BY <3>8 DEF r, u
  <2> QED
    BY <1>7, <1>8, <1>9, <2>1, <2>3, <2>4
<1>11. PacketLength(s) = Len(b)
  BY <1>9 DEF PacketLength
<1>12. HasPacket => Len(s) >= Len(b)
  BY <1>11 DEF HasPacket, s
<1>13. HasPacket => /\ PacketLength(s) \in 0 .. Len(s)
                    /\ SubSeq(s, 1, PacketLength(s)) = b
                    /\ Laid(SubSeq(s, PacketLength(s) + 1, Len(s)) \o wire, Under(c + 1))
  <2> SUFFICES ASSUME HasPacket
               PROVE  /\ PacketLength(s) \in 0 .. Len(s)
                      /\ SubSeq(s, 1, PacketLength(s)) = b
                      /\ Laid(SubSeq(s, PacketLength(s) + 1, Len(s)) \o wire, Under(c + 1))
    OBVIOUS
  <2>1. Len(s) >= Len(b)
    BY <1>12
  <2>2. Len(b) \in 0 .. Len(s)
    BY <1>2, <1>7, <2>1
  <2>3. SubSeq(s, 1, Len(b)) = b /\ Laid(SubSeq(s, Len(b) + 1, Len(s)) \o wire, Under(c + 1))
    BY <1>10, <2>1
  <2> QED
    BY <1>11, <2>2, <2>3
<1> QED
  BY <1>4, <1>5, <1>7, <1>11, <1>13 DEF s, b, HeaderLength

-------------------------------------------------------------------------------
(* The invariant holds initially.                                                *)

LEMMA Initially ==
  ASSUME Init
  PROVE  Inv
<1>0. /\ \A m \in Messages : msg[m] = [opened |-> FALSE, n |-> 0, buffer |-> <<>>, ended |-> FALSE,
                                       finished |-> FALSE, ignore |-> FALSE]
      /\ out = [current |-> 0, next |-> 1, size |-> FirstSize, limit |-> 0, number |-> 0,
                bl |-> <<>>, paused |-> FALSE, ready |-> <<>>]
      /\ wire = <<>> /\ inc = [bl |-> <<>>, current |-> 0, at |-> "idle"] /\ got = <<>> /\ log = <<>>
  BY DEF Init
<1>1. TypeOK
  <2>1. <<>> \in Buffers /\ <<>> \in Seq(Buffers)
    BY DEF Buffers
  <2>2. msg \in [Messages -> [opened : BOOLEAN, n : Nat, buffer : Seq(Buffers), ended : BOOLEAN,
                              finished : BOOLEAN, ignore : BOOLEAN]]
    BY <2>1 DEF Init
  <2>3. out \in [current : Nat, next : Nat, size : PacketSizes, limit : Nat, number : Nat,
                 bl : Buffers, paused : BOOLEAN, ready : Seq(Buffers)]
    BY <1>0, <2>1, PlanIs
  <2>4. inc \in [bl : Buffers, current : Nat, at : {"idle", "loop", "drain", "end"}]
    BY <1>0, <2>1
  <2> QED
    BY <1>0, <2>1, <2>2, <2>3, <2>4 DEF TypeOK
<1>2. OpenedInv
  <2>1. 0 \in 0 .. Len(Plan) /\ \A m \in Messages : msg[m].opened <=> m <= 0
    BY <1>0, PlanIs
  <2> QED
    BY <2>1 DEF OpenedInv
<1>3. MessageInv
  <2>1. ASSUME NEW m \in Messages
        PROVE  /\ ~msg[m].opened => msg[m].n = 0 /\ ~msg[m].ended
               /\ msg[m].finished => msg[m].ended
               /\ msg[m].ignore => msg[m].ended
               /\ msg[m].ended /\ ~msg[m].ignore => msg[m].n = Len(Plan[m].writes)
               /\ msg[m].n <= Len(Plan[m].writes)
               /\ Len(msg[m].buffer) <= msg[m].n
               /\ DOMAIN msg[m].buffer = {}
    BY <1>0, PlanIs
  <2> QED
    BY <2>1 DEF MessageInv, MessageOk
<1>4. Sent = 0
  BY <1>0 DEF Sent
<1>5. TurnInv
  <2>1. out.next \in 1 .. Len(Plan) + 1
    BY <1>0, PlanIs
  <2>2. \A m \in Messages : ~(m < 1) /\ Len(msg[m].buffer) = msg[m].n
    BY <1>0, PlanIs
  <2> QED
    BY <1>0, <1>4, <2>1, <2>2 DEF TurnInv
<1>6. WriterInv
  BY <1>0 DEF WriterInv
<1>7. LogInv
  BY <1>0 DEF LogInv
<1>8. ReadyInv /\ Passed = 0
  BY <1>0 DEF ReadyInv, Passed
<1>9. StreamInv
  <2>1. 0 \in 0 .. Passed
    BY <1>8
  <2>2. Under(0) = <<>>
    BY <1>8 DEF Under
  <2>3. inc.bl \o wire = <<>>
    BY <1>0
  <2>4. ReaderInv(0)
    <3>1. got = <<>> /\ inc.current = 0 /\ inc.at \in {"idle", "loop"} /\ DOMAIN got = {} /\ ~(0 > 0)
      BY <1>0
    <3> QED
      BY <3>1 DEF ReaderInv
  <2>5. Laid(inc.bl \o wire, Under(0))
    BY <2>2, <2>3, LaidEmpty
  <2> QED
    BY <2>1, <2>4, <2>5 DEF StreamInv
<1>10. WriterBound /\ ReaderBound
  <2>1. out.current = 0 /\ inc.current = 0 /\ DOMAIN got = {}
    BY <1>0
  <2> QED
    BY <2>1 DEF WriterBound, ReaderBound
<1> QED
  BY <1>1, <1>2, <1>3, <1>5, <1>6, <1>7, <1>8, <1>9, <1>10 DEF Inv

-------------------------------------------------------------------------------
(* What OnData makes of a chunk.                                                 *)

Chunk == Head(msg[out.current].buffer)
Joint == out.bl \o Chunk
Count == FullPackets(Joint, out.limit)
Piece(i) == SubSeq(Joint, (i - 1) * out.limit + 1, i * out.limit)
Rest == SubSeq(Joint, Count * out.limit + 1, Len(Joint))
Made == [i \in 1 .. Count |-> Packet(out.current, out.number + i, FALSE, Piece(i))]

\* The message in _write is one of the plan and opened.
LEMMA CurrentIs ==
  ASSUME Inv, out.current # 0
  PROVE  /\ out.current \in Messages /\ out.current = Sent + 1 /\ out.next = out.current + 1
         /\ msg[out.current].opened /\ Sent \in Nat
         /\ out.limit \in Nat \ {0} /\ out.limit + HeaderLength \in PacketSizes
         /\ Len(out.bl) \in 0 .. out.limit /\ out.bl \in Buffers /\ Packed \in Nat
<1>1. TypeOK /\ TurnInv /\ WriterInv
  BY DEF Inv
<1>2. Sent \in Nat
  <2>1. CASE log = <<>>
    BY <2>1 DEF Sent
  <2>2. CASE log # <<>>
    <3>1. Len(log) \in 1 .. Len(log)
      BY <1>1, <2>2, LogIs, EmptySeq DEF TypeOK
    <3>2. log[Len(log)].m \in Nat \ {0}
      BY <1>1, <3>1, LogIs
    <3> QED
      BY <2>2, <3>2 DEF Sent
  <2> QED
    BY <2>1, <2>2
<1>3. out.current = Sent + 1 /\ out.next = out.current + 1 /\ out.next \in 1 .. Len(Plan) + 1
  BY <1>1, <1>2 DEF TurnInv
<1>4. out.current \in Messages
  BY <1>2, <1>3, PlanIs
<1>5. msg[out.current].opened
  BY <1>1, <1>2, <1>3, <1>4, PlanIs DEF TurnInv
<1>6. out.limit + HeaderLength \in PacketSizes /\ Len(out.bl) <= out.limit
  BY <1>1 DEF WriterInv
<1>7. out.limit \in Nat /\ Len(out.bl) \in Nat /\ out.bl \in Buffers /\ out.number \in Nat
  BY <1>1, OutIs
<1>8. out.limit \in Nat \ {0}
  <2>1. (out.limit + HeaderLength) - HeaderLength \in Nat \ {0}
    BY <1>6, PlanIs
  <2> QED
    BY <1>7, <2>1 DEF HeaderLength
<1>9. Packed \in Nat
  BY <1>7, Products DEF Packed
<1> QED
  BY <1>2, <1>3, <1>4, <1>5, <1>6, <1>7, <1>8, <1>9

\* A message opened in order holds the last of its writes.
LEMMA ChunkIs ==
  ASSUME Inv, NEW m \in Messages, msg[m].buffer # <<>>
  PROVE  /\ Nth(m, 0) \in 0 .. Len(Plan[m].writes) /\ Nth(m, 1) = Nth(m, 0) + 1
         /\ Nth(m, 1) \in 1 .. msg[m].n /\ msg[m].n <= Len(Plan[m].writes)
         /\ Size(m, Nth(m, 0)) \in Nat /\ Size(m, Nth(m, 1)) \in Nat /\ Size(m, msg[m].n) \in Nat
         /\ Size(m, Nth(m, 0)) <= Size(m, Nth(m, 1)) /\ Size(m, Nth(m, 1)) <= Size(m, msg[m].n)
         /\ Head(msg[m].buffer) = Text(m, Size(m, Nth(m, 0)), Size(m, Nth(m, 1)))
         /\ Head(msg[m].buffer) \in Buffers
<1>1. TypeOK /\ MessageInv
  BY DEF Inv
<1>2. msg[m].n \in Nat /\ msg[m].buffer \in Seq(Buffers)
  BY <1>1, MsgIs
<1>3. Len(msg[m].buffer) \in Nat \ {0} /\ Head(msg[m].buffer) = msg[m].buffer[1] /\ 1 \in DOMAIN msg[m].buffer
  <2>1. Len(msg[m].buffer) \in Nat \ {0}
    BY <1>2, EmptySeq
  <2> QED
    BY <1>2, <2>1
<1>4. /\ msg[m].n <= Len(Plan[m].writes) /\ Len(msg[m].buffer) <= msg[m].n
      /\ msg[m].buffer[1] = Text(m, Size(m, Nth(m, 1) - 1), Size(m, Nth(m, 1)))
  BY <1>1, <1>3 DEF MessageInv, MessageOk
<1>5. Len(Plan[m].writes) \in Nat
  BY PlanIs
<1>6. /\ Nth(m, 0) \in 0 .. Len(Plan[m].writes) /\ Nth(m, 1) = Nth(m, 0) + 1 /\ Nth(m, 1) - 1 = Nth(m, 0)
      /\ Nth(m, 1) \in 1 .. msg[m].n /\ Nth(m, 1) \in 0 .. msg[m].n
      /\ Nth(m, 1) \in 0 .. Len(Plan[m].writes) /\ msg[m].n \in 0 .. Len(Plan[m].writes)
      /\ Nth(m, 0) \in 0 .. Nth(m, 1)
  <2>1. PICK n \in Nat, l \in Nat, w \in Nat : n = msg[m].n /\ l = Len(msg[m].buffer) /\ w = Len(Plan[m].writes)
    BY <1>2, <1>3, <1>5
  <2>2. l > 0 /\ n <= w /\ l <= n
    BY <1>3, <1>4, <2>1
  <2>3. Nth(m, 0) = n - l + 0 /\ Nth(m, 1) = n - l + 1
    BY <2>1 DEF Nth
  <2>4. /\ Nth(m, 0) \in 0 .. w /\ Nth(m, 1) = Nth(m, 0) + 1 /\ Nth(m, 1) - 1 = Nth(m, 0)
        /\ Nth(m, 1) \in 1 .. n /\ Nth(m, 1) \in 0 .. n
        /\ Nth(m, 1) \in 0 .. w /\ n \in 0 .. w
        /\ Nth(m, 0) \in 0 .. Nth(m, 1)
    BY <2>2, <2>3
  <2> QED
    BY <2>1, <2>4
<1>7. /\ Size(m, Nth(m, 0)) \in Nat /\ Size(m, Nth(m, 1)) \in Nat
      /\ Size(m, Nth(m, 0)) <= Size(m, Nth(m, 1))
  BY <1>6, SizeIs
<1>8. Size(m, msg[m].n) \in Nat /\ Size(m, Nth(m, 1)) <= Size(m, msg[m].n)
  BY <1>6, SizeIs
<1>9. Head(msg[m].buffer) \in Buffers
  BY <1>2, HeadTailProperties
<1> QED
  BY <1>3, <1>4, <1>6, <1>7, <1>8, <1>9

LEMMA JointIs ==
  ASSUME Inv, out.current # 0, msg[out.current].buffer # <<>>
  PROVE  /\ Joint \in Buffers /\ Len(Joint) = Len(out.bl) + Len(Chunk) /\ Len(Joint) \in Nat /\ Len(Chunk) \in Nat
         /\ Count \in Nat /\ Count * out.limit \in 0 .. Len(Joint)
         /\ Len(Joint) - Count * out.limit <= out.limit
         /\ Rest \in Buffers /\ Len(Rest) = Len(Joint) - Count * out.limit
         /\ Count <= (out.limit + Len(Chunk) - 1) \div out.limit
         /\ (out.limit + Len(Chunk) - 1) \div out.limit \in Nat
<1> DEFINE l == out.limit
           n == Count
<1>1. out.current \in Messages /\ l \in Nat \ {0} /\ Len(out.bl) \in 0 .. l /\ out.bl \in Buffers
  BY CurrentIs
<1>2. Chunk \in Buffers
  BY <1>1, ChunkIs DEF Chunk
<1>3. /\ Joint \in Buffers /\ Len(Joint) = Len(out.bl) + Len(Chunk)
      /\ Len(Joint) \in Nat /\ Len(Chunk) \in Nat /\ Len(out.bl) \in Nat
  <2>1. Joint \in Buffers /\ Len(Joint) = Len(out.bl) + Len(Chunk) /\ Len(out.bl) \in Nat /\ Len(Chunk) \in Nat
    BY <1>1, <1>2, Joined DEF Joint
  <2> QED
    BY <2>1
<1>4. n = IF Joint = <<>> THEN 0 ELSE (Len(Joint) - 1) \div l
  BY DEF Count, FullPackets
<1> HIDE DEF n, l
<1>5. Joint # <<>> => Len(Joint) - 1 \in Nat
  BY <1>3, EmptySeq DEF Buffers
<1>6. n \in Nat /\ n * l \in Nat /\ n * l <= Len(Joint) /\ Len(Joint) - n * l <= l
  <2>1. CASE Joint = <<>>
    <3>1. n = 0 /\ n * l = 0 /\ Len(Joint) = 0
      BY <1>1, <1>4, <2>1
    <3> QED
      BY <1>1, <3>1
  <2>2. CASE Joint # <<>>
    <3> DEFINE a == Len(Joint) - 1
    <3>1. a \in Nat /\ n = a \div l /\ Len(Joint) = a + 1
      BY <1>3, <1>4, <1>5, <2>2
    <3> HIDE DEF a
    <3>2. a \div l \in Nat /\ (a \div l) * l \in Nat /\ (a \div l) * l <= a /\ a < (a \div l) * l + l
      BY <1>1, <3>1, Division
    <3>3. n \in Nat /\ n * l \in Nat /\ n * l <= a /\ a < n * l + l
      BY <3>1, <3>2
    <3> QED
      BY <1>1, <3>1, <3>3
  <2> QED
    BY <2>1, <2>2
<1>7. n <= (l + Len(Chunk) - 1) \div l /\ (l + Len(Chunk) - 1) \div l \in Nat
  <2> DEFINE b == l + Len(Chunk) - 1
  <2>1. b \in Nat
    BY <1>1, <1>3
  <2>2. CASE Joint = <<>>
    <3>1. n = 0
      BY <1>4, <2>2
    <3> HIDE DEF b
    <3>2. b \div l \in Nat
      BY <1>1, <2>1, Division
    <3> QED
      BY <3>1, <3>2 DEF b
  <2>3. CASE Joint # <<>>
    <3> DEFINE a == Len(Joint) - 1
    <3>1. a \in Nat /\ n = a \div l /\ a <= b
      BY <1>1, <1>3, <1>4, <1>5, <2>3
    <3> HIDE DEF a, b
    <3>2. a \div l <= b \div l /\ b \div l \in Nat
      BY <1>1, <2>1, <3>1, Quotients, Division
    <3>3. n <= b \div l
      BY <3>1, <3>2
    <3> QED
      BY <3>2, <3>3 DEF b
  <2> QED
    BY <2>2, <2>3
<1>8. n * l \in 0 .. Len(Joint) /\ Len(Joint) \in n * l .. Len(Joint)
  BY <1>3, <1>6
<1>9. /\ SubSeq(Joint, n * l + 1, Len(Joint)) \in Buffers
      /\ Len(SubSeq(Joint, n * l + 1, Len(Joint))) = Len(Joint) - n * l
  BY <1>3, <1>8, Part
<1> QED
  BY <1>3, <1>6, <1>7, <1>8, <1>9 DEF n, l, Rest

\* The packets made are full.
LEMMA PieceIs ==
  ASSUME Inv, out.current # 0, msg[out.current].buffer # <<>>, NEW i \in 1 .. Count
  PROVE  /\ i \in Nat \ {0} /\ i - 1 \in Nat
         /\ (i - 1) * out.limit \in 0 .. i * out.limit /\ i * out.limit = (i - 1) * out.limit + out.limit
         /\ i * out.limit \in 0 .. Len(Joint)
         /\ Piece(i) \in Buffers /\ Len(Piece(i)) = out.limit
         /\ out.number + i \in Nat
<1>1. /\ Joint \in Buffers /\ Len(Joint) \in Nat /\ Count \in Nat /\ Count * out.limit \in 0 .. Len(Joint)
      /\ out.limit \in Nat \ {0} /\ out.number \in Nat
  BY JointIs, CurrentIs, OutIs DEF Inv
<1> DEFINE l == out.limit
           a == (i - 1) * l
           b == i * l
<1>2. i \in Nat \ {0} /\ i - 1 \in Nat /\ i <= Count /\ (i - 1) + 1 = i
  BY <1>1
<1>3. a \in Nat /\ b \in Nat /\ b = a + l /\ b <= Count * l
  <2>1. a \in Nat /\ ((i - 1) + 1) * l = (i - 1) * l + 1 * l
    <3> DEFINE j == i - 1
    <3>1. j \in Nat /\ 1 \in Nat /\ l \in Nat
      BY <1>1, <1>2
    <3> HIDE DEF j, l
    <3>2. j * l \in Nat /\ (j + 1) * l = j * l + 1 * l
      BY <3>1, Products
    <3> QED
      BY <3>2 DEF j
  <2>2. b <= Count * l /\ 1 * l = l
    BY <1>1, <1>2, Products
  <2> QED
    BY <1>1, <1>2, <2>1, <2>2, SMTT(30)
<1> HIDE DEF a, b
<1>4. a \in 0 .. b /\ b \in 0 .. Len(Joint) /\ a \in 0 .. Len(Joint) /\ b \in a .. Len(Joint) /\ b - a = l
  BY <1>1, <1>3
<1>5. SubSeq(Joint, a + 1, b) \in Buffers /\ Len(SubSeq(Joint, a + 1, b)) = b - a
  BY <1>1, <1>4, Part
<1>6. out.number + i \in Nat
  BY <1>1, <1>2
<1> QED
  BY <1>2, <1>3, <1>4, <1>5, <1>6 DEF a, b, Piece

LEMMA MadeIs ==
  ASSUME Inv, out.current # 0, msg[out.current].buffer # <<>>
  PROVE  /\ Made \in Seq(Buffers) /\ Len(Made) = Count /\ DOMAIN Made = 1 .. Count
         /\ \A i \in 1 .. Count : Made[i] = Packet(out.current, out.number + i, FALSE, Piece(i))
<1>1. Count \in Nat /\ out.current \in Messages
  BY JointIs, CurrentIs
<1>2. ASSUME NEW i \in 1 .. Count
      PROVE  Packet(out.current, out.number + i, FALSE, Piece(i)) \in Buffers
  <2>1. Piece(i) \in Buffers /\ out.number + i \in Nat
    BY PieceIs
  <2>2. msg[out.current].ignore \in BOOLEAN
    BY <1>1, MsgIs DEF Inv
  <2> QED
    BY <1>1, <2>1, <2>2, PacketIs
<1>3. Made \in [1 .. Count -> Buffers]
  BY <1>2 DEF Made
<1>4. Made \in Seq(Buffers) /\ Len(Made) = Count /\ DOMAIN Made = 1 .. Count
  BY <1>1, <1>3
<1> QED
  BY <1>4 DEF Made

-------------------------------------------------------------------------------
(* Every step keeps the types; that no header is broken is what the packets say. *)

LEMMA WritesIt ==
  ASSUME Inv, NEW m \in Messages, WriteChunk(m)
  PROVE  LET c == SubSeq(DataOf(m, msg[m].n + 1), Size(m, msg[m].n) + 1, Size(m, msg[m].n + 1)) IN
         /\ c = Text(m, Size(m, msg[m].n), Size(m, msg[m].n + 1)) /\ c \in Buffers
         /\ Size(m, msg[m].n) \in Nat /\ Size(m, msg[m].n + 1) \in Nat
         /\ Size(m, msg[m].n) <= Size(m, msg[m].n + 1)
         /\ msg[m].n \in 0 .. Len(Plan[m].writes) - 1 /\ Len(Plan[m].writes) \in Nat
         /\ msg' = [msg EXCEPT ![m] = [msg[m] EXCEPT !.n = msg[m].n + 1, !.buffer = Append(msg[m].buffer, c)]]
         /\ Append(msg[m].buffer, c) \in Seq(Buffers)
<1> DEFINE n == msg[m].n
           c == SubSeq(DataOf(m, n + 1), Size(m, n) + 1, Size(m, n + 1))
<1>1. n \in Nat /\ Len(Plan[m].writes) \in Nat /\ n < Len(Plan[m].writes) /\ m \in Nat
  BY MsgIs, PlanIs DEF WriteChunk, Inv
<1> HIDE DEF n
<1>2. n + 1 \in 0 .. Len(Plan[m].writes) /\ n \in 0 .. n + 1 /\ n \in 0 .. Len(Plan[m].writes) - 1
  BY <1>1
<1>3. Size(m, n) \in Nat /\ Size(m, n + 1) \in Nat /\ Size(m, n) <= Size(m, n + 1)
  BY <1>2, SizeIs
<1>4. DataOf(m, n + 1) = Text(m, 0, Size(m, n + 1))
  <2> DEFINE b == Size(m, n + 1)
  <2>1. b \in Nat
    BY <1>3
  <2> HIDE DEF b
  <2>2. b - 0 = b /\ \A i \in 1 .. b : 0 + i = i
    BY <2>1
  <2>3. [i \in 1 .. b |-> Byte(m, i)] = [i \in 1 .. b - 0 |-> Byte(m, 0 + i)]
    BY <2>2
  <2> QED
    BY <2>3 DEF DataOf, Text, b
<1>5. c = Text(m, Size(m, n), Size(m, n + 1))
  <2> DEFINE a == Size(m, n)
             b == Size(m, n + 1)
             z == 0
  <2>1. /\ a \in Nat /\ b \in Nat /\ z \in Nat /\ m \in Nat /\ z <= b
        /\ a \in 0 .. b - z /\ b \in a .. b - z /\ z + a = a /\ z + b = b
    BY <1>1, <1>3
  <2> HIDE DEF a, b, z
  <2>2. SubSeq(Text(m, z, b), a + 1, b) = Text(m, z + a, z + b)
    BY <2>1, TextSub
  <2>3. SubSeq(Text(m, z, b), a + 1, b) = Text(m, a, b)
    BY <2>1, <2>2
  <2> QED
    BY <1>4, <2>3 DEF a, b, z
<1>6. c \in Buffers
  BY <1>1, <1>3, <1>5, TextType, ZenonT(40)
<1>7. msg' = [msg EXCEPT ![m] = [msg[m] EXCEPT !.n = msg[m].n + 1, !.buffer = Append(msg[m].buffer, c)]]
  BY DEF WriteChunk, n
<1>8. Append(msg[m].buffer, c) \in Seq(Buffers)
  BY <1>6, MsgIs, AppendProperties DEF Inv
<1> QED
  BY <1>1, <1>2, <1>3, <1>5, <1>6, <1>7, <1>8 DEF n

\* The packets OnData or OnEnd push.
LEMMA PushIs ==
  ASSUME Inv, out.current # 0, NEW packets \in Seq(Buffers), Push(packets)
  PROVE  /\ log' \in Seq([m : Messages, limit : Nat, buffer : Buffers, from : Nat])
         /\ Len(log') = Len(log) + Len(packets) /\ Len(packets) \in Nat /\ Len(log) \in Nat
         /\ \A i \in 1 .. Len(log) : log'[i] = log[i]
         /\ \A i \in 1 .. Len(packets) :
              log'[Len(log) + i] = [m |-> out.current, limit |-> out.limit, buffer |-> packets[i],
                                    from |-> (out.number + i - 1) * out.limit]
<1> DEFINE R == [m : Messages, limit : Nat, buffer : Buffers, from : Nat]
           Of(i) == [m |-> out.current, limit |-> out.limit, buffer |-> packets[i],
                     from |-> (out.number + i - 1) * out.limit]
           new == [i \in DOMAIN packets |-> Of(i)]
           n == Len(packets)
<1>1. n \in Nat /\ DOMAIN packets = 1 .. n
  OBVIOUS
<1> HIDE DEF n
<1>2. out.current \in Messages /\ out.limit \in Nat /\ out.number \in Nat
  BY CurrentIs, OutIs DEF Inv
<1>3. ASSUME NEW i \in 1 .. n
      PROVE  Of(i) \in R
  <2>1. packets[i] \in Buffers
    BY ElementOfSeq DEF n
  <2>2. out.number + i - 1 \in Nat
    BY <1>1, <1>2
  <2>3. (out.number + i - 1) * out.limit \in Nat
    BY <1>2, <2>2, Products
  <2> QED
    BY <1>2, <2>1, <2>3
<1>4. new \in [1 .. n -> R] /\ \A i \in 1 .. n : new[i] = Of(i)
  BY <1>1, <1>3
<1> HIDE DEF new, R, Of
<1>5. new \in Seq(R) /\ Len(new) = n
  BY <1>1, <1>4
<1>6. log' = log \o new
  BY DEF Push, new, Of
<1>7. log \in Seq(R) /\ Len(log) \in Nat
  BY LogIs DEF Inv, TypeOK, R
<1>8. /\ log' \in Seq(R) /\ Len(log') = Len(log) + n
      /\ \A i \in 1 .. Len(log) + n : log'[i] = IF i <= Len(log) THEN log[i] ELSE new[i - Len(log)]
  BY <1>5, <1>6, <1>7, ConcatProperties
<1>9. \A i \in 1 .. Len(log) : log'[i] = log[i]
  BY <1>1, <1>7, <1>8
<1>10. ASSUME NEW i \in 1 .. n
       PROVE  log'[Len(log) + i] = Of(i)
  <2>1. Len(log) + i \in 1 .. Len(log) + n /\ ~(Len(log) + i <= Len(log)) /\ (Len(log) + i) - Len(log) = i
    BY <1>1, <1>7
  <2>2. log'[Len(log) + i] = new[i]
    BY <1>8, <2>1
  <2> QED
    BY <1>4, <2>2
<1> QED
  BY <1>1, <1>7, <1>8, <1>9, <1>10 DEF R, Of, n

\* OnData of a message that is not ignored.
LEMMA DataIs ==
  ASSUME Inv, OnData
  PROVE  /\ out.current # 0 /\ ~out.paused /\ msg[out.current].buffer # <<>> /\ out.current \in Messages
         /\ msg' = [msg EXCEPT ![out.current] = [msg[out.current] EXCEPT !.buffer = Tail(msg[out.current].buffer)]]
         /\ Tail(msg[out.current].buffer) \in Seq(Buffers)
         /\ msg[out.current].ignore => UNCHANGED <<out, log>>
         /\ ~msg[out.current].ignore =>
              /\ out' = [out EXCEPT !.bl = Rest, !.number = out.number + Count, !.ready = out.ready \o Made,
                                    !.paused = Count > 0 /\ Full(Made)]
              /\ Push(Made)
         /\ UNCHANGED <<wire, inc, got>>
<1>1. out.current # 0 /\ msg[out.current].buffer # <<>> /\ ~out.paused
  BY DEF OnData
<1>2. out.current \in Messages
  BY <1>1, CurrentIs
<1>3. Tail(msg[out.current].buffer) \in Seq(Buffers)
  BY <1>1, <1>2, MsgIs, HeadTailProperties DEF Inv
<1>4. msg' = [msg EXCEPT ![out.current] = [msg[out.current] EXCEPT !.buffer = Tail(msg[out.current].buffer)]]
  BY DEF OnData
<1>5. msg[out.current].ignore => UNCHANGED <<out, log>>
  BY DEF OnData
<1>6. ~msg[out.current].ignore =>
        /\ out' = [out EXCEPT !.bl = Rest, !.number = out.number + Count, !.ready = out.ready \o Made,
                              !.paused = Count > 0 /\ Full(Made)]
        /\ Push(Made)
  BY Zenon DEF OnData, Rest, Made, Count, Joint, Chunk, Piece
<1>7. UNCHANGED <<wire, inc, got>>
  BY DEF OnData
<1> QED
  BY <1>1, <1>2, <1>3, <1>4, <1>5, <1>6, <1>7

-------------------------------------------------------------------------------
(* What ProcessPacket does with the packet that is due.                          *)

Pushed == [type : Nat, buffer : Seq(Buffers), ended : BOOLEAN, read : Buffers, done : BOOLEAN]

OpenedFor(p) ==
  IF inc.current # 0 THEN got
  ELSE Append(got, [type |-> p.buffer[1], buffer |-> <<>>, ended |-> FALSE, read |-> <<>>, done |-> FALSE])
HeldAfter(p) ==
  IF PacketData(p.buffer) = <<>> THEN OpenedFor(p)[p.m].buffer
  ELSE Append(OpenedFor(p)[p.m].buffer, PacketData(p.buffer))
AtAfter(p) ==
  CASE IsLast(p.buffer) -> "end"
    [] ~IsLast(p.buffer) /\ Held(HeldAfter(p)) >= HighWater -> "drain"
    [] OTHER -> "loop"

LEMMA PacketOf ==
  ASSUME Inv, NEW i \in 1 .. Len(log)
  PROVE  /\ Framed(log[i]) /\ Carries(log[i]) /\ log[i].m \in Messages
         /\ PacketData(log[i].buffer) = Text(log[i].m, log[i].from, End(log[i]))
         /\ PacketData(log[i].buffer) \in Buffers
         /\ End(log[i]) \in Nat /\ log[i].from \in Nat /\ log[i].from <= End(log[i])
         /\ End(log[i]) - log[i].from = Len(log[i].buffer) - HeaderLength
         /\ End(log[i]) - log[i].from <= log[i].limit
         /\ Len(PacketData(log[i].buffer)) = End(log[i]) - log[i].from
         /\ log[i].buffer[1] = Plan[log[i].m].type
<1> DEFINE p == log[i]
<1>1. Framed(p) /\ Carries(p) /\ p.m \in Messages /\ p.m \in Nat /\ p.from \in Nat /\ Len(p.buffer) \in Nat
  BY LogIs DEF Inv, LogInv
<1> HIDE DEF p
<1>2. Len(p.buffer) >= 4 /\ Len(p.buffer) - 4 <= p.limit /\ p.buffer[1] = Plan[p.m].type
  BY <1>1 DEF Framed, HeaderLength
<1>3. End(p) = p.from + Len(p.buffer) - 4
  BY DEF End, HeaderLength
<1>4. /\ End(p) \in Nat /\ p.from <= End(p) /\ End(p) - p.from = Len(p.buffer) - 4
      /\ End(p) - p.from <= p.limit
  BY <1>1, <1>2, <1>3
<1>5. PacketData(p.buffer) = Text(p.m, p.from, End(p))
  BY <1>1 DEF Carries
<1>6. PacketData(p.buffer) \in Buffers /\ Len(PacketData(p.buffer)) = End(p) - p.from
  <2>1. p.m \in Nat /\ p.from \in Nat /\ End(p) \in Nat /\ p.from <= End(p)
    BY <1>1, <1>4
  <2>2. Text(p.m, p.from, End(p)) \in Buffers /\ Len(Text(p.m, p.from, End(p))) = End(p) - p.from
    BY <2>1, TextType
  <2> QED
    BY <1>5, <2>2
<1> QED
  BY <1>1, <1>2, <1>4, <1>5, <1>6 DEF p, HeaderLength

\* The reader is where the packet that is due begins, with a message of its own if it is the first.
LEMMA DueIs ==
  ASSUME Inv, inc.at = "loop", NEW c \in 0 .. Passed, c < Passed, ReaderInv(c)
  PROVE  LET p == log[c + 1] opened == OpenedFor(p) g == opened[p.m] IN
         /\ c + 1 \in 1 .. Len(log) /\ p.m \in Messages
         /\ opened \in Seq(Pushed) /\ Len(opened) = p.m /\ g \in Pushed
         /\ inc.current \in {0, p.m}
         /\ inc.current = 0 => g.buffer = <<>>
         /\ inc.current # 0 => Len(got) = p.m
         /\ ~g.done
         /\ g.read = Text(p.m, 0, Len(g.read)) /\ Len(g.read) \in Nat /\ Len(g.read) <= p.from
         /\ Laid(Text(p.m, Len(g.read), p.from), g.buffer)
         /\ \A k \in 1 .. p.m : opened[k].type = Plan[k].type
         /\ \A k \in 1 .. p.m - 1 : opened[k].done /\ opened[k].buffer = <<>>
         /\ inc.current = 0 => /\ p.m = Len(got) + 1 /\ \A k \in 1 .. Len(got) : got[k].done
<1> DEFINE p == log[c + 1]
           opened == OpenedFor(p)
           g == opened[p.m]
           fresh == [type |-> p.buffer[1], buffer |-> <<>>, ended |-> FALSE, read |-> <<>>, done |-> FALSE]
<1>1. TypeOK /\ LogInv /\ ReadyInv
  BY DEF Inv
<1>2. Passed \in Nat /\ Passed <= Len(log) /\ Len(log) \in Nat /\ c \in Nat
  BY <1>1, UnderIs, LogIs
<1>3. c + 1 \in 1 .. Len(log)
  BY <1>2
<1>4. p.m \in Messages /\ p.m \in Nat \ {0} /\ p.from \in Nat /\ p.buffer[1] = Plan[p.m].type
  BY <1>3, PacketOf, PlanIs
<1>5. Len(got) \in Nat /\ got \in Seq(Pushed) /\ DOMAIN got = 1 .. Len(got)
  BY <1>1, GotIs DEF TypeOK, Pushed
<1>6. /\ \A k \in 1 .. Len(got) : got[k].type = Plan[k].type
      /\ \A k \in 1 .. Len(got) : k < Len(got) => got[k].done /\ got[k].buffer = <<>>
  BY <1>5 DEF ReaderInv
<1>7. ASSUME inc.current = 0, p.m = Len(got) + 1, p.from = 0, \A k \in 1 .. Len(got) : got[k].done /\ got[k].buffer = <<>>
      PROVE  /\ opened \in Seq(Pushed) /\ Len(opened) = p.m /\ g \in Pushed
             /\ inc.current \in {0, p.m}
             /\ inc.current = 0 => g.buffer = <<>>
             /\ inc.current # 0 => Len(got) = p.m
             /\ ~g.done
             /\ g.read = Text(p.m, 0, Len(g.read)) /\ Len(g.read) \in Nat /\ Len(g.read) <= p.from
             /\ Laid(Text(p.m, Len(g.read), p.from), g.buffer)
             /\ \A k \in 1 .. p.m : opened[k].type = Plan[k].type
             /\ \A k \in 1 .. p.m - 1 : opened[k].done /\ opened[k].buffer = <<>>
             /\ inc.current = 0 => /\ p.m = Len(got) + 1 /\ \A k \in 1 .. Len(got) : got[k].done
  <2>1. opened = Append(got, fresh)
    BY <1>7 DEF OpenedFor
  <2>2. fresh \in Pushed
    <3>1. Plan[p.m].type \in Nat
      BY <1>4, PlanIs
    <3>2. <<>> \in Buffers /\ <<>> \in Seq(Buffers)
      BY DEF Buffers
    <3> QED
      BY <1>4, <3>1, <3>2 DEF Pushed
  <2>3. fresh.buffer = <<>> /\ fresh.read = <<>> /\ ~fresh.done /\ fresh.type = Plan[p.m].type
    BY <1>4
  <2> HIDE DEF opened, fresh
  <2>4. /\ opened \in Seq(Pushed) /\ Len(opened) = Len(got) + 1
        /\ \A k \in 1 .. Len(got) : opened[k] = got[k]
        /\ opened[Len(got) + 1] = fresh
    BY <1>5, <2>1, <2>2, AppendProperties
  <2>5. g = fresh /\ Len(opened) = p.m
    BY <1>7, <2>4
  <2>6. Text(p.m, 0, 0) = <<>> /\ Len(<<>>) = 0
    BY <1>4, TextEmpty
  <2>7. g.read = Text(p.m, 0, Len(g.read)) /\ Len(g.read) = 0
    BY <2>3, <2>5, <2>6
  <2>8. Laid(Text(p.m, Len(g.read), p.from), g.buffer)
    BY <1>7, <2>3, <2>5, <2>6, <2>7, LaidEmpty
  <2>9. /\ \A k \in 1 .. p.m : opened[k].type = Plan[k].type
        /\ \A k \in 1 .. p.m - 1 : opened[k].done /\ opened[k].buffer = <<>>
    <3>1. \A k \in 1 .. p.m : k \in 1 .. Len(got) \/ k = Len(got) + 1
      BY <1>5, <1>7
    <3>2. \A k \in 1 .. p.m - 1 : k \in 1 .. Len(got)
      BY <1>5, <1>7
    <3>3. opened[Len(got) + 1].type = Plan[Len(got) + 1].type
      BY <1>7, <2>3, <2>4
    <3>4. \A k \in 1 .. p.m : opened[k].type = Plan[k].type
      BY <1>6, <2>4, <3>1, <3>3
    <3>5. \A k \in 1 .. p.m - 1 : opened[k].done /\ opened[k].buffer = <<>>
      BY <1>7, <2>4, <3>2
    <3> QED
      BY <3>4, <3>5
  <2>10. opened \in Seq(Pushed) /\ Len(opened) = p.m /\ g \in Pushed /\ g.buffer = <<>> /\ ~g.done
    BY <2>2, <2>3, <2>4, <2>5
  <2>11. Len(g.read) \in Nat /\ Len(g.read) <= p.from
    BY <1>4, <2>7
  <2> QED
    BY <1>7, <2>7, <2>8, <2>9, <2>10, <2>11
<1>8. CASE c = 0
  <2>1. got = <<>> /\ inc.current = 0 /\ Len(got) = 0
    BY <1>8 DEF ReaderInv
  <2>2. p.m = 1 /\ p.from = 0
    <3>1. log # <<>> /\ p = log[1]
      BY <1>2, <1>3, <1>8
    <3> QED
      BY <1>1, <3>1 DEF LogInv, First
  <2>3. p.m = Len(got) + 1 /\ \A k \in 1 .. Len(got) : got[k].done /\ got[k].buffer = <<>>
    BY <2>1, <2>2
  <2> QED
    BY <1>3, <1>4, <1>7, <2>1, <2>2, <2>3
<1>9. CASE c > 0
  <2> DEFINE q == log[c]
             h == got[q.m]
  <2>1. c \in 1 .. Len(log) /\ (c + 1) - 1 = c /\ c + 1 > 1
    BY <1>2, <1>3, <1>9
  <2>2. Follows(q, p)
    <3>1. c + 1 \in DOMAIN log
      BY <1>1, <1>3, LogIs
    <3> QED
      BY <1>1, <2>1, <3>1 DEF LogInv
  <2>3. q.m \in Nat \ {0} /\ End(q) \in Nat
    BY <1>1, <2>1, LogIs, PacketOf
  <2>4. /\ Len(got) = q.m
        /\ IF IsLast(q.buffer)
           THEN \/ inc.current = 0 /\ inc.at \in {"idle", "loop"} /\ h.done
                \/ inc.current = q.m /\ inc.at = "end" /\ ~h.done
           ELSE inc.current = q.m /\ inc.at \in {"idle", "loop", "drain"} /\ ~h.done
        /\ h.read = Text(q.m, 0, Len(h.read))
        /\ Len(h.read) <= End(q)
        /\ Laid(Text(q.m, Len(h.read), End(q)), h.buffer)
        /\ inc.current = 0 => h.buffer = <<>>
    BY <1>9 DEF ReaderInv
  <2> HIDE DEF p, q, h
  <2>5. CASE IsLast(q.buffer)
    <3>1. inc.current = 0 /\ h.done /\ h.buffer = <<>>
      BY <2>4, <2>5
    <3>2. p.m = q.m + 1 /\ p.from = 0
      BY <2>2, <2>5 DEF Follows, First
    <3>3. \A k \in 1 .. Len(got) : got[k].done /\ got[k].buffer = <<>>
      <4>1. \A k \in 1 .. Len(got) : k < Len(got) \/ k = q.m
        BY <1>5, <2>3, <2>4
      <4> QED
        BY <1>6, <3>1, <4>1 DEF h
    <3>4. p.m = Len(got) + 1
      BY <2>4, <3>2
    <3> QED
      BY <1>3, <1>4, <1>7, <3>1, <3>2, <3>3, <3>4 DEF p
  <2>6. CASE ~IsLast(q.buffer)
    <3>1. inc.current = q.m /\ inc.current # 0 /\ ~h.done
      BY <2>3, <2>4, <2>6
    <3>2. p.m = q.m /\ p.from = End(q)
      BY <2>2, <2>6 DEF Follows
    <3>3. opened = got
      BY <3>1 DEF OpenedFor
    <3>4. g = h /\ Len(opened) = p.m /\ opened \in Seq(Pushed) /\ g \in Pushed
      <4>1. p.m \in 1 .. Len(got)
        BY <1>5, <2>3, <2>4, <3>2
      <4>2. got[p.m] \in Pushed
        BY <1>1, <4>1, GotIs DEF Pushed
      <4> QED
        BY <1>5, <2>4, <3>2, <3>3, <4>2 DEF h
    <3>5. Len(g.read) \in Nat
      BY <3>4 DEF Pushed, Buffers
    <3>6. /\ \A k \in 1 .. p.m : opened[k].type = Plan[k].type
          /\ \A k \in 1 .. p.m - 1 : opened[k].done /\ opened[k].buffer = <<>>
      <4>1. Len(got) = p.m
        BY <2>4, <3>2
      <4>2. \A k \in 1 .. p.m - 1 : k \in 1 .. Len(got) /\ k < Len(got)
        BY <1>4, <4>1
      <4> QED
        BY <1>6, <3>3, <4>1, <4>2
    <3>7. /\ g.read = Text(p.m, 0, Len(g.read)) /\ Len(g.read) <= p.from
          /\ Laid(Text(p.m, Len(g.read), p.from), g.buffer)
          /\ Len(got) = p.m /\ ~g.done
      BY <2>4, <3>1, <3>2, <3>4
    <3> HIDE DEF opened, g
    <3>8. inc.current \in {0, p.m} /\ inc.current # 0
      BY <3>1, <3>2
    <3>9. c + 1 \in 1 .. Len(log) /\ p.m \in Messages
      BY <1>3, <1>4, SMTT(30) DEF p
    <3> QED
      BY <3>4, <3>5, <3>6, <3>7, <3>8, <3>9 DEF p, opened, g
  <2> QED
    BY <2>5, <2>6
<1> QED
  BY <1>2, <1>8, <1>9

LEMMA ProcessIs ==
  ASSUME Inv, ProcessPacket, NEW c \in 0 .. Passed, Laid(inc.bl \o wire, Under(c)), ReaderInv(c)
  PROVE  LET p == log[c + 1] IN
         /\ inc.at = "loop" /\ c < Passed /\ c + 1 \in 1 .. Len(log) /\ p.m \in Messages
         /\ got' = [OpenedFor(p) EXCEPT ![p.m].buffer = HeldAfter(p), ![p.m].ended = IsLast(p.buffer)]
         /\ inc' = [bl |-> SubSeq(inc.bl, Len(p.buffer) + 1, Len(inc.bl)), current |-> p.m, at |-> AtAfter(p)]
         /\ SubSeq(inc.bl, Len(p.buffer) + 1, Len(inc.bl)) \in Buffers
         /\ Laid(SubSeq(inc.bl, Len(p.buffer) + 1, Len(inc.bl)) \o wire, Under(c + 1))
         /\ UNCHANGED <<msg, out, wire, log>>
<1> DEFINE p == log[c + 1]
<1>1. TypeOK /\ LogInv /\ ReadyInv /\ inc.bl \in Buffers
  BY DEF Inv, TypeOK
<1>2. inc.at = "loop" /\ HasPacket /\ Len(inc.bl) >= HeaderLength
  BY DEF ProcessPacket, HasPacket
<1>3. /\ c < Passed /\ c + 1 \in 1 .. Len(log)
      /\ PacketLength(inc.bl) = Len(p.buffer)
      /\ PacketLength(inc.bl) \in 0 .. Len(inc.bl)
      /\ SubSeq(inc.bl, 1, PacketLength(inc.bl)) = p.buffer
      /\ Laid(SubSeq(inc.bl, PacketLength(inc.bl) + 1, Len(inc.bl)) \o wire, Under(c + 1))
  BY <1>1, <1>2, PacketAhead
<1>4. /\ Len(OpenedFor(p)) = p.m /\ inc.current \in {0, p.m} /\ p.m \in Messages
      /\ inc.current = 0 => p.m = Len(got) + 1
  BY <1>2, <1>3, DueIs
<1> HIDE DEF p
<1>5. /\ SubSeq(inc.bl, 1, Len(p.buffer)) = p.buffer
      /\ Laid(SubSeq(inc.bl, Len(p.buffer) + 1, Len(inc.bl)) \o wire, Under(c + 1))
      /\ Len(p.buffer) \in 0 .. Len(inc.bl)
  BY <1>3
<1>6. SubSeq(inc.bl, Len(p.buffer) + 1, Len(inc.bl)) \in Buffers
  <2>1. Len(inc.bl) \in Len(p.buffer) .. Len(inc.bl)
    BY <1>1, <1>5 DEF Buffers
  <2> QED
    BY <1>1, <1>5, <2>1, Part
<1> DEFINE length == PacketLength(inc.bl)
           packet == SubSeq(inc.bl, 1, length)
           opened == IF inc.current # 0 THEN got
                     ELSE Append(got, [type |-> packet[1], buffer |-> <<>>, ended |-> FALSE, read |-> <<>>, done |-> FALSE])
           cur == IF inc.current # 0 THEN inc.current ELSE Len(opened)
           held == IF PacketData(packet) = <<>> THEN opened[cur].buffer
                   ELSE Append(opened[cur].buffer, PacketData(packet))
<1>7. /\ got' = [opened EXCEPT ![cur].buffer = held, ![cur].ended = IsLast(packet)]
      /\ inc' = [bl |-> SubSeq(inc.bl, length + 1, Len(inc.bl)), current |-> cur,
                 at |-> CASE IsLast(packet) -> "end"
                          [] ~IsLast(packet) /\ Held(held) >= HighWater -> "drain"
                          [] OTHER -> "loop"]
      /\ UNCHANGED <<msg, out, wire, log>>
  BY Zenon DEF ProcessPacket
<1>8. packet = p.buffer /\ length = Len(p.buffer)
  BY <1>3, <1>5
<1> HIDE DEF packet, length
<1>9. opened = OpenedFor(p)
  BY <1>8 DEF OpenedFor
<1> HIDE DEF opened
<1>10. cur = p.m
  BY <1>4, <1>9
<1> HIDE DEF cur
<1>11. held = HeldAfter(p)
  BY <1>8, <1>9, <1>10 DEF HeldAfter
<1> HIDE DEF held
<1>12. got' = [OpenedFor(p) EXCEPT ![p.m].buffer = HeldAfter(p), ![p.m].ended = IsLast(p.buffer)]
  BY <1>7, <1>8, <1>9, <1>10, <1>11, Zenon
<1>13. inc' = [bl |-> SubSeq(inc.bl, Len(p.buffer) + 1, Len(inc.bl)), current |-> p.m, at |-> AtAfter(p)]
  BY <1>7, <1>8, <1>10, <1>11, Zenon DEF AtAfter
<1> QED
  BY <1>2, <1>3, <1>4, <1>5, <1>6, <1>7, <1>12, <1>13 DEF p

\* How the reader's messages look after it.
LEMMA ProcessGives ==
  ASSUME Inv, ProcessPacket, NEW c \in 0 .. Passed, Laid(inc.bl \o wire, Under(c)), ReaderInv(c)
  PROVE  LET p == log[c + 1] opened == OpenedFor(p) IN
         /\ got' \in Seq(Pushed) /\ Len(got') = p.m
         /\ \A k \in 1 .. p.m - 1 : got'[k] = opened[k]
         /\ got'[p.m].type = opened[p.m].type /\ got'[p.m].read = opened[p.m].read /\ ~got'[p.m].done
         /\ got'[p.m].buffer = HeldAfter(p) /\ got'[p.m].ended = IsLast(p.buffer)
         /\ HeldAfter(p) \in Seq(Buffers)
         /\ Laid(Text(p.m, Len(opened[p.m].read), End(p)), HeldAfter(p))
<1> DEFINE p == log[c + 1]
           opened == OpenedFor(p)
           g == opened[p.m]
           data == PacketData(p.buffer)
<1>1. /\ inc.at = "loop" /\ c < Passed /\ c + 1 \in 1 .. Len(log) /\ p.m \in Messages
      /\ got' = [opened EXCEPT ![p.m].buffer = HeldAfter(p), ![p.m].ended = IsLast(p.buffer)]
  BY ProcessIs
<1>2. /\ opened \in Seq(Pushed) /\ Len(opened) = p.m /\ g \in Pushed /\ ~g.done
      /\ g.read = Text(p.m, 0, Len(g.read)) /\ Len(g.read) \in Nat /\ Len(g.read) <= p.from
      /\ Laid(Text(p.m, Len(g.read), p.from), g.buffer)
  BY <1>1, DueIs
<1>3. p.m \in Nat \ {0}
  BY <1>1, PlanIs
<1>4. /\ data = Text(p.m, p.from, End(p)) /\ data \in Buffers /\ p.from \in Nat /\ End(p) \in Nat
      /\ p.from <= End(p) /\ Len(data) = End(p) - p.from
  BY <1>1, PacketOf
<1> HIDE DEF p, g, opened, data
<1>5. g.buffer \in Seq(Buffers)
  BY <1>2 DEF Pushed
<1>6. HeldAfter(p) = IF data = <<>> THEN g.buffer ELSE Append(g.buffer, data)
  BY DEF HeldAfter, g, opened, data
<1>7. HeldAfter(p) \in Seq(Buffers)
  BY <1>4, <1>5, <1>6, AppendProperties
<1>8. Laid(Text(p.m, Len(g.read), End(p)), HeldAfter(p))
  <2>1. CASE data = <<>>
    <3>1. Len(data) = 0
      BY <2>1
    <3>2. End(p) = p.from
      BY <1>4, <3>1
    <3> QED
      BY <1>2, <1>6, <2>1, <3>2
  <2>2. CASE data # <<>>
    <3>1. Text(p.m, Len(g.read), p.from) \in Buffers
      BY <1>2, <1>3, <1>4, TextType
    <3>2. Laid(Text(p.m, Len(g.read), p.from) \o data, Append(g.buffer, data))
      BY <1>2, <1>4, <1>5, <3>1, LaidAppend
    <3>3. Text(p.m, Len(g.read), p.from) \o data = Text(p.m, Len(g.read), End(p))
      <4>1. p.m \in Nat /\ Len(g.read) \in Nat /\ p.from \in Nat /\ End(p) \in Nat
            /\ Len(g.read) <= p.from /\ p.from <= End(p)
        BY <1>2, <1>3, <1>4
      <4>2. Text(p.m, Len(g.read), p.from) \o Text(p.m, p.from, End(p)) = Text(p.m, Len(g.read), End(p))
        BY <4>1, TextConcat
      <4> QED
        BY <1>4, <4>2
    <3> QED
      BY <1>6, <2>2, <3>2, <3>3
  <2> QED
    BY <2>1, <2>2
<1> DEFINE r == [g EXCEPT !.buffer = HeldAfter(p), !.ended = IsLast(p.buffer)]
<1>9. IsLast(p.buffer) \in BOOLEAN
  BY DEF IsLast, HasBit
<1>10. /\ r \in Pushed /\ r.type = g.type /\ r.read = g.read /\ r.done = g.done
       /\ r.buffer = HeldAfter(p) /\ r.ended = IsLast(p.buffer)
  BY <1>2, <1>7, <1>9 DEF Pushed
<1>11. got' = [opened EXCEPT ![p.m] = r]
  <2>1. [opened EXCEPT ![p.m].buffer = HeldAfter(p), ![p.m].ended = IsLast(p.buffer)] = [opened EXCEPT ![p.m] = r]
    BY <1>2, <1>3 DEF g, Pushed
  <2> QED
    BY <1>1, <2>1
<1> HIDE DEF r
<1>12. p.m \in 1 .. Len(opened)
  BY <1>2, <1>3
<1>13. /\ got' \in Seq(Pushed) /\ Len(got') = p.m
       /\ \A k \in 1 .. p.m : got'[k] = IF k = p.m THEN r ELSE opened[k]
  BY <1>2, <1>10, <1>11, <1>12, ExceptSeq
<1>14. got'[p.m] = r /\ \A k \in 1 .. p.m - 1 : got'[k] = opened[k]
  BY <1>3, <1>13
<1> QED
  BY <1>2, <1>7, <1>8, <1>10, <1>13, <1>14 DEF p, g, opened

MsgType == [opened : BOOLEAN, n : Nat, buffer : Seq(Buffers), ended : BOOLEAN,
            finished : BOOLEAN, ignore : BOOLEAN]
OutType == [current : Nat, next : Nat, size : PacketSizes, limit : Nat, number : Nat,
            bl : Buffers, paused : BOOLEAN, ready : Seq(Buffers)]
IncType == [bl : Buffers, current : Nat, at : {"idle", "loop", "drain", "end"}]
LogType == [m : Messages, limit : Nat, buffer : Buffers, from : Nat]

LEMMA TypesAre ==
  TypeOK <=> /\ msg \in [Messages -> MsgType] /\ out \in OutType /\ wire \in Buffers
             /\ inc \in IncType /\ got \in Seq(Pushed) /\ log \in Seq(LogType)
BY DEF TypeOK, MsgType, OutType, IncType, Pushed, LogType

\* A step changes message m alone, and makes it r.
Only(m, r) ==
  /\ r \in MsgType /\ msg' \in [Messages -> MsgType]
  /\ msg'[m] = r /\ \A k \in Messages : k # m => msg'[k] = msg[k]

LEMMA OnlyIs ==
  ASSUME TypeOK, NEW m \in Messages, NEW r \in MsgType, msg' = [msg EXCEPT ![m] = r]
  PROVE  Only(m, r)
<1>1. msg \in [Messages -> MsgType]
  BY TypesAre
<1> QED
  BY <1>1 DEF Only

LEMMA WriterDoes ==
  ASSUME Inv, NEW m \in Messages
  PROVE  /\ OpenMessage(m) => Only(m, [msg[m] EXCEPT !.opened = TRUE])
         /\ WriteChunk(m) =>
              Only(m, [msg[m] EXCEPT !.n = msg[m].n + 1,
                         !.buffer = Append(msg[m].buffer, Text(m, Size(m, msg[m].n), Size(m, msg[m].n + 1)))])
         /\ EndMessage(m) => Only(m, [msg[m] EXCEPT !.ended = TRUE])
         /\ FinishMessage(m) => Only(m, [msg[m] EXCEPT !.finished = TRUE])
         /\ GiveUpMessage(m) => Only(m, [msg[m] EXCEPT !.ended = TRUE, !.ignore = TRUE])
<1>1. TypeOK /\ msg[m] \in MsgType
  BY MsgIs DEF Inv, MsgType
<1>2. ASSUME OpenMessage(m)
      PROVE  Only(m, [msg[m] EXCEPT !.opened = TRUE])
  <2>1. [msg[m] EXCEPT !.opened = TRUE] \in MsgType
    BY <1>1 DEF MsgType
  <2>2. msg' = [msg EXCEPT ![m] = [msg[m] EXCEPT !.opened = TRUE]]
    BY <1>2 DEF OpenMessage
  <2> QED
    BY <1>1, <2>1, <2>2, OnlyIs
<1>3. ASSUME EndMessage(m)
      PROVE  Only(m, [msg[m] EXCEPT !.ended = TRUE])
  <2>1. [msg[m] EXCEPT !.ended = TRUE] \in MsgType
    BY <1>1 DEF MsgType
  <2>2. msg' = [msg EXCEPT ![m] = [msg[m] EXCEPT !.ended = TRUE]]
    BY <1>3 DEF EndMessage
  <2> QED
    BY <1>1, <2>1, <2>2, OnlyIs
<1>4. ASSUME FinishMessage(m)
      PROVE  Only(m, [msg[m] EXCEPT !.finished = TRUE])
  <2>1. [msg[m] EXCEPT !.finished = TRUE] \in MsgType
    BY <1>1 DEF MsgType
  <2>2. msg' = [msg EXCEPT ![m] = [msg[m] EXCEPT !.finished = TRUE]]
    BY <1>4 DEF FinishMessage
  <2> QED
    BY <1>1, <2>1, <2>2, OnlyIs
<1>5. ASSUME GiveUpMessage(m)
      PROVE  Only(m, [msg[m] EXCEPT !.ended = TRUE, !.ignore = TRUE])
  <2>1. [msg[m] EXCEPT !.ended = TRUE, !.ignore = TRUE] \in MsgType
    BY <1>1 DEF MsgType
  <2>2. msg' = [msg EXCEPT ![m] = [msg[m] EXCEPT !.ended = TRUE, !.ignore = TRUE]]
    BY <1>5, Zenon DEF GiveUpMessage
  <2> QED
    BY <1>1, <2>1, <2>2, OnlyIs
<1>6. ASSUME WriteChunk(m)
      PROVE  Only(m, [msg[m] EXCEPT !.n = msg[m].n + 1,
                        !.buffer = Append(msg[m].buffer, Text(m, Size(m, msg[m].n), Size(m, msg[m].n + 1)))])
  <2> DEFINE b == Append(msg[m].buffer, Text(m, Size(m, msg[m].n), Size(m, msg[m].n + 1)))
  <2>1. msg' = [msg EXCEPT ![m] = [msg[m] EXCEPT !.n = msg[m].n + 1, !.buffer = b]] /\ b \in Seq(Buffers)
    BY <1>6, WritesIt, Zenon
  <2> HIDE DEF b
  <2>2. [msg[m] EXCEPT !.n = msg[m].n + 1, !.buffer = b] \in MsgType
    <3>1. msg[m].n \in Nat
      BY <1>1 DEF MsgType
    <3>2. msg[m].n + 1 \in Nat
      BY <3>1
    <3> QED
      BY <1>1, <2>1, <3>2 DEF MsgType
  <2>3. Only(m, [msg[m] EXCEPT !.n = msg[m].n + 1, !.buffer = b])
    BY <1>1, <2>1, <2>2, OnlyIs
  <2> QED
    BY <2>3 DEF b
<1> QED
  BY <1>2, <1>3, <1>4, <1>5, <1>6

WriterStep(m) == OpenMessage(m) \/ WriteChunk(m) \/ EndMessage(m) \/ FinishMessage(m) \/ GiveUpMessage(m)

LEMMA WriterKeeps ==
  ASSUME NEW m, WriterStep(m)
  PROVE  UNCHANGED <<out, wire, inc, got, log>>
BY DEF WriterStep, OpenMessage, WriteChunk, EndMessage, FinishMessage, GiveUpMessage

LEMMA DataDoes ==
  ASSUME Inv, OnData
  PROVE  /\ Only(out.current, [msg[out.current] EXCEPT !.buffer = Tail(msg[out.current].buffer)])
         /\ out' \in OutType /\ log' \in Seq(LogType)
<1> DEFINE r == [msg[out.current] EXCEPT !.buffer = Tail(msg[out.current].buffer)]
<1>1. /\ out.current # 0 /\ msg[out.current].buffer # <<>> /\ out.current \in Messages
      /\ msg' = [msg EXCEPT ![out.current] = r]
      /\ Tail(msg[out.current].buffer) \in Seq(Buffers)
      /\ msg[out.current].ignore => UNCHANGED <<out, log>>
      /\ ~msg[out.current].ignore =>
           /\ out' = [out EXCEPT !.bl = Rest, !.number = out.number + Count, !.ready = out.ready \o Made,
                                 !.paused = Count > 0 /\ Full(Made)]
           /\ Push(Made)
  BY DataIs
<1>2. TypeOK /\ msg[out.current] \in MsgType /\ out \in OutType /\ log \in Seq(LogType)
  BY <1>1, MsgIs, TypesAre DEF Inv, MsgType
<1>3. r \in MsgType
  BY <1>1, <1>2 DEF MsgType
<1>4. Only(out.current, r)
  BY <1>1, <1>2, <1>3, OnlyIs
<1>5. CASE msg[out.current].ignore
  BY <1>1, <1>2, <1>4, <1>5
<1>6. CASE ~msg[out.current].ignore
  <2>1. Rest \in Buffers /\ Count \in Nat /\ Made \in Seq(Buffers)
    BY <1>1, JointIs, MadeIs
  <2>2. out.ready \in Seq(Buffers) /\ out.number \in Nat
    BY <1>2, OutIs
  <2>3. out.ready \o Made \in Seq(Buffers) /\ out.number + Count \in Nat
    BY <2>1, <2>2, ConcatProperties
  <2>4. (Count > 0 /\ Full(Made)) \in BOOLEAN
    OBVIOUS
  <2>5. out' = [out EXCEPT !.bl = Rest, !.number = out.number + Count, !.ready = out.ready \o Made,
                           !.paused = Count > 0 /\ Full(Made)]
    BY <1>1, <1>6
  <2>6. out' \in OutType
    BY <1>2, <2>1, <2>3, <2>4, <2>5 DEF OutType
  <2>7. log' \in Seq(LogType)
    BY <1>1, <1>6, <2>1, PushIs DEF LogType
  <2> QED
    BY <1>4, <2>6, <2>7
<1> QED
  BY <1>5, <1>6

LEMMA EndDoes ==
  ASSUME Inv, OnEnd
  PROVE  /\ out.current # 0 /\ out.current \in Messages /\ ~out.paused
         /\ msg[out.current].buffer = <<>> /\ msg[out.current].finished
         /\ out' = [out EXCEPT !.bl = <<>>, !.current = 0,
                      !.ready = Append(out.ready, Packet(out.current, out.number + 1, TRUE, out.bl))]
         /\ Packet(out.current, out.number + 1, TRUE, out.bl) \in Buffers
         /\ <<Packet(out.current, out.number + 1, TRUE, out.bl)>> \in Seq(Buffers)
         /\ Push(<<Packet(out.current, out.number + 1, TRUE, out.bl)>>)
         /\ UNCHANGED <<msg, wire, inc, got>>
         /\ out' \in OutType /\ log' \in Seq(LogType)
<1> DEFINE b == Packet(out.current, out.number + 1, TRUE, out.bl)
<1>1. /\ out.current # 0 /\ ~out.paused /\ msg[out.current].buffer = <<>> /\ msg[out.current].finished
      /\ out' = [out EXCEPT !.bl = <<>>, !.current = 0, !.ready = Append(out.ready, b)]
      /\ Push(<<b>>)
      /\ UNCHANGED <<msg, wire, inc, got>>
  <2>1. /\ out.current # 0 /\ ~out.paused /\ msg[out.current].buffer = <<>> /\ msg[out.current].finished
        /\ out' = [out EXCEPT !.bl = <<>>, !.ready = Append(out.ready, b), !.current = 0]
        /\ Push(<<b>>)
        /\ UNCHANGED <<msg, wire, inc, got>>
    BY Zenon DEF OnEnd
  <2>2. [out EXCEPT !.bl = <<>>, !.ready = Append(out.ready, b), !.current = 0]
        = [out EXCEPT !.bl = <<>>, !.current = 0, !.ready = Append(out.ready, b)]
    BY Zenon
  <2> QED
    BY <2>1, <2>2
<1>2. TypeOK /\ out \in OutType /\ out.current \in Messages /\ out.ready \in Seq(Buffers)
      /\ out.bl \in Buffers /\ out.number \in Nat /\ msg[out.current].ignore \in BOOLEAN
  BY <1>1, CurrentIs, OutIs, MsgIs, TypesAre DEF Inv
<1>3. b \in Buffers
  <2>1. out.number + 1 \in Nat /\ TRUE \in BOOLEAN
    BY <1>2
  <2> QED
    BY <1>2, <2>1, PacketIs
<1> HIDE DEF b
<1>4. <<b>> \in Seq(Buffers) /\ Append(out.ready, b) \in Seq(Buffers) /\ <<>> \in Buffers
  BY <1>2, <1>3, AppendProperties DEF Buffers
<1>5. out' \in OutType
  BY <1>1, <1>2, <1>4 DEF OutType
<1>6. log' \in Seq(LogType)
  BY <1>1, <1>4, PushIs DEF LogType
<1> QED
  BY <1>1, <1>2, <1>3, <1>4, <1>5, <1>6 DEF b

\* What the reader has of the message it was given last, of which c was the last packet.
LEMMA ReaderIs ==
  ASSUME Inv, NEW c \in 0 .. Passed, ReaderInv(c), Len(got) # 0 \/ inc.at \in {"drain", "end"} \/ inc.current # 0
  PROVE  LET p == log[c] g == got[Len(got)] IN
         /\ c \in 1 .. Len(log) /\ c > 0 /\ p.m \in Messages /\ p.m = Len(got) /\ Len(got) \in 1 .. Len(got)
         /\ g \in Pushed /\ End(p) \in Nat /\ Len(g.read) \in Nat
         /\ IF IsLast(p.buffer)
            THEN \/ inc.current = 0 /\ inc.at \in {"idle", "loop"} /\ g.done
                 \/ inc.current = p.m /\ inc.at = "end" /\ ~g.done
            ELSE inc.current = p.m /\ inc.at \in {"idle", "loop", "drain"} /\ ~g.done
         /\ g.read = Text(p.m, 0, Len(g.read))
         /\ Len(g.read) <= End(p)
         /\ Laid(Text(p.m, Len(g.read), End(p)), g.buffer)
         /\ inc.current = 0 => g.buffer = <<>>
         /\ \A k \in 1 .. Len(got) : got[k].type = Plan[k].type
         /\ \A k \in 1 .. Len(got) : k < Len(got) => got[k].done /\ got[k].buffer = <<>>
<1> DEFINE p == log[c]
           g == got[Len(got)]
<1>0. TypeOK /\ ReadyInv
  BY DEF Inv
<1>1. Passed \in Nat /\ Passed <= Len(log) /\ Len(log) \in Nat /\ c \in Nat
  BY <1>0, UnderIs, LogIs
<1>2. c > 0 /\ c \in 1 .. Len(log)
  <2>1. CASE c = 0
    BY <2>1 DEF ReaderInv
  <2> QED
    BY <1>1, <2>1
<1>3. p.m \in Messages /\ p.m \in Nat \ {0} /\ End(p) \in Nat
  BY <1>2, PacketOf, PlanIs
<1>4. /\ Len(got) = p.m
      /\ IF IsLast(p.buffer)
         THEN \/ inc.current = 0 /\ inc.at \in {"idle", "loop"} /\ got[p.m].done
              \/ inc.current = p.m /\ inc.at = "end" /\ ~got[p.m].done
         ELSE inc.current = p.m /\ inc.at \in {"idle", "loop", "drain"} /\ ~got[p.m].done
      /\ got[p.m].read = Text(p.m, 0, Len(got[p.m].read))
      /\ Len(got[p.m].read) <= End(p)
      /\ Laid(Text(p.m, Len(got[p.m].read), End(p)), got[p.m].buffer)
      /\ inc.current = 0 => got[p.m].buffer = <<>>
  BY <1>2 DEF ReaderInv
<1>5. Len(got) \in 1 .. Len(got) /\ DOMAIN got = 1 .. Len(got)
  BY <1>0, <1>3, <1>4, GotIs
<1>6. g \in Pushed /\ Len(g.read) \in Nat
  BY <1>0, <1>5, GotIs DEF Pushed
<1>7. /\ \A k \in 1 .. Len(got) : got[k].type = Plan[k].type
      /\ \A k \in 1 .. Len(got) : k < Len(got) => got[k].done /\ got[k].buffer = <<>>
  BY <1>5 DEF ReaderInv
<1> QED
  BY <1>2, <1>3, <1>4, <1>5, <1>6, <1>7

LEMMA Types ==
  ASSUME Inv, Next
  PROVE  TypeOK'
<1>0. TypeOK /\ TurnInv /\ StreamInv /\ LogInv /\ ReadyInv
  BY DEF Inv
<1>1. msg \in [Messages -> MsgType] /\ out \in OutType /\ wire \in Buffers
      /\ inc \in IncType /\ got \in Seq(Pushed) /\ log \in Seq(LogType)
  BY <1>0, TypesAre
<1> SUFFICES msg' \in [Messages -> MsgType] /\ out' \in OutType /\ wire' \in Buffers
             /\ inc' \in IncType /\ got' \in Seq(Pushed) /\ log' \in Seq(LogType)
  BY DEF TypeOK, MsgType, OutType, IncType, Pushed, LogType
<1>2. ASSUME NEW m \in Messages, WriterStep(m)
      PROVE  msg' \in [Messages -> MsgType] /\ UNCHANGED <<out, wire, inc, got, log>>
  <2>1. UNCHANGED <<out, wire, inc, got, log>>
    BY <1>2, WriterKeeps
  <2>2. CASE OpenMessage(m)
    BY <2>1, <2>2, WriterDoes, Zenon DEF Only
  <2>3. CASE WriteChunk(m)
    BY <2>1, <2>3, WriterDoes, Zenon DEF Only
  <2>4. CASE EndMessage(m)
    BY <2>1, <2>4, WriterDoes, Zenon DEF Only
  <2>5. CASE FinishMessage(m)
    BY <2>1, <2>5, WriterDoes, Zenon DEF Only
  <2>6. CASE GiveUpMessage(m)
    BY <2>1, <2>6, WriterDoes, Zenon DEF Only
  <2> QED
    BY <1>2, <2>2, <2>3, <2>4, <2>5, <2>6 DEF WriterStep
<1>3. ASSUME NEW n \in PacketSizes, SetPacketSize(n)
      PROVE  out' \in OutType /\ UNCHANGED <<msg, wire, inc, got, log>>
  BY <1>1, <1>3 DEF SetPacketSize, OutType
<1>4. ASSUME StartMessage
      PROVE  out' \in OutType /\ UNCHANGED <<msg, wire, inc, got, log>>
  <2>1. out.size \in PacketSizes /\ out.next \in Nat
    BY <1>0, OutIs
  <2>2. out.size - HeaderLength \in Nat /\ out.next + 1 \in Nat
    BY <2>1, PlanIs
  <2> QED
    BY <1>1, <1>4, <2>1, <2>2 DEF StartMessage, OutType
<1>5. ASSUME OnData
      PROVE  msg' \in [Messages -> MsgType] /\ out' \in OutType /\ log' \in Seq(LogType)
             /\ UNCHANGED <<wire, inc, got>>
  BY <1>5, DataDoes, DataIs DEF Only
<1>6. ASSUME OnEnd
      PROVE  out' \in OutType /\ log' \in Seq(LogType) /\ UNCHANGED <<msg, wire, inc, got>>
  BY <1>6, EndDoes
<1>7. ASSUME SocketReads
      PROVE  out' \in OutType /\ wire' \in Buffers /\ UNCHANGED <<msg, inc, got, log>>
  <2>1. out.ready \in Seq(Buffers) /\ out.ready # <<>>
    BY <1>0, <1>7, OutIs DEF SocketReads
  <2>2. Head(out.ready) \in Buffers /\ Tail(out.ready) \in Seq(Buffers)
    BY <2>1, HeadTailProperties
  <2>3. wire \o Head(out.ready) \in Buffers
    BY <1>1, <2>2, Joined
  <2>4. (out.paused /\ Held(Tail(out.ready)) >= HighWater) \in BOOLEAN
    OBVIOUS
  <2>5. out' = [out EXCEPT !.ready = Tail(out.ready),
                           !.paused = out.paused /\ Held(Tail(out.ready)) >= HighWater]
    BY <1>7 DEF SocketReads
  <2>6. out' \in OutType
    BY <1>1, <2>2, <2>4, <2>5 DEF OutType
  <2> QED
    BY <1>7, <2>3, <2>6 DEF SocketReads
<1>8. ASSUME NEW n \in 1 .. Len(wire), Transform(n)
      PROVE  inc' \in IncType /\ wire' \in Buffers /\ UNCHANGED <<msg, out, got, log>>
  <2>1. n \in 0 .. Len(wire) /\ 0 \in 0 .. Len(wire) /\ n \in 0 .. Len(wire) /\ Len(wire) \in n .. Len(wire) /\ 0 + 1 = 1
    BY <1>1 DEF Buffers
  <2>2. SubSeq(wire, 0 + 1, n) \in Buffers /\ SubSeq(wire, n + 1, Len(wire)) \in Buffers
    BY <1>1, <2>1, Part
  <2>3. inc.bl \in Buffers
    BY <1>1 DEF IncType
  <2>4. inc.bl \o SubSeq(wire, 1, n) \in Buffers
    BY <2>1, <2>2, <2>3, Joined
  <2>5. inc' \in IncType
    BY <1>1, <1>8, <2>4 DEF Transform, IncType
  <2> QED
    BY <1>8, <2>2, <2>5 DEF Transform
<1>9. PICK c \in 0 .. Passed : Laid(inc.bl \o wire, Under(c)) /\ ReaderInv(c)
  BY <1>0 DEF StreamInv
<1>10. ASSUME ProcessPacket
       PROVE  inc' \in IncType /\ got' \in Seq(Pushed) /\ UNCHANGED <<msg, out, wire, log>>
  <2> DEFINE p == log[c + 1]
             b == SubSeq(inc.bl, Len(p.buffer) + 1, Len(inc.bl))
  <2>1. /\ p.m \in Messages
        /\ inc' = [bl |-> b, current |-> p.m, at |-> AtAfter(p)]
        /\ b \in Buffers
        /\ UNCHANGED <<msg, out, wire, log>>
    BY <1>9, <1>10, ProcessIs
  <2>2. AtAfter(p) \in {"idle", "loop", "drain", "end"}
    BY DEF AtAfter
  <2>3. p.m \in Nat
    BY <2>1, PlanIs
  <2> HIDE DEF p, b
  <2>4. inc' \in IncType
    BY <2>1, <2>2, <2>3 DEF IncType
  <2>5. got' \in Seq(Pushed)
    BY <1>9, <1>10, ProcessGives
  <2> QED
    BY <2>1, <2>4, <2>5
<1>11. ASSUME WaitForChunk
       PROVE  inc' = [inc EXCEPT !.at = "idle"] /\ inc' \in IncType /\ UNCHANGED <<msg, out, wire, got, log>>
  <2>1. ~(Len(inc.bl) >= HeaderLength /\ PacketLength(inc.bl) < HeaderLength)
    <3>1. CASE Len(inc.bl) >= HeaderLength
      <4>1. /\ c + 1 \in 1 .. Len(log) /\ PacketLength(inc.bl) = Len(log[c + 1].buffer)
            /\ Len(log[c + 1].buffer) >= HeaderLength
        BY <1>0, <1>9, <3>1, PacketAhead
      <4>2. Len(log[c + 1].buffer) \in Nat
        BY <1>0, <4>1, LogIs
      <4> QED
        BY <4>1, <4>2 DEF HeaderLength
    <3> QED
      BY <3>1
  <2>2. inc' = [inc EXCEPT !.at = "idle"]
    BY <1>11, <2>1 DEF WaitForChunk
  <2>3. inc' \in IncType
    BY <1>1, <2>2 DEF IncType
  <2> QED
    BY <1>11, <2>2, <2>3 DEF WaitForChunk
<1>12. ASSUME ReadChunk
       PROVE  got' \in Seq(Pushed) /\ UNCHANGED <<msg, out, wire, inc, log>>
  <2> DEFINE g == got[Len(got)]
             r == [g EXCEPT !.buffer = Tail(g.buffer), !.read = g.read \o Head(g.buffer)]
  <2>1. Len(got) \in 1 .. Len(got)
    BY <1>0, <1>12, GotIs DEF ReadChunk, ReaderRuns, Reading
  <2>2. g \in Pushed /\ g.buffer \in Seq(Buffers) /\ g.buffer # <<>> /\ g.read \in Buffers
    BY <1>0, <1>12, <2>1, GotIs DEF ReadChunk, Reading, Pushed
  <2>3. Tail(g.buffer) \in Seq(Buffers) /\ g.read \o Head(g.buffer) \in Buffers
    BY <2>2, HeadTailProperties, Joined
  <2>4. r \in Pushed
    BY <2>2, <2>3 DEF Pushed
  <2>5. got' = [got EXCEPT ![Len(got)] = r]
    BY <1>12 DEF ReadChunk, Reading
  <2> HIDE DEF r
  <2>6. got' \in Seq(Pushed)
    BY <1>1, <2>1, <2>4, <2>5, ExceptSeq
  <2> QED
    BY <1>12, <2>6 DEF ReadChunk
<1>13. ASSUME Drained
       PROVE  inc' \in IncType /\ UNCHANGED <<msg, out, wire, got, log>>
  BY <1>1, <1>13 DEF Drained, IncType
<1>14. ASSUME MessageEnds
       PROVE  inc' \in IncType /\ got' \in Seq(Pushed) /\ UNCHANGED <<msg, out, wire, log>>
  <2>1. inc' \in IncType
    BY <1>1, <1>14 DEF MessageEnds, IncType
  <2>2. inc.current = Len(got) /\ Len(got) \in 1 .. Len(got)
    BY <1>9, <1>14, ReaderIs DEF MessageEnds
  <2> DEFINE g == got[Len(got)]
             r == [g EXCEPT !.done = TRUE]
  <2>3. g \in Pushed
    BY <1>0, <2>2, GotIs DEF Pushed
  <2>4. r \in Pushed
    BY <2>3 DEF Pushed
  <2>5. got' = [got EXCEPT ![Len(got)] = r]
    BY <1>14, <2>2 DEF MessageEnds
  <2> HIDE DEF r
  <2>6. got' \in Seq(Pushed)
    BY <1>1, <2>2, <2>4, <2>5, ExceptSeq
  <2> QED
    BY <1>14, <2>1, <2>6 DEF MessageEnds
<1> QED
  BY <1>1, <1>2, <1>3, <1>4, <1>5, <1>6, <1>7, <1>8, <1>10, <1>11, <1>12, <1>13, <1>14 DEF Next, WriterStep

-------------------------------------------------------------------------------
(* Every step keeps the messages in order.                                       *)

\* Only the writers and OnData touch a message.
LEMMA MsgSteps ==
  ASSUME Inv, Next
  PROVE  (\E m \in Messages : WriterStep(m)) \/ OnData \/ UNCHANGED msg
BY Zenon DEF Next, WriterStep, SetPacketSize, StartMessage, OnEnd, SocketReads, Transform, ProcessPacket, WaitForChunk,
       ReadChunk, Drained, MessageEnds

\* A message changes only as its writer and OnData change it.
LEMMA MsgAfter ==
  ASSUME Inv, Next, NEW k \in Messages
  PROVE  /\ msg[k].opened => msg'[k].opened
         /\ msg[k].n <= msg'[k].n /\ msg'[k].n \in Nat /\ msg[k].n \in Nat
         /\ msg[k].finished => msg'[k].finished /\ msg'[k].ignore = msg[k].ignore
         /\ msg[k].ignore => msg'[k].ignore
         /\ msg'[k].n - Len(msg'[k].buffer) >= msg[k].n - Len(msg[k].buffer)
<1>0. TypeOK /\ msg[k] \in MsgType /\ msg[k].n \in Nat /\ msg[k].buffer \in Seq(Buffers) /\ Len(msg[k].buffer) \in Nat
  BY MsgIs DEF Inv, MsgType
<1>1. ASSUME msg'[k] = msg[k]
      PROVE  /\ msg[k].opened => msg'[k].opened
             /\ msg[k].n <= msg'[k].n /\ msg'[k].n \in Nat /\ msg[k].n \in Nat
             /\ msg[k].finished => msg'[k].finished /\ msg'[k].ignore = msg[k].ignore
             /\ msg[k].ignore => msg'[k].ignore
             /\ msg'[k].n - Len(msg'[k].buffer) >= msg[k].n - Len(msg[k].buffer)
  <2>1. msg[k].n <= msg[k].n /\ msg[k].n - Len(msg[k].buffer) >= msg[k].n - Len(msg[k].buffer)
    BY <1>0
  <2> QED
    BY <1>0, <1>1, <2>1
<1>2. CASE UNCHANGED msg
  BY <1>1, <1>2
<1>3. CASE OnData
  <2>1. CASE k = out.current
    <3> DEFINE t == Tail(msg[k].buffer)
    <3>1. Only(k, [msg[k] EXCEPT !.buffer = t]) /\ msg[k].buffer # <<>>
      BY <1>3, <2>1, DataDoes, DataIs
    <3>2. t \in Seq(Buffers) /\ Len(t) = Len(msg[k].buffer) - 1
      BY <1>0, <3>1, HeadTailProperties
    <3> HIDE DEF t
    <3>3. /\ msg'[k].opened = msg[k].opened /\ msg'[k].n = msg[k].n /\ msg'[k].buffer = t
          /\ msg'[k].finished = msg[k].finished /\ msg'[k].ignore = msg[k].ignore
      BY <1>0, <3>1 DEF Only, MsgType
    <3>4. msg[k].n - Len(t) >= msg[k].n - Len(msg[k].buffer) /\ msg[k].n <= msg[k].n
      BY <1>0, <3>2
    <3> QED
      BY <1>0, <3>3, <3>4
  <2>2. CASE k # out.current
    BY <1>1, <1>3, <2>2, DataDoes DEF Only
  <2> QED
    BY <2>1, <2>2
<1>4. ASSUME NEW m \in Messages, WriterStep(m), m # k
      PROVE  msg'[k] = msg[k]
  BY <1>4, WriterDoes, Zenon DEF Only, WriterStep
<1>5. CASE WriterStep(k)
  <2>0. msg[k].n <= msg[k].n /\ msg[k].n - Len(msg[k].buffer) >= msg[k].n - Len(msg[k].buffer)
    BY <1>0
  <2>1. CASE OpenMessage(k)
    <3>1. msg'[k] = [msg[k] EXCEPT !.opened = TRUE]
      BY <2>1, WriterDoes, Zenon DEF Only
    <3> QED
      BY <1>0, <2>0, <3>1 DEF MsgType
  <2>2. CASE EndMessage(k)
    <3>1. msg'[k] = [msg[k] EXCEPT !.ended = TRUE]
      BY <2>2, WriterDoes, Zenon DEF Only
    <3> QED
      BY <1>0, <2>0, <3>1 DEF MsgType
  <2>3. CASE FinishMessage(k)
    <3>1. msg'[k] = [msg[k] EXCEPT !.finished = TRUE]
      BY <2>3, WriterDoes, Zenon DEF Only
    <3> QED
      BY <1>0, <2>0, <3>1 DEF MsgType
  <2>4. CASE GiveUpMessage(k)
    <3>1. msg'[k] = [msg[k] EXCEPT !.ended = TRUE, !.ignore = TRUE] /\ ~msg[k].finished
      BY <2>4, WriterDoes, Zenon DEF Only, GiveUpMessage
    <3> QED
      BY <1>0, <2>0, <3>1 DEF MsgType
  <2>5. CASE WriteChunk(k)
    <3> DEFINE c == Text(k, Size(k, msg[k].n), Size(k, msg[k].n + 1))
               b == Append(msg[k].buffer, c)
    <3>1. msg'[k] = [msg[k] EXCEPT !.n = msg[k].n + 1, !.buffer = b]
      BY <2>5, WriterDoes, Zenon DEF Only
    <3>2. c \in Buffers
      BY <2>5, WritesIt, Zenon
    <3> HIDE DEF c
    <3>3. Len(b) = Len(msg[k].buffer) + 1
      BY <1>0, <3>2, AppendProperties
    <3> HIDE DEF b
    <3>4. msg[k].n <= msg[k].n + 1 /\ msg[k].n + 1 \in Nat /\ (msg[k].n + 1) - Len(b) >= msg[k].n - Len(msg[k].buffer)
      BY <1>0, <3>3
    <3>5. /\ msg'[k].opened = msg[k].opened /\ msg'[k].n = msg[k].n + 1 /\ msg'[k].buffer = b
          /\ msg'[k].finished = msg[k].finished /\ msg'[k].ignore = msg[k].ignore
      BY <1>0, <3>1 DEF MsgType
    <3> QED
      BY <1>0, <3>4, <3>5
  <2> QED
    BY <1>5, <2>1, <2>2, <2>3, <2>4, <2>5 DEF WriterStep
<1> QED
  BY <1>1, <1>2, <1>3, <1>4, <1>5, MsgSteps

LEMMA OpenedStep ==
  ASSUME Inv, Next
  PROVE  OpenedInv'
<1>0. TypeOK
  BY DEF Inv
<1>1. PICK j \in 0 .. Len(Plan) : \A k \in Messages : msg[k].opened <=> k <= j
  BY DEF Inv, OpenedInv
<1>2. ASSUME \A k \in Messages : msg'[k].opened = msg[k].opened
      PROVE  OpenedInv'
  BY <1>1, <1>2 DEF OpenedInv
<1>3. ASSUME NEW m \in Messages, NEW r \in MsgType, Only(m, r), r.opened = msg[m].opened
      PROVE  OpenedInv'
  BY <1>2, <1>3 DEF Only
<1>4. ASSUME NEW m \in Messages, OpenMessage(m)
      PROVE  OpenedInv'
  <2>1. Only(m, [msg[m] EXCEPT !.opened = TRUE]) /\ msg[m] \in MsgType
    BY <1>0, <1>4, WriterDoes, MsgIs, Zenon DEF MsgType
  <2>2. msg'[m].opened /\ \A k \in Messages : k # m => msg'[k].opened = msg[k].opened
    BY <2>1 DEF Only, MsgType
  <2>3. m \in 1 .. Len(Plan) /\ Len(Plan) \in Nat
    BY PlanIs
  <2>4. m = j + 1
    <3>1. ~(m <= j)
      BY <1>1, <1>4 DEF OpenMessage
    <3>2. CASE m > 1
      <4>1. m - 1 \in Messages /\ msg[m - 1].opened
        BY <1>4, <2>3, <3>2, PlanIs DEF OpenMessage
      <4>2. m - 1 <= j
        BY <1>1, <4>1
      <4> QED
        BY <2>3, <3>1, <4>2
    <3>3. CASE ~(m > 1)
      BY <2>3, <3>1, <3>3
    <3> QED
      BY <3>2, <3>3
  <2>5. j + 1 \in 0 .. Len(Plan)
    BY <2>3, <2>4
  <2>6. \A k \in Messages : msg'[k].opened <=> k <= j + 1
    <3> SUFFICES ASSUME NEW k \in Messages
                 PROVE  msg'[k].opened <=> k <= j + 1
      OBVIOUS
    <3>1. k \in Nat
      BY PlanIs
    <3>2. k # m => (k <= j + 1 <=> k <= j)
      BY <2>4, <3>1
    <3>3. k = m => k <= j + 1
      BY <2>4
    <3> QED
      BY <1>1, <2>2, <3>2, <3>3
  <2> QED
    BY <2>5, <2>6 DEF OpenedInv
<1>5. CASE UNCHANGED msg
  BY <1>2, <1>5
<1>6. CASE OnData
  <2>1. out.current \in Messages
    BY <1>6, DataIs
  <2>2. msg[out.current] \in MsgType
    BY <1>0, <2>1, MsgIs DEF MsgType
  <2>3. Only(out.current, [msg[out.current] EXCEPT !.buffer = Tail(msg[out.current].buffer)])
    BY <1>6, DataDoes
  <2>4. [msg[out.current] EXCEPT !.buffer = Tail(msg[out.current].buffer)].opened = msg[out.current].opened
    BY <2>2 DEF MsgType
  <2> QED
    BY <1>3, <2>1, <2>3, <2>4 DEF Only
<1>7. ASSUME NEW m \in Messages, WriterStep(m)
      PROVE  OpenedInv'
  <2>1. msg[m] \in MsgType
    BY <1>0, MsgIs DEF MsgType
  <2>2. \A r : Only(m, r) => r \in MsgType
    BY DEF Only
  <2>3. CASE WriteChunk(m)
    <3> DEFINE r == [msg[m] EXCEPT !.n = msg[m].n + 1,
                       !.buffer = Append(msg[m].buffer, Text(m, Size(m, msg[m].n), Size(m, msg[m].n + 1)))]
    <3>1. Only(m, r) /\ r.opened = msg[m].opened
      BY <2>1, <2>3, WriterDoes, Zenon DEF MsgType
    <3> QED
      BY <1>3, <2>2, <3>1, Zenon
  <2>4. CASE EndMessage(m)
    <3> DEFINE r == [msg[m] EXCEPT !.ended = TRUE]
    <3>1. Only(m, r) /\ r.opened = msg[m].opened
      BY <2>1, <2>4, WriterDoes, Zenon DEF MsgType
    <3> QED
      BY <1>3, <2>2, <3>1, Zenon
  <2>5. CASE FinishMessage(m)
    <3> DEFINE r == [msg[m] EXCEPT !.finished = TRUE]
    <3>1. Only(m, r) /\ r.opened = msg[m].opened
      BY <2>1, <2>5, WriterDoes, Zenon DEF MsgType
    <3> QED
      BY <1>3, <2>2, <3>1, Zenon
  <2>6. CASE GiveUpMessage(m)
    <3> DEFINE r == [msg[m] EXCEPT !.ended = TRUE, !.ignore = TRUE]
    <3>1. Only(m, r) /\ r.opened = msg[m].opened
      BY <2>1, <2>6, WriterDoes, Zenon DEF MsgType
    <3> QED
      BY <1>3, <2>2, <3>1, Zenon
  <2> QED
    BY <1>4, <1>7, <2>3, <2>4, <2>5, <2>6 DEF WriterStep
<1> QED
  BY <1>5, <1>6, <1>7, MsgSteps

LEMMA MessageStep ==
  ASSUME Inv, Next
  PROVE  MessageInv'
<1>0. TypeOK /\ MessageInv
  BY DEF Inv
<1> SUFFICES ASSUME NEW k \in Messages
             PROVE  MessageOk(k)'
  BY DEF MessageInv
<1>1. MessageOk(k) /\ msg[k] \in MsgType
  BY <1>0, MsgIs DEF MessageInv, MsgType
<1>2. ASSUME msg'[k] = msg[k]
      PROVE  MessageOk(k)'
  <2>1. \A j : Nth(k, j)' = Nth(k, j)
    BY <1>2 DEF Nth
  <2> QED
    BY <1>1, <1>2, <2>1 DEF MessageOk
<1>3. ASSUME msg'[k].n = msg[k].n, msg'[k].buffer = msg[k].buffer,
             /\ ~msg'[k].opened => msg[k].n = 0 /\ ~msg'[k].ended
             /\ msg'[k].finished => msg'[k].ended
             /\ msg'[k].ignore => msg'[k].ended
             /\ msg'[k].ended /\ ~msg'[k].ignore => msg[k].n = Len(Plan[k].writes)
      PROVE  MessageOk(k)'
  <2>1. \A j : Nth(k, j)' = Nth(k, j)
    BY <1>3 DEF Nth
  <2>2. /\ msg[k].n <= Len(Plan[k].writes)
        /\ Len(msg[k].buffer) <= msg[k].n
        /\ \A j \in DOMAIN msg[k].buffer :
             msg[k].buffer[j] = Text(k, Size(k, Nth(k, j) - 1), Size(k, Nth(k, j)))
    BY <1>1 DEF MessageOk
  <2> QED
    BY <1>3, <2>1, <2>2 DEF MessageOk
<1>4. CASE WriterStep(k)
  <2>1. CASE OpenMessage(k)
    <3>1. msg'[k] = [msg[k] EXCEPT !.opened = TRUE] /\ ~msg[k].opened
      BY <2>1, WriterDoes, Zenon DEF Only, OpenMessage
    <3>2. /\ msg'[k].n = msg[k].n /\ msg'[k].buffer = msg[k].buffer /\ msg'[k].opened
          /\ msg'[k].finished = msg[k].finished /\ msg'[k].ignore = msg[k].ignore /\ msg'[k].ended = msg[k].ended
      BY <1>1, <3>1 DEF MsgType
    <3> QED
      BY <1>1, <1>3, <3>2 DEF MessageOk
  <2>2. CASE EndMessage(k)
    <3>1. msg'[k] = [msg[k] EXCEPT !.ended = TRUE] /\ msg[k].opened /\ msg[k].n = Len(Plan[k].writes)
      BY <2>2, WriterDoes, Zenon DEF Only, EndMessage
    <3>2. /\ msg'[k].n = msg[k].n /\ msg'[k].buffer = msg[k].buffer /\ msg'[k].opened /\ msg'[k].ended
      BY <1>1, <3>1 DEF MsgType
    <3> QED
      BY <1>3, <3>1, <3>2
  <2>3. CASE FinishMessage(k)
    <3>1. msg'[k] = [msg[k] EXCEPT !.finished = TRUE] /\ msg[k].ended
      BY <2>3, WriterDoes, Zenon DEF Only, FinishMessage
    <3>2. /\ msg'[k].n = msg[k].n /\ msg'[k].buffer = msg[k].buffer /\ msg'[k].opened = msg[k].opened
          /\ msg'[k].ignore = msg[k].ignore /\ msg'[k].ended = msg[k].ended
      BY <1>1, <3>1 DEF MsgType
    <3> QED
      BY <1>1, <1>3, <3>1, <3>2 DEF MessageOk
  <2>4. CASE GiveUpMessage(k)
    <3>1. msg'[k] = [msg[k] EXCEPT !.ended = TRUE, !.ignore = TRUE] /\ msg[k].opened
      BY <2>4, WriterDoes, Zenon DEF Only, GiveUpMessage
    <3>2. /\ msg'[k].n = msg[k].n /\ msg'[k].buffer = msg[k].buffer /\ msg'[k].opened
          /\ msg'[k].ignore /\ msg'[k].ended
      BY <1>1, <3>1 DEF MsgType
    <3> QED
      BY <1>3, <3>1, <3>2
  <2>5. CASE WriteChunk(k)
    <3> DEFINE c == Text(k, Size(k, msg[k].n), Size(k, msg[k].n + 1))
               b == Append(msg[k].buffer, c)
               l == Len(msg[k].buffer)
               n == msg[k].n
    <3>1. msg'[k] = [msg[k] EXCEPT !.n = msg[k].n + 1, !.buffer = b]
      BY <2>5, WriterDoes DEF Only
    <3>2. c \in Buffers /\ n \in 0 .. Len(Plan[k].writes) - 1 /\ Len(Plan[k].writes) \in Nat
      BY <2>5, WritesIt, Zenon
    <3>3. /\ msg'[k].n = n + 1 /\ msg'[k].buffer = b /\ msg'[k].opened = msg[k].opened
          /\ msg'[k].finished = msg[k].finished /\ msg'[k].ignore = msg[k].ignore /\ msg'[k].ended = msg[k].ended
      BY <1>1, <3>1 DEF MsgType
    <3>4. msg[k].buffer \in Seq(Buffers) /\ l \in Nat /\ n \in Nat
      BY <1>1 DEF MsgType
    <3> HIDE DEF c
    <3>5. /\ b \in Seq(Buffers) /\ Len(b) = l + 1 /\ b[l + 1] = c
          /\ \A j \in 1 .. l : b[j] = msg[k].buffer[j]
      BY <3>2, <3>4, AppendProperties
    <3> HIDE DEF b
    <3>6. /\ l <= n /\ n + 1 <= Len(Plan[k].writes) /\ Len(b) <= n + 1 /\ DOMAIN b = 1 .. l + 1
          /\ DOMAIN msg[k].buffer = 1 .. l
      BY <1>1, <3>2, <3>4, <3>5, SMTT(30) DEF MessageOk
    <3> HIDE DEF l, n
    <3>7. \A j \in 1 .. l + 1 : Nth(k, j)' = (n + 1) - (l + 1) + j
      BY <3>3, <3>5 DEF Nth
    <3>8. ASSUME NEW j \in 1 .. l + 1
          PROVE  b[j] = Text(k, Size(k, Nth(k, j)' - 1), Size(k, Nth(k, j)'))
      <4>1. CASE j \in 1 .. l
        <5>1. Nth(k, j)' = Nth(k, j)
          <6>1. (n + 1) - (l + 1) + j = n - l + j
            BY <3>4, <4>1
          <6> QED
            BY <3>7, <6>1 DEF Nth, n, l
        <5>2. msg[k].buffer[j] = Text(k, Size(k, Nth(k, j) - 1), Size(k, Nth(k, j)))
          BY <1>1, <3>6, <4>1 DEF MessageOk
        <5> QED
          BY <3>5, <4>1, <5>1, <5>2
      <4>2. CASE j = l + 1
        <5>1. Nth(k, j)' = n + 1 /\ (n + 1) - 1 = n
          BY <3>4, <3>7, <4>2
        <5> QED
          BY <3>5, <4>2, <5>1 DEF c, n
      <4> QED
        BY <3>4, <4>1, <4>2
    <3>9. msg[k].opened /\ ~msg[k].ended
      BY <2>5 DEF WriteChunk
    <3>10. /\ msg[k].finished => msg[k].ended
           /\ msg[k].ignore => msg[k].ended
      BY <1>1 DEF MessageOk
    <3> QED
      BY <3>3, <3>6, <3>8, <3>9, <3>10 DEF MessageOk
  <2> QED
    BY <1>4, <2>1, <2>2, <2>3, <2>4, <2>5 DEF WriterStep
<1>5. ASSUME NEW m \in Messages, WriterStep(m), m # k
      PROVE  msg'[k] = msg[k]
  BY <1>5, WriterDoes DEF Only, WriterStep
<1>6. CASE OnData
  <2>1. CASE k = out.current
    <3> DEFINE t == Tail(msg[k].buffer)
               l == Len(msg[k].buffer)
               n == msg[k].n
    <3>1. Only(k, [msg[k] EXCEPT !.buffer = t]) /\ msg[k].buffer # <<>>
      BY <1>6, <2>1, DataDoes, DataIs
    <3>2. msg[k].buffer \in Seq(Buffers) /\ l \in Nat /\ n \in Nat
      BY <1>1 DEF MsgType
    <3>3. /\ t \in Seq(Buffers) /\ Len(t) = l - 1
          /\ \A j \in 1 .. Len(t) : t[j] = msg[k].buffer[j + 1]
      BY <3>1, <3>2, HeadTailProperties
    <3> HIDE DEF t
    <3>4. /\ msg'[k].opened = msg[k].opened /\ msg'[k].n = n /\ msg'[k].buffer = t
          /\ msg'[k].finished = msg[k].finished /\ msg'[k].ignore = msg[k].ignore /\ msg'[k].ended = msg[k].ended
      BY <1>1, <3>1 DEF Only, MsgType
    <3>5. l <= n /\ DOMAIN t = 1 .. l - 1 /\ DOMAIN msg[k].buffer = 1 .. l
      BY <1>1, <3>2, <3>3 DEF MessageOk
    <3> HIDE DEF l, n
    <3>6. Len(t) <= n
      BY <3>2, <3>3, <3>5
    <3>7. ASSUME NEW j \in 1 .. l - 1
          PROVE  t[j] = Text(k, Size(k, Nth(k, j)' - 1), Size(k, Nth(k, j)'))
      <4>1. Nth(k, j)' = Nth(k, j + 1)
        <5>1. n - (l - 1) + j = n - l + (j + 1)
          BY <3>2
        <5> QED
          BY <3>3, <3>4, <5>1 DEF Nth, n, l
      <4>2. j + 1 \in 1 .. l
        BY <3>2
      <4>3. msg[k].buffer[j + 1] = Text(k, Size(k, Nth(k, j + 1) - 1), Size(k, Nth(k, j + 1)))
        BY <1>1, <3>5, <4>2 DEF MessageOk
      <4> QED
        BY <3>3, <4>1, <4>3
    <3> QED
      BY <1>1, <3>4, <3>5, <3>6, <3>7 DEF MessageOk, n
  <2>2. CASE k # out.current
    BY <1>2, <1>6, <2>2, DataDoes DEF Only
  <2> QED
    BY <2>1, <2>2
<1> QED
  BY <1>2, <1>4, <1>5, <1>6, MsgSteps

-------------------------------------------------------------------------------
(* The packets that OnData and OnEnd make.                                       *)

\* The bytes joined are the bytes of the message from the last packet to the end of the chunk.
LEMMA JointText ==
  ASSUME Inv, out.current # 0, msg[out.current].buffer # <<>>, ~msg[out.current].ignore
  PROVE  /\ Joint = Text(out.current, Packed, Packed + Len(Joint))
         /\ Packed + Len(Joint) = Size(out.current, Nth(out.current, 1))
         /\ Rest = Text(out.current, Packed + Count * out.limit, Packed + Len(Joint))
         /\ \A i \in 1 .. Count :
              /\ Piece(i) = Text(out.current, (out.number + i - 1) * out.limit, (out.number + i) * out.limit)
              /\ (out.number + i) * out.limit = (out.number + i - 1) * out.limit + out.limit
              /\ (out.number + i - 1) * out.limit \in Nat
              /\ (out.number + i) * out.limit <= Packed + Len(Joint)
<1> DEFINE m == out.current
           a == Packed
           l == out.limit
           b == Len(out.bl)
           n == Len(Joint)
<1>1. /\ m \in Messages /\ m \in Nat /\ l \in Nat \ {0} /\ b \in Nat /\ a \in Nat /\ out.number \in Nat
      /\ out.bl = Text(m, a, a + b) /\ a + b = Size(m, Nth(m, 0))
  <2>1. m \in Messages /\ l \in Nat \ {0} /\ b \in 0 .. l /\ a \in Nat
    BY CurrentIs
  <2>2. m \in Nat /\ out.number \in Nat
    BY <2>1, PlanIs, OutIs DEF Inv
  <2>3. out.bl = Text(m, a, a + b) /\ a + b = Size(m, Nth(m, 0))
    BY DEF Inv, WriterInv
  <2> QED
    BY <2>1, <2>2, <2>3
<1>2. /\ Size(m, Nth(m, 0)) \in Nat /\ Size(m, Nth(m, 1)) \in Nat
      /\ Size(m, Nth(m, 0)) <= Size(m, Nth(m, 1))
      /\ Chunk = Text(m, Size(m, Nth(m, 0)), Size(m, Nth(m, 1)))
  BY <1>1, ChunkIs DEF Chunk
<1>3. /\ Joint \in Buffers /\ n \in Nat /\ Count \in Nat /\ Count * l \in 0 .. n
      /\ n = b + Len(Chunk)
  BY JointIs
<1>4. Joint = out.bl \o Chunk
  BY DEF Joint
<1>5. \A i \in 1 .. Count : /\ i \in Nat \ {0} /\ (i - 1) * l \in 0 .. i * l /\ i * l = (i - 1) * l + l
                            /\ i * l \in 0 .. n /\ i - 1 \in Nat
  BY PieceIs
<1>6. a = out.number * l
  BY DEF Packed
<1> HIDE DEF m, a, l, b, n
<1> DEFINE e == Size(m, Nth(m, 1))
<1>7. Joint = Text(m, a, e) /\ a + n = e
  <2>1. Text(m, a, a + b) \o Text(m, a + b, e) = Text(m, a, e)
    <3> DEFINE d == a + b
    <3>1. d \in Nat /\ e \in Nat /\ a <= d /\ d <= e /\ m \in Nat /\ a \in Nat
      BY <1>1, <1>2
    <3> HIDE DEF d, e
    <3>2. Text(m, a, d) \o Text(m, d, e) = Text(m, a, e)
      BY <3>1, TextConcat
    <3> QED
      BY <3>2 DEF d
  <2>2. Joint = Text(m, a, e)
    BY <1>1, <1>2, <1>4, <2>1
  <2>3. a \in Nat /\ e \in Nat /\ a <= e /\ m \in Nat
    BY <1>1, <1>2
  <2> HIDE DEF e
  <2>4. Len(Text(m, a, e)) = e - a
    BY <2>3, TextType
  <2>5. n = e - a
    BY <2>2, <2>4 DEF n
  <2> QED
    BY <2>2, <2>3, <2>5
<1>8. e \in Nat /\ a <= e /\ e - a = n
  BY <1>1, <1>2, <1>3, <1>7
<1> HIDE DEF e
<1>9. Rest = Text(m, a + Count * l, a + n)
  <2> DEFINE i == Count * l
  <2>1. i \in 0 .. e - a /\ n \in i .. e - a /\ m \in Nat /\ a \in Nat /\ e \in Nat /\ a <= e
    BY <1>1, <1>3, <1>8
  <2>2. SubSeq(Joint, i + 1, n) = Rest
    BY DEF Rest, n, l
  <2> HIDE DEF i
  <2>3. SubSeq(Text(m, a, e), i + 1, n) = Text(m, a + i, a + n)
    BY <2>1, TextSub
  <2> QED
    BY <1>7, <2>2, <2>3 DEF i
<1>10. ASSUME NEW i \in 1 .. Count
       PROVE  /\ Piece(i) = Text(m, (out.number + i - 1) * l, (out.number + i) * l)
              /\ (out.number + i) * l = (out.number + i - 1) * l + l
              /\ (out.number + i - 1) * l \in Nat
              /\ (out.number + i) * l <= a + n
  <2> DEFINE x == (i - 1) * l
             y == i * l
  <2>1. x \in 0 .. e - a /\ y \in x .. e - a /\ y = x + l /\ x \in Nat /\ y \in Nat /\ y <= n
    BY <1>1, <1>3, <1>5, <1>8
  <2>2. Piece(i) = SubSeq(Joint, x + 1, y)
    BY DEF Piece, l
  <2>3. (out.number + i - 1) * l = a + x /\ (out.number + i) * l = a + y
    <3> DEFINE j == i - 1
    <3>1. j \in Nat /\ i \in Nat /\ l \in Nat /\ out.number + i - 1 = out.number + j
      BY <1>1, <1>5
    <3> HIDE DEF j
    <3>2. (out.number + j) * l = out.number * l + j * l
      BY <1>1, <3>1, Products
    <3>3. (out.number + i) * l = out.number * l + i * l
      BY <1>1, <3>1, Products
    <3> QED
      BY <1>6, <3>1, <3>2, <3>3 DEF j
  <2> HIDE DEF x, y
  <2>4. SubSeq(Text(m, a, e), x + 1, y) = Text(m, a + x, a + y)
    <3>1. x \in 0 .. e - a /\ y \in x .. e - a /\ m \in Nat /\ a \in Nat /\ e \in Nat /\ a <= e
      BY <1>1, <1>8, <2>1
    <3> QED
      BY <3>1, TextSub
  <2>5. a + y = (a + x) + l /\ a + x \in Nat /\ a + y <= a + n
    BY <1>1, <1>3, <2>1
  <2> QED
    BY <1>7, <2>2, <2>3, <2>4, <2>5
<1>11. Joint = Text(m, a, a + n)
  BY <1>7
<1> QED
  BY <1>7, <1>9, <1>10, <1>11 DEF m, a, l, n, e

LEMMA DataPackets ==
  ASSUME Inv, OnData, ~msg[out.current].ignore
  PROVE  /\ Count \in Nat /\ Len(log') = Len(log) + Count /\ Len(log) \in Nat
         /\ \A i \in 1 .. Len(log) : log'[i] = log[i]
         /\ \A i \in 1 .. Count :
              LET q == log'[Len(log) + i] IN
              /\ q.m = out.current /\ q.limit = out.limit /\ q.from = (out.number + i - 1) * out.limit
              /\ q.buffer = Made[i] /\ q.buffer[4] = (out.number + i) % IdModulus
              /\ Framed(q) /\ ~IsLast(q.buffer)
              /\ End(q) = (out.number + i) * out.limit /\ End(q) = q.from + out.limit
              /\ PacketData(q.buffer) = Text(q.m, q.from, End(q))
              /\ End(q) <= Size(out.current, msg[out.current].n)
<1> DEFINE m == out.current
<1>1. /\ m # 0 /\ msg[m].buffer # <<>> /\ m \in Messages /\ Push(Made)
  BY DataIs
<1>2. /\ Made \in Seq(Buffers) /\ Len(Made) = Count /\ Count \in Nat
      /\ \A i \in 1 .. Count : Made[i] = Packet(m, out.number + i, FALSE, Piece(i))
  BY <1>1, MadeIs, JointIs
<1>3. /\ Len(log') = Len(log) + Count /\ Len(log) \in Nat
      /\ \A i \in 1 .. Len(log) : log'[i] = log[i]
      /\ \A i \in 1 .. Count :
           log'[Len(log) + i] = [m |-> m, limit |-> out.limit, buffer |-> Made[i],
                                 from |-> (out.number + i - 1) * out.limit]
  BY <1>1, <1>2, PushIs
<1>4. ASSUME NEW i \in 1 .. Count
      PROVE  LET q == log'[Len(log) + i] IN
             /\ q.m = out.current /\ q.limit = out.limit /\ q.from = (out.number + i - 1) * out.limit
             /\ q.buffer = Made[i] /\ q.buffer[4] = (out.number + i) % IdModulus
             /\ Framed(q) /\ ~IsLast(q.buffer)
             /\ End(q) = (out.number + i) * out.limit /\ End(q) = q.from + out.limit
             /\ PacketData(q.buffer) = Text(q.m, q.from, End(q))
             /\ End(q) <= Size(out.current, msg[out.current].n)
  <2> DEFINE q == log'[Len(log) + i]
             l == out.limit
             f == (out.number + i - 1) * out.limit
             t == (out.number + i) * out.limit
  <2>1. q.m = m /\ q.limit = l /\ q.from = f /\ q.buffer = Packet(m, out.number + i, FALSE, Piece(i)) /\ q.buffer = Made[i]
    <3>1. q = [m |-> m, limit |-> l, buffer |-> Made[i], from |-> f]
      BY <1>3, Zenon
    <3>2. Made[i] = Packet(m, out.number + i, FALSE, Piece(i))
      BY <1>2, Zenon
    <3> QED
      BY <3>1, <3>2
  <2>2. Piece(i) \in Buffers /\ Len(Piece(i)) = l /\ out.number + i \in Nat
    BY <1>1, PieceIs
  <2>3. Piece(i) = Text(m, f, t) /\ t = f + l /\ f \in Nat /\ t <= Size(m, Nth(m, 1))
    BY <1>1, JointText
  <2>4. Size(m, Nth(m, 1)) \in Nat /\ Size(m, msg[m].n) \in Nat /\ Size(m, Nth(m, 1)) <= Size(m, msg[m].n)
    BY <1>1, ChunkIs
  <2>5. l \in Nat \ {0} /\ l + HeaderLength \in PacketSizes
    BY <1>1, CurrentIs
  <2>6. msg[m].ignore \in BOOLEAN
    BY <1>1, MsgIs DEF Inv
  <2> DEFINE d == Piece(i)
             k == out.number + i
  <2> HIDE DEF q, d, k, f, t, l, m
  <2>7. /\ Len(q.buffer) = HeaderLength + Len(d)
        /\ q.buffer[1] = Plan[m].type /\ PacketLength(q.buffer) = Len(q.buffer) /\ q.buffer[4] = k % IdModulus
        /\ PacketData(q.buffer) = d
        /\ ~IsLast(q.buffer)
        /\ ~HasBit(q.buffer[2], Status.IGNORE)
        /\ HasBit(q.buffer[2], Status.RESETCONNECTION) <=> Plan[m].reset
    <3> DEFINE v == FALSE
               z == Packet(m, k, v, d)
    <3>1. v \in BOOLEAN /\ ~v /\ m \in Messages /\ k \in Nat /\ d \in Buffers
      BY <1>1, <2>2 DEF d, k
    <3>2. q.buffer = z
      BY <2>1 DEF d, k
    <3> HIDE DEF v
    <3>3. /\ Len(z) = HeaderLength + Len(d)
          /\ z[1] = Plan[m].type /\ PacketLength(z) = Len(z) /\ z[4] = k % IdModulus
          /\ PacketData(z) = d
          /\ IsLast(z) <=> v
          /\ HasBit(z[2], Status.IGNORE) <=> v /\ msg[m].ignore
          /\ HasBit(z[2], Status.RESETCONNECTION) <=> Plan[m].reset
      BY <2>6, <3>1, PacketIs
    <3> HIDE DEF z
    <3> QED
      BY <3>1, <3>2, <3>3
  <2>8. End(q) = t
    <3>1. End(q) = f + (HeaderLength + l) - HeaderLength
      BY <2>1, <2>2, <2>7 DEF End, d
    <3> QED
      BY <2>3, <2>5, <3>1 DEF HeaderLength
  <2>9. t <= Size(m, msg[m].n)
    BY <2>3, <2>4, <2>5
  <2>10. Framed(q)
    <3>1. Len(q.buffer) = HeaderLength + l
      BY <2>2, <2>7 DEF d
    <3>2. Len(q.buffer) >= HeaderLength /\ Len(q.buffer) - HeaderLength = l /\ l <= l
      BY <2>5, <3>1 DEF HeaderLength
    <3> QED
      BY <2>1, <2>5, <2>7, <3>2 DEF Framed
  <2> QED
    BY <2>1, <2>3, <2>7, <2>8, <2>9, <2>10 DEF q, d, k, f, t, l, m
<1> QED
  BY <1>2, <1>3, <1>4

LEMMA EndPacket ==
  ASSUME Inv, OnEnd
  PROVE  /\ Len(log') = Len(log) + 1 /\ Len(log) \in Nat
         /\ \A i \in 1 .. Len(log) : log'[i] = log[i]
         /\ LET q == log'[Len(log) + 1] IN
            /\ q.m = out.current /\ q.limit = out.limit /\ q.from = Packed
            /\ q.buffer = Packet(out.current, out.number + 1, TRUE, out.bl)
            /\ q.buffer[4] = (out.number + 1) % IdModulus
            /\ Framed(q) /\ IsLast(q.buffer)
            /\ End(q) = Packed + Len(out.bl)
            /\ PacketData(q.buffer) = Text(q.m, q.from, End(q))
            /\ End(q) <= Size(out.current, msg[out.current].n)
            /\ HasBit(q.buffer[2], Status.IGNORE) <=> msg[out.current].ignore
            /\ ~msg[out.current].ignore => End(q) = Size(out.current, Len(Plan[out.current].writes))
<1> DEFINE m == out.current
           b == Packet(m, out.number + 1, TRUE, out.bl)
           q == log'[Len(log) + 1]
           l == out.limit
<1>1. /\ m # 0 /\ m \in Messages /\ msg[m].buffer = <<>> /\ msg[m].finished
      /\ b \in Buffers /\ <<b>> \in Seq(Buffers) /\ Push(<<b>>)
  BY EndDoes
<1>2. /\ Len(log') = Len(log) + 1 /\ Len(log) \in Nat
      /\ \A i \in 1 .. Len(log) : log'[i] = log[i]
      /\ q = [m |-> m, limit |-> l, buffer |-> b, from |-> (out.number + 1 - 1) * l]
  <2> HIDE DEF b
  <2>1. Len(<<b>>) = 1 /\ 1 \in 1 .. 1 /\ <<b>>[1] = b
    OBVIOUS
  <2>2. /\ Len(log') = Len(log) + Len(<<b>>) /\ Len(log) \in Nat
        /\ \A i \in 1 .. Len(log) : log'[i] = log[i]
        /\ \A i \in 1 .. Len(<<b>>) :
             log'[Len(log) + i] = [m |-> m, limit |-> l, buffer |-> <<b>>[i], from |-> (out.number + i - 1) * l]
    BY <1>1, PushIs
  <2> QED
    BY <2>1, <2>2
<1>3. /\ l \in Nat \ {0} /\ l + HeaderLength \in PacketSizes /\ Len(out.bl) \in 0 .. l /\ Packed \in Nat
      /\ out.number \in Nat /\ out.bl \in Buffers
  BY <1>1, CurrentIs, OutIs DEF Inv
<1>4. (out.number + 1 - 1) * l = Packed
  <2>1. out.number + 1 - 1 = out.number
    BY <1>3
  <2> QED
    BY <2>1 DEF Packed
<1>5. q.m = m /\ q.limit = l /\ q.from = Packed /\ q.buffer = b
  BY <1>2, <1>4
<1>6. /\ out.bl = Text(m, Packed, Packed + Len(out.bl))
      /\ Packed + Len(out.bl) <= Size(m, msg[m].n)
      /\ ~msg[m].ignore => Packed + Len(out.bl) = Size(m, Nth(m, 0))
  BY <1>1 DEF Inv, WriterInv
<1>7. msg[m].ignore \in BOOLEAN /\ msg[m].n \in Nat
  BY <1>1, MsgIs DEF Inv
<1>8. ~msg[m].ignore => Nth(m, 0) = Len(Plan[m].writes)
  <2>1. ~msg[m].ignore => msg[m].n = Len(Plan[m].writes)
    BY <1>1 DEF Inv, MessageInv, MessageOk
  <2>2. Nth(m, 0) = msg[m].n - 0 + 0
    BY <1>1 DEF Nth
  <2> QED
    BY <1>7, <2>1, <2>2
<1> HIDE DEF q, b, l, m
<1>9. /\ Len(q.buffer) = HeaderLength + Len(out.bl)
      /\ q.buffer[1] = Plan[m].type /\ PacketLength(q.buffer) = Len(q.buffer)
      /\ q.buffer[4] = (out.number + 1) % IdModulus
      /\ PacketData(q.buffer) = out.bl
      /\ IsLast(q.buffer)
      /\ HasBit(q.buffer[2], Status.IGNORE) <=> msg[m].ignore
      /\ HasBit(q.buffer[2], Status.RESETCONNECTION) <=> Plan[m].reset
  <2> DEFINE k == out.number + 1
             d == out.bl
  <2> DEFINE v == TRUE
             z == Packet(m, k, v, d)
  <2>0. msg[m].ignore \in BOOLEAN
    BY <1>7
  <2>1. v \in BOOLEAN /\ m \in Messages /\ k \in Nat /\ d \in Buffers
    BY <1>1, <1>3
  <2>10. v
    OBVIOUS
  <2>2. q.buffer = z
    BY <1>5 DEF b
  <2> HIDE DEF k, d, v
  <2>4. Len(z) = HeaderLength + Len(d) /\ PacketLength(z) = Len(z)
    BY <2>0, <2>1, PacketIs
  <2>8. z[1] = Plan[m].type /\ z[4] = k % IdModulus
    BY <2>0, <2>1, PacketIs
  <2>9. PacketData(z) = d
    BY <2>0, <2>1, PacketIs
  <2>5. IsLast(z) <=> v
    BY <2>0, <2>1, PacketIs
  <2>6. HasBit(z[2], Status.IGNORE) <=> v /\ msg[m].ignore
    BY <2>0, <2>1, PacketIs
  <2>7. HasBit(z[2], Status.RESETCONNECTION) <=> Plan[m].reset
    BY <2>0, <2>1, PacketIs
  <2> HIDE DEF z
  <2>3. /\ Len(q.buffer) = HeaderLength + Len(d)
        /\ q.buffer[1] = Plan[m].type /\ PacketLength(q.buffer) = Len(q.buffer)
        /\ q.buffer[4] = k % IdModulus
        /\ PacketData(q.buffer) = d
        /\ IsLast(q.buffer)
        /\ HasBit(q.buffer[2], Status.IGNORE) <=> msg[m].ignore
        /\ HasBit(q.buffer[2], Status.RESETCONNECTION) <=> Plan[m].reset
    BY <2>0, <2>1, <2>2, <2>4, <2>5, <2>6, <2>7, <2>8, <2>9, <2>10
  <2> QED
    BY <2>3 DEF k, d
<1>10. End(q) = Packed + Len(out.bl)
  <2>1. End(q) = Packed + (HeaderLength + Len(out.bl)) - HeaderLength
    BY <1>5, <1>9 DEF End
  <2> QED
    BY <1>3, <2>1 DEF HeaderLength
<1>11. Framed(q)
  <2>1. Len(q.buffer) >= HeaderLength /\ Len(q.buffer) - HeaderLength <= l
    BY <1>3, <1>9 DEF HeaderLength
  <2> QED
    BY <1>3, <1>5, <1>9, <2>1 DEF Framed
<1> QED
  BY <1>2, <1>5, <1>6, <1>8, <1>9, <1>10, <1>11 DEF q, b, l, m

-------------------------------------------------------------------------------
(* Every step keeps the turns and what the stream has of the message in _write.  *)

Steady ==
  /\ log' = log /\ out'.current = out.current /\ out'.next = out.next /\ out'.limit = out.limit
  /\ out'.number = out.number /\ out'.bl = out.bl

LEMMA OutSteps ==
  ASSUME Inv, Next
  PROVE  StartMessage \/ (OnData /\ ~msg[out.current].ignore) \/ OnEnd \/ Steady
<1>0. TypeOK
  BY DEF Inv
<1>1. ASSUME UNCHANGED <<out, log>>
      PROVE  Steady
  BY <1>1 DEF Steady
<1>2. ASSUME NEW n \in PacketSizes, SetPacketSize(n)
      PROVE  Steady
  <2>1. out' = [out EXCEPT !.size = n] /\ log' = log
    BY <1>2 DEF SetPacketSize
  <2> QED
    BY <1>0, <2>1, TypesAre DEF Steady, OutType
<1>3. ASSUME SocketReads
      PROVE  Steady
  <2> DEFINE p == out.paused /\ Held(Tail(out.ready)) >= HighWater
  <2>1. out' = [out EXCEPT !.ready = Tail(out.ready), !.paused = p] /\ log' = log
    BY <1>3 DEF SocketReads
  <2> HIDE DEF p
  <2> QED
    BY <1>0, <2>1, TypesAre DEF Steady, OutType
<1>4. ASSUME OnData, msg[out.current].ignore
      PROVE  Steady
  BY <1>1, <1>4, DataIs
<1>5. ASSUME NEW m \in Messages, WriterStep(m)
      PROVE  Steady
  BY <1>1, <1>5, WriterKeeps
<1>6. (\E n \in 1 .. Len(wire) : Transform(n)) \/ ProcessPacket \/ WaitForChunk \/ ReadChunk \/ Drained \/ MessageEnds
        => UNCHANGED <<out, log>>
  BY Zenon DEF Transform, ProcessPacket, WaitForChunk, ReadChunk, Drained, MessageEnds
<1> QED
  BY <1>1, <1>2, <1>3, <1>4, <1>5, <1>6 DEF Next, WriterStep

\* What of a message is no longer held changes only where OnData takes a chunk of it.
LEMMA NthSame ==
  ASSUME Inv, Next, NEW k \in Messages, OnData => k # out.current
  PROVE  /\ msg'[k].n - Len(msg'[k].buffer) = msg[k].n - Len(msg[k].buffer)
         /\ msg[k].n \in Nat /\ Len(msg[k].buffer) \in Nat /\ msg'[k].n \in Nat /\ Len(msg'[k].buffer) \in Nat
         /\ Nth(k, 0)' = Nth(k, 0)
<1>0. TypeOK /\ msg[k] \in MsgType /\ msg[k].n \in Nat /\ Len(msg[k].buffer) \in Nat
  BY MsgIs DEF Inv, MsgType
<1>1. ASSUME NEW m \in Messages, WriterStep(m), m # k
      PROVE  msg'[k] = msg[k]
  BY <1>1, WriterDoes, Zenon DEF Only, WriterStep
<1>2. SUFFICES /\ msg'[k].n - Len(msg'[k].buffer) = msg[k].n - Len(msg[k].buffer)
               /\ msg'[k].n \in Nat /\ Len(msg'[k].buffer) \in Nat
  <2>1. ASSUME /\ msg'[k].n - Len(msg'[k].buffer) = msg[k].n - Len(msg[k].buffer)
               /\ msg'[k].n \in Nat /\ Len(msg'[k].buffer) \in Nat
        PROVE  Nth(k, 0)' = Nth(k, 0)
    BY <2>1 DEF Nth
  <2> QED
    BY <1>0, <2>1
<1>3. ASSUME msg'[k] = msg[k]
      PROVE  /\ msg'[k].n - Len(msg'[k].buffer) = msg[k].n - Len(msg[k].buffer)
             /\ msg'[k].n \in Nat /\ Len(msg'[k].buffer) \in Nat
  BY <1>0, <1>3
<1>4. ASSUME msg'[k].n = msg[k].n, msg'[k].buffer = msg[k].buffer
      PROVE  /\ msg'[k].n - Len(msg'[k].buffer) = msg[k].n - Len(msg[k].buffer)
             /\ msg'[k].n \in Nat /\ Len(msg'[k].buffer) \in Nat
  BY <1>0, <1>4
<1>5. CASE OnData
  BY <1>3, <1>5, DataDoes DEF Only
<1>6. CASE WriterStep(k)
  <2>1. CASE WriteChunk(k)
    <3> DEFINE c == Text(k, Size(k, msg[k].n), Size(k, msg[k].n + 1))
               b == Append(msg[k].buffer, c)
    <3>1. msg'[k] = [msg[k] EXCEPT !.n = msg[k].n + 1, !.buffer = b] /\ c \in Buffers
      BY <2>1, WriterDoes, WritesIt, Zenon DEF Only
    <3>2. msg[k].buffer \in Seq(Buffers)
      BY <1>0 DEF MsgType
    <3> HIDE DEF c
    <3>3. Len(b) = Len(msg[k].buffer) + 1
      BY <3>1, <3>2, AppendProperties
    <3> HIDE DEF b
    <3>4. msg'[k].n = msg[k].n + 1 /\ msg'[k].buffer = b
      BY <1>0, <3>1 DEF MsgType
    <3> DEFINE n == msg[k].n
               l == Len(msg[k].buffer)
    <3>5. n \in Nat /\ l \in Nat /\ msg'[k].n = n + 1 /\ Len(msg'[k].buffer) = l + 1
      BY <1>0, <3>3, <3>4
    <3> HIDE DEF n, l
    <3>6. msg'[k].n - Len(msg'[k].buffer) = n - l /\ msg'[k].n \in Nat /\ Len(msg'[k].buffer) \in Nat
      BY <3>5
    <3> QED
      BY <3>6 DEF n, l
  <2>2. CASE OpenMessage(k)
    <3>1. msg'[k] = [msg[k] EXCEPT !.opened = TRUE]
      BY <2>2, WriterDoes, Zenon DEF Only
    <3> QED
      BY <1>0, <1>4, <3>1 DEF MsgType
  <2>3. CASE EndMessage(k)
    <3>1. msg'[k] = [msg[k] EXCEPT !.ended = TRUE]
      BY <2>3, WriterDoes, Zenon DEF Only
    <3> QED
      BY <1>0, <1>4, <3>1 DEF MsgType
  <2>4. CASE FinishMessage(k)
    <3>1. msg'[k] = [msg[k] EXCEPT !.finished = TRUE]
      BY <2>4, WriterDoes, Zenon DEF Only
    <3> QED
      BY <1>0, <1>4, <3>1 DEF MsgType
  <2>5. CASE GiveUpMessage(k)
    <3>1. msg'[k] = [msg[k] EXCEPT !.ended = TRUE, !.ignore = TRUE]
      BY <2>5, WriterDoes, Zenon DEF Only
    <3> QED
      BY <1>0, <1>4, <3>1 DEF MsgType
  <2> QED
    BY <1>6, <2>1, <2>2, <2>3, <2>4, <2>5 DEF WriterStep
<1> QED
  BY <1>1, <1>3, <1>5, <1>6, MsgSteps

\* A message that was not begun keeps all its writes until it is.
LEMMA AllHeld ==
  ASSUME Inv, Next, NEW k \in Messages, OnData => k # out.current, Len(msg[k].buffer) = msg[k].n
  PROVE  Len(msg'[k].buffer) = msg'[k].n
BY NthSame

\* What there is of a message only grows.
LEMMA SizeGrows ==
  ASSUME Inv, Next, NEW k \in Messages
  PROVE  /\ msg[k].n \in 0 .. msg'[k].n /\ msg'[k].n \in 0 .. Len(Plan[k].writes)
         /\ Size(k, msg[k].n) \in Nat /\ Size(k, msg'[k].n) \in Nat /\ Len(Plan[k].writes) \in Nat
         /\ Size(k, msg[k].n) <= Size(k, msg'[k].n)
<1>1. msg[k].n \in Nat /\ msg'[k].n \in Nat /\ msg[k].n <= msg'[k].n /\ Len(Plan[k].writes) \in Nat
  BY MsgAfter, PlanIs
<1>2. msg'[k].n <= Len(Plan[k].writes)
  BY MessageStep DEF MessageInv, MessageOk
<1>3. msg[k].n \in 0 .. msg'[k].n /\ msg'[k].n \in 0 .. Len(Plan[k].writes)
  BY <1>1, <1>2
<1> QED
  BY <1>1, <1>3, SizeIs

LEMMA TurnStep ==
  ASSUME Inv, Next
  PROVE  TurnInv'
<1>0. TypeOK /\ TurnInv /\ Sent \in Nat /\ Len(Plan) \in Nat /\ Messages = 1 .. Len(Plan)
  <2>1. CASE log = <<>>
    BY <2>1, PlanIs DEF Inv, Sent
  <2>2. CASE log # <<>>
    <3>1. Len(log) \in 1 .. Len(log)
      BY <2>2, LogIs, EmptySeq DEF Inv, TypeOK
    <3>2. log[Len(log)].m \in Nat \ {0}
      BY <3>1, LogIs DEF Inv
    <3> QED
      BY <3>2, PlanIs DEF Inv, Sent
  <2> QED
    BY <2>1, <2>2
<1>1. /\ out.current \in {0, Sent + 1} /\ out.next = Sent + (IF out.current = 0 THEN 1 ELSE 2)
      /\ out.next \in 1 .. Len(Plan) + 1
      /\ out.current = 0 => out.bl = <<>> /\ (log = <<>> \/ IsLast(log[Len(log)].buffer))
      /\ \A m \in Messages : m < out.next => msg[m].opened
      /\ \A m \in Messages : m >= out.next => Len(msg[m].buffer) = msg[m].n
  BY <1>0 DEF TurnInv
<1>2. ASSUME out'.next = out.next, OnData => out.current < out.next
      PROVE  /\ \A m \in Messages : m < out'.next => msg'[m].opened
             /\ \A m \in Messages : m >= out'.next => Len(msg'[m].buffer) = msg'[m].n
  <2> SUFFICES ASSUME NEW m \in Messages
               PROVE  /\ m < out'.next => msg'[m].opened
                      /\ m >= out'.next => Len(msg'[m].buffer) = msg'[m].n
    OBVIOUS
  <2>1. m < out.next => msg'[m].opened
    BY <1>1, MsgAfter
  <2>2. ASSUME m >= out.next
        PROVE  Len(msg'[m].buffer) = msg'[m].n
    <3>1. OnData => m # out.current
      BY <1>0, <1>1, <1>2, <2>2, PlanIs
    <3> QED
      BY <1>1, <2>2, <3>1, AllHeld
  <2> QED
    BY <1>2, <2>1, <2>2
<1>3. ASSUME out.current # 0
      PROVE  out.current < out.next
  BY <1>0, <1>1, <1>3
<1>4. OnData => out.current # 0
  BY DEF OnData
<1>5. CASE Steady
  <2>1. Sent' = Sent
    BY <1>5 DEF Sent, Steady
  <2> QED
    BY <1>1, <1>2, <1>3, <1>4, <1>5, <2>1 DEF TurnInv, Steady
<1>6. CASE StartMessage
  <2>1. /\ out.current = 0 /\ out.next \in Messages /\ msg[out.next].opened
        /\ out' = [out EXCEPT !.current = out.next, !.next = out.next + 1, !.number = 0, !.paused = FALSE,
                              !.limit = out.size - HeaderLength]
        /\ msg' = msg /\ log' = log
    BY <1>6 DEF StartMessage
  <2>2. out'.current = out.next /\ out'.next = out.next + 1 /\ out'.bl = out.bl
    BY <1>0, <2>1, TypesAre DEF OutType
  <2>3. Sent' = Sent
    BY <2>1 DEF Sent
  <2>4. out'.current = Sent + 1 /\ out'.current # 0 /\ out'.next = Sent + 2 /\ out'.next \in 1 .. Len(Plan) + 1
    BY <1>0, <1>1, <2>1, <2>2
  <2>5. /\ \A m \in Messages : m < out.next + 1 => msg[m].opened
        /\ \A m \in Messages : m >= out.next + 1 => Len(msg[m].buffer) = msg[m].n
    <3>1. \A m \in Messages : m < out.next + 1 => m < out.next \/ m = out.next
      BY <1>0, <1>1
    <3>2. \A m \in Messages : m >= out.next + 1 => m >= out.next
      BY <1>0, <1>1
    <3> QED
      BY <1>1, <2>1, <3>1, <3>2
  <2> QED
    BY <2>1, <2>2, <2>3, <2>4, <2>5 DEF TurnInv
<1>7. CASE OnData /\ ~msg[out.current].ignore
  <2>1. /\ out.current # 0
        /\ out' = [out EXCEPT !.bl = Rest, !.number = out.number + Count, !.ready = out.ready \o Made,
                              !.paused = Count > 0 /\ Full(Made)]
    BY <1>7, DataIs
  <2>2. out'.current = out.current /\ out'.next = out.next
    BY <1>0, <2>1, TypesAre DEF OutType
  <2>3. out.current = Sent + 1
    BY <2>1, CurrentIs
  <2>4. /\ Count \in Nat /\ Len(log') = Len(log) + Count /\ Len(log) \in Nat
        /\ \A i \in 1 .. Len(log) : log'[i] = log[i]
        /\ \A i \in 1 .. Count : /\ log'[Len(log) + i].m = out.current
                                 /\ ~IsLast(log'[Len(log) + i].buffer)
    BY <1>7, DataPackets
  <2>5. Sent' = Sent
    <3>1. CASE Count = 0
      <4>1. Len(log') = Len(log)
        BY <2>4, <3>1
      <4>2. log' \in Seq(LogType) /\ log \in Seq(LogType)
        BY <1>0, <1>7, DataDoes, TypesAre
      <4>3. log' = log
        BY <2>4, <4>1, <4>2, SeqEqual
      <4> QED
        BY <4>3 DEF Sent
    <3>2. CASE Count # 0
      <4>1. Count \in 1 .. Count
        BY <2>4, <3>2
      <4>2. log'[Len(log')].m = out.current /\ ~IsLast(log'[Len(log')].buffer)
        BY <2>4, <4>1
      <4>3. log' # <<>>
        <5>1. Len(log') # 0
          BY <2>4, <3>2
        <5> QED
          BY <5>1
      <4>4. Sent' = out.current - 1
        BY <4>2, <4>3 DEF Sent
      <4> QED
        BY <1>0, <2>3, <4>4
    <3> QED
      BY <3>1, <3>2
  <2> QED
    BY <1>1, <1>2, <1>3, <2>1, <2>2, <2>5 DEF TurnInv
<1>8. CASE OnEnd
  <2> DEFINE b == Packet(out.current, out.number + 1, TRUE, out.bl)
  <2>1. /\ out.current # 0 /\ msg' = msg
        /\ out' = [out EXCEPT !.bl = <<>>, !.current = 0, !.ready = Append(out.ready, b)]
    BY <1>8, EndDoes
  <2> HIDE DEF b
  <2>2. out'.current = 0 /\ out'.next = out.next /\ out'.bl = <<>>
    BY <1>0, <2>1, TypesAre DEF OutType
  <2>3. out.current = Sent + 1 /\ out.next = out.current + 1
    BY <2>1, CurrentIs
  <2>4. /\ Len(log') = Len(log) + 1 /\ Len(log) \in Nat
        /\ log'[Len(log) + 1].m = out.current /\ IsLast(log'[Len(log) + 1].buffer)
    BY <1>8, EndPacket
  <2>5. log' # <<>> /\ log'[Len(log')].m = out.current /\ IsLast(log'[Len(log')].buffer)
    <3>1. Len(log') # 0
      BY <2>4
    <3> QED
      BY <2>4, <3>1
  <2>6. Sent' = out.current
    BY <2>5 DEF Sent
  <2>7. out'.next = Sent' + 1
    BY <2>2, <2>3, <2>6
  <2> QED
    BY <1>1, <2>1, <2>2, <2>5, <2>7 DEF TurnInv
<1> QED
  BY <1>5, <1>6, <1>7, <1>8, OutSteps

\* What WriterInv says of a step to a state with message k in _write.
LEMMA WriterFrom ==
  ASSUME Inv, Next, NEW k \in Messages, out'.current = k,
         out'.limit + HeaderLength \in PacketSizes, Len(out'.bl) <= out'.limit,
         out'.bl = Text(k, Packed', Packed' + Len(out'.bl)),
         Packed' + Len(out'.bl) <= Size(k, msg'[k].n),
         ~msg'[k].ignore => Packed' + Len(out'.bl) = Size(k, msg'[k].n - Len(msg'[k].buffer)),
         IF log' = <<>> \/ log'[Len(log')].m # k THEN out'.number = 0
         ELSE /\ log'[Len(log')].limit = out'.limit
              /\ log'[Len(log')].from + out'.limit = Packed'
              /\ log'[Len(log')].buffer[4] = out'.number % IdModulus
  PROVE  WriterInv'
<1>1. Nth(out.current, 0)' = msg'[k].n - Len(msg'[k].buffer)
  <2>1. TypeOK'
    BY Types
  <2>2. msg'[k].n \in Nat /\ Len(msg'[k].buffer) \in Nat
    BY <2>1, TypesAre DEF TypeOK
  <2>3. msg'[k].n - Len(msg'[k].buffer) + 0 = msg'[k].n - Len(msg'[k].buffer)
    BY <2>2
  <2> QED
    BY <2>3 DEF Nth
<1>2. /\ Size(out.current, Nth(out.current, 0))' = Size(k, msg'[k].n - Len(msg'[k].buffer))
      /\ Size(out.current, msg[out.current].n)' = Size(k, msg'[k].n)
  BY <1>1 DEF Size
<1> QED
  BY <1>2 DEF WriterInv

LEMMA WriterInvStep ==
  ASSUME Inv, Next
  PROVE  WriterInv'
<1>0. TypeOK /\ TurnInv /\ WriterInv /\ TypeOK'
  BY Types DEF Inv
<1> DEFINE m == out.current
<1>1. CASE OnData /\ ~msg[m].ignore
  <2> DEFINE n == Count
             l == out.limit
  <2>1. /\ m # 0 /\ m \in Messages /\ msg[m].buffer # <<>>
        /\ out' = [out EXCEPT !.bl = Rest, !.number = out.number + n, !.ready = out.ready \o Made,
                              !.paused = n > 0 /\ Full(Made)]
        /\ Tail(msg[m].buffer) \in Seq(Buffers)
    BY <1>1, DataIs
  <2>2. /\ out'.current = m /\ out'.limit = l /\ out'.bl = Rest /\ out'.number = out.number + n
    BY <1>0, <2>1, TypesAre DEF OutType
  <2>3. /\ l \in Nat \ {0} /\ l + HeaderLength \in PacketSizes /\ Packed \in Nat
        /\ n \in Nat /\ n * l \in 0 .. Len(Joint) /\ Len(Joint) \in Nat
        /\ Len(Rest) = Len(Joint) - n * l /\ Len(Rest) <= l
    BY <2>1, CurrentIs, JointIs
  <2>4. /\ Packed + Len(Joint) = Size(m, Nth(m, 1))
        /\ Rest = Text(m, Packed + n * l, Packed + Len(Joint))
    BY <1>1, <2>1, JointText
  <2>5. Packed' = Packed + n * l
    <3>1. out.number \in Nat
      BY <1>0, OutIs
    <3>2. (out.number + n) * l = out.number * l + n * l
      BY <2>3, <3>1, Products
    <3> QED
      BY <2>2, <3>2 DEF Packed
  <2>6. Packed' + Len(Rest) = Packed + Len(Joint)
    <3> DEFINE x == n * l
               j == Len(Joint)
    <3>1. x \in Nat /\ j \in Nat /\ Packed' = Packed + x /\ Len(Rest) = j - x /\ Packed \in Nat
      BY <2>3, <2>5
    <3> HIDE DEF x, j
    <3>2. (Packed + x) + (j - x) = Packed + j
      BY <3>1
    <3> QED
      BY <3>1, <3>2 DEF j
  <2>7. out'.bl = Text(m, Packed', Packed' + Len(Rest))
    BY <2>2, <2>4, <2>5, <2>6
  <2>8. msg'[m] = [msg[m] EXCEPT !.buffer = Tail(msg[m].buffer)] /\ msg[m] \in MsgType
    BY <1>0, <1>1, <2>1, DataDoes, MsgIs DEF Only, MsgType
  <2>9. msg'[m].n = msg[m].n /\ msg'[m].buffer = Tail(msg[m].buffer) /\ msg[m].buffer \in Seq(Buffers) /\ msg[m].n \in Nat
    BY <2>8 DEF MsgType
  <2>10. Len(Tail(msg[m].buffer)) = Len(msg[m].buffer) - 1 /\ Len(msg[m].buffer) \in Nat
    BY <2>1, <2>9, HeadTailProperties
  <2>11. Nth(m, 0)' = Nth(m, 1)
    <3> DEFINE a == msg[m].n
               b == Len(msg[m].buffer)
    <3>1. a \in Nat /\ b \in Nat /\ msg'[m].n = a /\ Len(msg'[m].buffer) = b - 1
      BY <2>9, <2>10
    <3> HIDE DEF a, b
    <3>2. a - (b - 1) + 0 = a - b + 1
      BY <3>1
    <3>3. msg'[m].n - Len(msg'[m].buffer) + 0 = a - b + 1
      BY <3>1, <3>2
    <3>4. m' = m
      BY <2>2
    <3> QED
      BY <3>3, <3>4 DEF Nth, a, b
  <2>12. Size(m, Nth(m, 1)) <= Size(m, msg[m].n)
    BY <2>1, ChunkIs
  <2>13. /\ Len(log') = Len(log) + n /\ Len(log) \in Nat
         /\ \A i \in 1 .. Len(log) : log'[i] = log[i]
         /\ \A i \in 1 .. n :
              LET q == log'[Len(log) + i] IN
              /\ q.m = m /\ q.limit = l /\ q.from = (out.number + i - 1) * l
              /\ q.buffer[4] = (out.number + i) % IdModulus
    BY <1>1, DataPackets
  <2>14. IF log' = <<>> \/ log'[Len(log')].m # m THEN out'.number = 0
         ELSE /\ log'[Len(log')].limit = l
              /\ log'[Len(log')].from + l = Packed'
              /\ log'[Len(log')].buffer[4] = out'.number % IdModulus
    <3>1. CASE n = 0
      <4>1. log' = log
        <5>1. Len(log') = Len(log)
          BY <2>13, <3>1
        <5>2. log' \in Seq(LogType) /\ log \in Seq(LogType)
          BY <1>0, <1>1, DataDoes, TypesAre
        <5> QED
          BY <2>13, <5>1, <5>2, SeqEqual
      <4>2. out'.number = out.number /\ Packed' = Packed
        <5>1. out.number \in Nat /\ out.number + 0 = out.number
          BY <1>0, OutIs
        <5>2. out'.number = out.number
          BY <2>2, <3>1, <5>1
        <5> QED
          BY <2>2, <5>2 DEF Packed
      <4> QED
        BY <1>0, <2>1, <4>1, <4>2 DEF WriterInv
    <3>2. CASE n # 0
      <4>1. n \in 1 .. n /\ Len(log') # 0
        BY <2>3, <2>13, <3>2
      <4>2. log' # <<>>
        BY <4>1
      <4>3. /\ log'[Len(log')].m = m /\ log'[Len(log')].limit = l
            /\ log'[Len(log')].from = (out.number + n - 1) * l
            /\ log'[Len(log')].buffer[4] = (out.number + n) % IdModulus
        BY <2>13, <4>1
      <4>4. (out.number + n - 1) * l + l = Packed'
        <5> DEFINE k == out.number + n - 1
        <5>1. n \in Nat \ {0} /\ out.number \in Nat
          BY <1>0, <2>3, <3>2, OutIs
        <5> HIDE DEF n
        <5>2. k \in Nat /\ out.number + n = k + 1
          BY <5>1
        <5>3. (k + 1) * l = k * l + l
          <6>1. k \in Nat /\ 1 \in Nat /\ l \in Nat /\ 1 * l = l
            BY <2>3, <5>2
          <6> HIDE DEF k, l
          <6> QED
            BY <6>1, Products
        <5>4. Packed' = (k + 1) * l
          <6> HIDE DEF k
          <6> QED
            BY <2>2, <5>2 DEF Packed
        <5> QED
          BY <5>3, <5>4
      <4> QED
        BY <2>2, <4>2, <4>3, <4>4
    <3> QED
      BY <3>1, <3>2
  <2>15. Packed' + Len(Rest) = Size(m, Nth(m, 0)') /\ Packed' + Len(Rest) <= Size(m, msg'[m].n)
    BY <2>4, <2>6, <2>9, <2>11, <2>12
  <2> HIDE DEF m, n, l
  <2>16. out'.current = m /\ Size(out.current, Nth(out.current, 0))' = Size(m, Nth(m, 0)')
    BY <2>2 DEF Nth, Size, m
  <2> QED
    BY <2>2, <2>3, <2>7, <2>14, <2>15, <2>16 DEF WriterInv
<1>2. CASE StartMessage
  <2> DEFINE l == out.size - HeaderLength
  <2>0. out.next \in Messages
    BY <1>2 DEF StartMessage
  <2> PICK k \in Messages : k = out.next
    BY <2>0
  <2>1. /\ out.current = 0
        /\ out' = [out EXCEPT !.current = k, !.next = k + 1, !.number = 0, !.paused = FALSE, !.limit = l]
        /\ msg' = msg /\ log' = log
    BY <1>2 DEF StartMessage
  <2>2. out'.current = k /\ out'.number = 0 /\ out'.limit = l /\ out'.bl = out.bl
    BY <1>0, <2>1, TypesAre DEF OutType
  <2>3. /\ out.bl = <<>> /\ Len(msg[k].buffer) = msg[k].n /\ k = Sent + 1
        /\ (log = <<>> \/ IsLast(log[Len(log)].buffer))
    <3>1. k \in Nat
      BY PlanIs
    <3>2. k >= k
      BY <3>1
    <3> QED
      BY <1>0, <2>1, <3>2 DEF TurnInv
  <2>4. out.size \in PacketSizes /\ out.size \in Nat /\ l \in Nat \ {0} /\ l + HeaderLength = out.size
    <3>1. out.size \in PacketSizes
      BY <1>0, OutIs
    <3>2. out.size \in Nat /\ l \in Nat \ {0}
      BY <3>1, PlanIs
    <3> QED
      BY <3>1, <3>2 DEF HeaderLength
  <2> HIDE DEF l
  <2>5. Packed' = 0
    <3>1. 0 * l = 0
      BY <2>4
    <3> QED
      BY <2>2, <3>1 DEF Packed
  <2>6. msg[k].n \in Nat /\ k \in Nat
    BY <1>0, MsgIs, PlanIs
  <2>7. msg'[k].n - Len(msg'[k].buffer) = 0
    BY <2>1, <2>3, <2>6
  <2>8. Len(out'.bl) = 0 /\ out'.bl = Text(k, 0, 0)
    <3>1. Len(<<>>) = 0 /\ Text(k, 0, 0) = <<>>
      BY <2>6, TextEmpty
    <3> QED
      BY <2>2, <2>3, <3>1
  <2>9. Size(k, msg'[k].n) \in Nat /\ Size(k, 0) = 0
    BY SizeGrows DEF Size
  <2>10. log = <<>> \/ log[Len(log)].m # k
    <3> SUFFICES ASSUME log # <<>>
                 PROVE  log[Len(log)].m # k
      OBVIOUS
    <3>1. Len(log) \in 1 .. Len(log)
      BY <1>0, LogIs, EmptySeq DEF TypeOK
    <3>2. log[Len(log)].m \in Nat
      BY <1>0, <3>1, LogIs
    <3> QED
      BY <2>3, <3>2 DEF Sent
  <2>11. 0 + 0 = 0 /\ 0 <= l
    BY <2>4
  <2> QED
    BY <2>1, <2>2, <2>4, <2>5, <2>7, <2>8, <2>9, <2>10, <2>11, WriterFrom
<1>3. CASE OnEnd
  <2>1. /\ out' = [out EXCEPT !.bl = <<>>, !.current = 0,
                      !.ready = Append(out.ready, Packet(out.current, out.number + 1, TRUE, out.bl))]
    BY <1>3, EndDoes
  <2>2. out'.current = 0
    BY <1>0, <2>1, TypesAre DEF OutType
  <2> QED
    BY <2>2 DEF WriterInv
<1>4. CASE Steady /\ ~(OnData /\ ~msg[m].ignore)
  <2> SUFFICES ASSUME out.current # 0
               PROVE  WriterInv'
    BY <1>4 DEF Steady, WriterInv
  <2>1. out.current \in Messages
    BY CurrentIs
  <2> HIDE DEF m
  <2> PICK k \in Messages : k = out.current
    BY <2>1
  <2>2. /\ log' = log /\ out'.current = k /\ out'.limit = out.limit /\ out'.number = out.number /\ out'.bl = out.bl
        /\ Packed' = Packed
    BY <1>4 DEF Steady, Packed
  <2>3. /\ out.limit + HeaderLength \in PacketSizes
        /\ Len(out.bl) <= out.limit
        /\ out.bl = Text(k, Packed, Packed + Len(out.bl))
        /\ Packed + Len(out.bl) <= Size(k, msg[k].n)
        /\ ~msg[k].ignore => Packed + Len(out.bl) = Size(k, Nth(k, 0))
        /\ IF log = <<>> \/ log[Len(log)].m # k THEN out.number = 0
           ELSE /\ log[Len(log)].limit = out.limit
                /\ log[Len(log)].from + out.limit = Packed
                /\ log[Len(log)].buffer[4] = out.number % IdModulus
    BY <1>0 DEF WriterInv
  <2>4. Packed + Len(out.bl) <= Size(k, msg'[k].n)
    <3>1. Packed \in Nat /\ Len(out.bl) \in Nat
      BY CurrentIs
    <3>2. Size(k, msg[k].n) \in Nat /\ Size(k, msg'[k].n) \in Nat /\ Size(k, msg[k].n) <= Size(k, msg'[k].n)
      BY SizeGrows
    <3> QED
      BY <2>3, <3>1, <3>2
  <2>5. ~msg'[k].ignore => Packed + Len(out.bl) = Size(k, msg'[k].n - Len(msg'[k].buffer))
    <3> SUFFICES ASSUME ~msg'[k].ignore
                 PROVE  Packed + Len(out.bl) = Size(k, msg'[k].n - Len(msg'[k].buffer))
      OBVIOUS
    <3>1. ~msg[k].ignore
      BY MsgAfter
    <3>2. ~OnData
      BY <1>4, <3>1 DEF m
    <3>3. /\ msg'[k].n - Len(msg'[k].buffer) = msg[k].n - Len(msg[k].buffer)
          /\ msg[k].n \in Nat /\ Len(msg[k].buffer) \in Nat
      BY <3>2, NthSame
    <3>4. Nth(k, 0) = msg[k].n - Len(msg[k].buffer)
      <4>1. msg[k].n - Len(msg[k].buffer) + 0 = msg[k].n - Len(msg[k].buffer)
        BY <3>3
      <4> QED
        BY <4>1 DEF Nth
    <3> QED
      BY <2>3, <3>1, <3>3, <3>4
  <2> QED
    BY <2>2, <2>3, <2>4, <2>5, WriterFrom
<1> QED
  BY <1>1, <1>2, <1>3, <1>4, OutSteps

-------------------------------------------------------------------------------
(* Every step keeps the packets well framed and in order.                        *)

\* A packet made goes on carrying what it carried.
LEMMA CarriesKept ==
  ASSUME Inv, Next, NEW p, p.m \in Messages, End(p) \in Nat, Carries(p)
  PROVE  Carries(p)'
<1> DEFINE m == p.m
<1>1. m \in Messages
  OBVIOUS
<1>2. /\ PacketData(p.buffer) = Text(m, p.from, End(p))
      /\ msg[m].opened /\ End(p) <= Size(m, msg[m].n)
      /\ IsLast(p.buffer) => /\ msg[m].finished
                             /\ HasBit(p.buffer[2], Status.IGNORE) <=> msg[m].ignore
                             /\ ~msg[m].ignore => End(p) = Size(m, Len(Plan[m].writes))
  BY DEF Carries
<1> HIDE DEF m
<1>3. /\ msg'[m].opened /\ (msg[m].finished => msg'[m].finished /\ msg'[m].ignore = msg[m].ignore)
  BY <1>1, <1>2, MsgAfter
<1>4. End(p) <= Size(m, msg'[m].n)
  <2>1. Size(m, msg[m].n) \in Nat /\ Size(m, msg'[m].n) \in Nat /\ Size(m, msg[m].n) <= Size(m, msg'[m].n)
    BY <1>1, SizeGrows
  <2> QED
    BY <1>2, <2>1
<1>5. Size(p.m, msg[p.m].n)' = Size(m, msg'[m].n)
  BY DEF m, Size
<1> QED
  BY <1>2, <1>3, <1>4, <1>5 DEF Carries, m

\* A packet made now follows the last one made.
LEMMA NextFollows ==
  ASSUME Inv, out.current # 0, NEW q, q.m = out.current, q.limit = out.limit, q.from = Packed,
         q.buffer[4] = (out.number + 1) % IdModulus
  PROVE  /\ log = <<>> => q.m = 1 /\ First(q)
         /\ log # <<>> => Follows(log[Len(log)], q)
<1>1. /\ IF log = <<>> \/ log[Len(log)].m # out.current THEN out.number = 0
         ELSE /\ log[Len(log)].limit = out.limit
              /\ log[Len(log)].from + out.limit = Packed
              /\ log[Len(log)].buffer[4] = out.number % IdModulus
  BY DEF Inv, WriterInv
<1>2. out.current = Sent + 1 /\ out.limit \in Nat \ {0} /\ out.number \in Nat /\ IdModulus \in Nat \ {0}
  BY CurrentIs, OutIs, PlanIs DEF Inv
<1>3. ASSUME out.number = 0
      PROVE  First(q)
  <2> DEFINE l == out.limit
  <2>1. 0 * l = 0 /\ 0 + 1 = 1
    BY <1>2
  <2> QED
    BY <1>3, <2>1 DEF First, Packed
<1>4. CASE log = <<>>
  <2>1. Sent + 1 = 1
    BY <1>4 DEF Sent
  <2> QED
    BY <1>1, <1>2, <1>3, <1>4, <2>1
<1>5. CASE log # <<>>
  <2> DEFINE p == log[Len(log)]
  <2>1. Len(log) \in 1 .. Len(log)
    BY <1>5, LogIs, EmptySeq DEF Inv, TypeOK
  <2>2. /\ Framed(p) /\ p.m \in Messages /\ End(p) - p.from = Len(p.buffer) - HeaderLength /\ p.from \in Nat /\ End(p) \in Nat
    BY <2>1, PacketOf
  <2>3. p.m \in Nat
    BY <2>2, PlanIs
  <2>4. CASE IsLast(p.buffer)
    <3>1. out.current = p.m + 1
      BY <1>2, <1>5, <2>4 DEF Sent
    <3>2. p.m # out.current
      BY <2>3, <3>1
    <3> QED
      BY <1>1, <1>3, <1>5, <2>4, <3>1, <3>2 DEF Follows
  <2>5. CASE ~IsLast(p.buffer)
    <3>1. out.current = p.m - 1 + 1
      BY <1>2, <1>5, <2>5 DEF Sent
    <3>2. out.current = p.m
      BY <2>3, <3>1
    <3>3. p.limit = out.limit /\ p.from + out.limit = Packed /\ p.buffer[4] = out.number % IdModulus
      BY <1>1, <1>5, <3>2
    <3>4. Len(p.buffer) - HeaderLength = p.limit
      BY <2>2, <2>5 DEF Framed
    <3>5. q.from = End(p)
      <4> DEFINE e == End(p)
                 f == p.from
      <4>1. e \in Nat /\ f \in Nat /\ e - f = out.limit /\ f + out.limit = Packed
        BY <2>2, <3>3, <3>4
      <4> HIDE DEF e, f
      <4>2. e = Packed
        BY <1>2, <4>1
      <4> QED
        BY <4>2 DEF e
    <3>6. (out.number + 1) % IdModulus = (p.buffer[4] + 1) % IdModulus
      BY <1>2, <3>3, NextNumber
    <3> HIDE DEF p
    <3>7. Follows(p, q)
      BY <2>5, <3>2, <3>3, <3>5, <3>6 DEF Follows
    <3> QED
      BY <1>5, <3>7 DEF p
  <2> QED
    BY <2>4, <2>5
<1> QED
  BY <1>4, <1>5

\* Packets added behind those there are.
LEMMA LogExtends ==
  ASSUME Inv, Next, NEW n \in Nat, Len(log') = Len(log) + n,
         \A i \in 1 .. Len(log) : log'[i] = log[i],
         \A i \in 1 .. n : LET q == log'[Len(log) + i] IN Framed(q) /\ q.m = out.current /\ End(q) \in Nat /\ Carries(q),
         \A i \in 1 .. n : i > 1 => Follows(log'[Len(log) + i - 1], log'[Len(log) + i]),
         n > 0 => LET q == log'[Len(log) + 1] IN
                  /\ out.current # 0 /\ q.m = out.current /\ q.limit = out.limit /\ q.from = Packed
                  /\ q.buffer[4] = (out.number + 1) % IdModulus
  PROVE  LogInv'
<1> DEFINE k == Len(log)
<1>1. k \in Nat /\ DOMAIN log' = 1 .. k + n /\ DOMAIN log = 1 .. k
  <2>1. log' \in Seq(LogType)
    BY Types, TypesAre DEF TypeOK, LogType
  <2> QED
    BY <2>1, LogIs DEF Inv
<1>2. /\ \A i \in 1 .. k : Framed(log[i]) /\ Carries(log[i]) /\ log[i].m \in Messages /\ End(log[i]) \in Nat
  BY PacketOf
<1>3. /\ log # <<>> => log[1].m = 1 /\ First(log[1])
      /\ \A i \in 1 .. k : i > 1 => Follows(log[i - 1], log[i])
      /\ \A i \in 1 .. k : log[i].m <= log[k].m
  BY <1>1 DEF Inv, LogInv
<1>4. ASSUME n > 0
      PROVE  /\ k = 0 => log'[1].m = 1 /\ First(log'[1])
             /\ k > 0 => Follows(log[k], log'[k + 1])
  <2> PICK q : q = log'[k + 1]
    OBVIOUS
  <2>1. /\ out.current # 0 /\ q.m = out.current /\ q.limit = out.limit /\ q.from = Packed
        /\ q.buffer[4] = (out.number + 1) % IdModulus
    BY <1>4
  <2>2. /\ log = <<>> => q.m = 1 /\ First(q)
        /\ log # <<>> => Follows(log[k], q)
    BY <2>1, NextFollows
  <2>3. (k = 0 <=> log = <<>>) /\ (k = 0 => q = log'[1])
    BY <1>1, LogIs, EmptySeq DEF Inv, TypeOK
  <2> QED
    BY <1>1, <2>2, <2>3
<1>5. \A i \in 1 .. k + n : i \in 1 .. k \/ (i - k \in 1 .. n /\ k + (i - k) = i)
  BY <1>1
<1>6. ASSUME NEW i \in 1 .. k + n
      PROVE  Framed(log'[i]) /\ Carries(log[i])'
  <2> PICK p : p = log'[i]
    OBVIOUS
  <2>1. Framed(p) /\ p.m \in Messages /\ End(p) \in Nat /\ Carries(p)
    <3>1. CASE i \in 1 .. k
      BY <1>2, <3>1
    <3>2. CASE i - k \in 1 .. n /\ k + (i - k) = i
      <4> DEFINE j == i - k
      <4>1. j \in 1 .. n /\ log'[k + j] = p
        BY <3>2
      <4> HIDE DEF j
      <4>2. n > 0
        BY <4>1
      <4>3. out.current \in Messages
        BY <4>2, CurrentIs
      <4> QED
        BY <4>1, <4>3
    <3> QED
      BY <1>5, <3>1, <3>2
  <2>2. Carries(p)'
    BY <2>1, CarriesKept
  <2>3. Carries(log[i])' <=> Carries(p)'
    BY DEF Carries, Size, End
  <2> QED
    BY <2>1, <2>2, <2>3
<1>7. k + n > 0 => log'[1].m = 1 /\ First(log'[1])
  <2>1. CASE k = 0
    BY <1>4, <2>1
  <2>2. CASE k # 0
    <3>1. 1 \in 1 .. k /\ log # <<>>
      BY <1>1, <2>2
    <3> QED
      BY <1>3, <3>1
  <2> QED
    BY <2>1, <2>2
<1>8. ASSUME NEW i \in 1 .. k + n, i > 1
      PROVE  Follows(log'[i - 1], log'[i])
  <2>1. CASE i \in 1 .. k
    <3>1. i - 1 \in 1 .. k
      BY <1>8, <2>1
    <3> QED
      BY <1>3, <1>8, <2>1, <3>1
  <2>2. CASE i = k + 1
    <3>1. k \in 1 .. k /\ n > 0 /\ i - 1 = k
      BY <1>1, <1>8, <2>2
    <3> QED
      BY <1>4, <2>2, <3>1
  <2>3. CASE i > k + 1
    <3> DEFINE j == i - k
    <3>1. j \in 1 .. n /\ j > 1 /\ k + j = i /\ k + j - 1 = i - 1
      BY <1>1, <2>3
    <3> HIDE DEF j
    <3>2. Follows(log'[k + j - 1], log'[k + j])
      BY <3>1
    <3> QED
      BY <3>1, <3>2
  <2> QED
    BY <1>1, <2>1, <2>2, <2>3
<1>9. log' # <<>> => k + n > 0
  <2>1. Len(log') = k + n /\ log' \in Seq(LogType)
    BY Types, TypesAre DEF TypeOK, LogType
  <2> QED
    BY <1>1, <2>1, EmptySeq
<1>10. ASSUME NEW i \in 1 .. k + n
       PROVE  log'[i].m <= log'[k + n].m
  <2>1. CASE n = 0
    <3>1. i \in 1 .. k /\ k \in 1 .. k /\ k + n = k
      BY <1>1, <2>1
    <3> QED
      BY <1>3, <3>1
  <2>2. CASE n > 0
    <3>1. n \in 1 .. n
      BY <2>2
    <3>2. out.current = Sent + 1 /\ out.current \in Nat /\ log'[k + n].m = out.current
      BY <2>2, <3>1, CurrentIs, PlanIs
    <3>3. CASE i \in 1 .. k
      <4>1. k \in 1 .. k /\ log # <<>>
        BY <1>1, <3>3
      <4>2. log[i].m \in Nat /\ log[k].m \in Nat /\ log[i].m <= log[k].m
        BY <1>2, <1>3, <3>3, <4>1, PlanIs
      <4>3. Sent = log[k].m \/ Sent = log[k].m - 1
        BY <4>1 DEF Sent
      <4>4. log'[i] = log[i]
        BY <3>3
      <4> QED
        BY <3>2, <4>2, <4>3, <4>4
    <3>4. CASE i - k \in 1 .. n /\ k + (i - k) = i
      <4> DEFINE j == i - k
      <4>1. j \in 1 .. n /\ k + j = i
        BY <3>4
      <4> HIDE DEF j
      <4>2. log'[i].m = out.current
        BY <4>1
      <4> QED
        BY <3>2, <4>2
    <3> QED
      BY <1>5, <3>3, <3>4
  <2> QED
    BY <2>1, <2>2
<1> QED
  BY <1>1, <1>6, <1>7, <1>8, <1>9, <1>10 DEF LogInv

LEMMA LogStep ==
  ASSUME Inv, Next
  PROVE  LogInv'
<1>0. TypeOK /\ Len(log) \in Nat
  BY LogIs DEF Inv
<1>1. CASE log' = log
  <2>1. Len(log') = Len(log) + 0 /\ ~(0 > 0) /\ 1 .. 0 = {} /\ 0 \in Nat
    BY <1>0, <1>1
  <2> QED
    BY <1>1, <2>1, LogExtends, Zenon
<1>2. CASE OnData /\ ~msg[out.current].ignore
  <2> DEFINE n == Count
             m == out.current
             l == out.limit
             L == Len(log)
  <2>1. m # 0 /\ m \in Messages /\ msg[m].opened /\ l \in Nat \ {0} /\ Packed \in Nat /\ out.number \in Nat
    BY <1>0, <1>2, DataIs, CurrentIs, OutIs
  <2>2. /\ n \in Nat /\ Len(log') = L + n
        /\ \A i \in 1 .. L : log'[i] = log[i]
        /\ \A i \in 1 .. n :
              LET q == log'[L + i] IN
              /\ q.m = m /\ q.limit = l /\ q.from = (out.number + i - 1) * l
              /\ q.buffer[4] = (out.number + i) % IdModulus
              /\ Framed(q) /\ ~IsLast(q.buffer)
              /\ End(q) = (out.number + i) * l
              /\ PacketData(q.buffer) = Text(q.m, q.from, End(q))
              /\ End(q) <= Size(m, msg[m].n)
    BY <1>2, DataPackets
  <2> HIDE DEF n, l, L, m
  <2>3. \A i \in 1 .. n : LET q == log'[L + i] IN Framed(q) /\ q.m = m /\ End(q) \in Nat /\ Carries(q)
    <3> SUFFICES ASSUME NEW i \in 1 .. n
                 PROVE  LET q == log'[L + i] IN Framed(q) /\ q.m = m /\ End(q) \in Nat /\ Carries(q)
      OBVIOUS
    <3> DEFINE q == log'[L + i]
               k == out.number + i
    <3>1. /\ q.m = m /\ Framed(q) /\ ~IsLast(q.buffer) /\ End(q) = k * l
          /\ PacketData(q.buffer) = Text(q.m, q.from, End(q))
          /\ End(q) <= Size(m, msg[m].n)
      BY <2>2
    <3>2. k \in Nat /\ l \in Nat
      BY <2>1, <2>2
    <3> HIDE DEF q, k
    <3>3. End(q) \in Nat
      BY <3>1, <3>2, Products
    <3>4. Carries(q)
      BY <2>1, <3>1 DEF Carries
    <3> QED
      BY <2>1, <3>1, <3>3, <3>4 DEF q
  <2>4. ASSUME NEW i \in 1 .. n, i > 1
        PROVE  Follows(log'[L + i - 1], log'[L + i])
    <3> DEFINE p == log'[L + i - 1]
               q == log'[L + i]
               j == i - 1
               k == out.number + j
    <3>1. i \in Nat /\ j \in 1 .. n /\ L + j = L + i - 1 /\ out.number + i - 1 = k /\ out.number + i = k + 1 /\ k \in Nat
      <4>1. L \in Nat /\ n \in Nat /\ out.number \in Nat
        BY <1>0, <2>1, <2>2 DEF L
      <4> QED
        BY <2>4, <4>1
    <3>2. p.m = m /\ p.limit = l /\ ~IsLast(p.buffer) /\ End(p) = k * l /\ p.buffer[4] = k % IdModulus
      <4> HIDE DEF j
      <4> QED
        BY <2>2, <3>1
    <3>3. q.m = m /\ q.limit = l /\ q.from = k * l /\ q.buffer[4] = (k + 1) % IdModulus
      <4> HIDE DEF j, k
      <4> QED
        BY <2>2, <3>1
    <3> HIDE DEF p, q, j, k
    <3>4. (k + 1) % IdModulus = ((k % IdModulus) + 1) % IdModulus
      BY <3>1, NextNumber, PlanIs
    <3>5. Follows(p, q)
      BY <3>2, <3>3, <3>4 DEF Follows
    <3> QED
      BY <3>5 DEF p, q
  <2>5. ASSUME n > 0
        PROVE  LET q == log'[L + 1] IN
               /\ m # 0 /\ q.m = m /\ q.limit = l /\ q.from = Packed
               /\ q.buffer[4] = (out.number + 1) % IdModulus
    <3>1. 1 \in 1 .. n /\ out.number + 1 - 1 = out.number
      BY <2>1, <2>2, <2>5
    <3>2. out.number * l = Packed
      BY DEF Packed, l
    <3> QED
      BY <2>1, <2>2, <3>1, <3>2
  <2> QED
    BY <2>2, <2>3, <2>4, <2>5, LogExtends DEF L, m, l
<1>3. CASE OnEnd
  <2> DEFINE m == out.current
             L == Len(log)
             q == log'[L + 1]
  <2>1. m # 0 /\ m \in Messages /\ msg[m].finished /\ msg[m].opened /\ Packed \in Nat /\ Len(out.bl) \in Nat
    BY <1>0, <1>3, EndDoes, CurrentIs, OutIs
  <2>2. /\ Len(log') = L + 1
        /\ \A i \in 1 .. L : log'[i] = log[i]
        /\ q.m = m /\ q.limit = out.limit /\ q.from = Packed
        /\ q.buffer[4] = (out.number + 1) % IdModulus
        /\ Framed(q) /\ IsLast(q.buffer)
        /\ End(q) = Packed + Len(out.bl)
        /\ PacketData(q.buffer) = Text(q.m, q.from, End(q))
        /\ End(q) <= Size(m, msg[m].n)
        /\ HasBit(q.buffer[2], Status.IGNORE) <=> msg[m].ignore
        /\ ~msg[m].ignore => End(q) = Size(m, Len(Plan[m].writes))
    BY <1>3, EndPacket
  <2> HIDE DEF q, L, m
  <2>3. End(q) \in Nat /\ Carries(q)
    BY <2>1, <2>2 DEF Carries
  <2>4. \A i \in 1 .. 1 : i = 1 /\ ~(i > 1)
    OBVIOUS
  <2>5. 1 \in Nat
    OBVIOUS
  <2>6. \A i \in 1 .. 1 : log'[L + i] = q
    BY <2>4 DEF q
  <2> QED
    BY <2>1, <2>2, <2>3, <2>4, <2>5, <2>6, LogExtends DEF L, m, q
<1>4. StartMessage \/ Steady => log' = log
  BY DEF StartMessage, Steady
<1> QED
  BY <1>1, <1>2, <1>3, <1>4, OutSteps

-------------------------------------------------------------------------------
(* Every step keeps what is ready for the socket in step with the packets made.   *)

\* Packets that were made are made ready.
LEMMA ReadyExtends ==
  ASSUME Inv, Next, NEW n \in Nat, NEW packets \in Seq(Buffers), Len(packets) = n, out'.ready = out.ready \o packets,
         Len(log') = Len(log) + n, \A i \in 1 .. Len(log) : log'[i] = log[i],
         \A i \in 1 .. n : log'[Len(log) + i].buffer = packets[i]
  PROVE  ReadyInv' /\ Passed' = Passed
<1> DEFINE r == Len(out.ready)
           k == Len(log)
<1>1. /\ k \in Nat /\ r \in Nat /\ out.ready \in Seq(Buffers) /\ r <= k
      /\ \A j \in 1 .. r : out.ready[j] = log[k - r + j].buffer
  <2>1. k \in Nat /\ r \in Nat /\ out.ready \in Seq(Buffers)
    BY LogIs, OutIs DEF Inv
  <2>2. DOMAIN out.ready = 1 .. r
    BY <2>1
  <2> QED
    BY <2>1, <2>2 DEF Inv, ReadyInv, Passed
<1> DEFINE ready == out'.ready
<1>2. /\ ready \in Seq(Buffers) /\ Len(ready) = r + n
      /\ \A j \in 1 .. r : ready[j] = out.ready[j]
      /\ \A j \in 1 .. n : ready[r + j] = packets[j]
  <2> DEFINE old == out.ready
  <2>1. old \in Seq(Buffers)
    BY <1>1
  <2>2. ready = old \o packets
    OBVIOUS
  <2>3. Len(old) = r
    OBVIOUS
  <2> HIDE DEF old, ready
  <2>4. /\ old \o packets \in Seq(Buffers) /\ Len(old \o packets) = Len(old) + Len(packets)
        /\ \A j \in 1 .. Len(old) : (old \o packets)[j] = old[j]
        /\ \A j \in 1 .. Len(packets) : (old \o packets)[Len(old) + j] = packets[j]
    BY <2>1, ChunksJoined
  <2> QED
    BY <2>2, <2>3, <2>4 DEF old
<1>3. Passed' = k - r /\ Passed = k - r
  <2>1. Passed' = (k + n) - (r + n) /\ Passed = k - r
    BY <1>2 DEF Passed
  <2> HIDE DEF k, r
  <2> QED
    BY <1>1, <2>1
<1> HIDE DEF ready
<1>4. ASSUME NEW j \in 1 .. r + n
      PROVE  ready[j] = log'[k - r + j].buffer
  <2>1. CASE j \in 1 .. r
    <3>1. k - r + j \in 1 .. k
      BY <1>1, <2>1
    <3>2. log'[k - r + j] = log[k - r + j]
      BY <3>1
    <3> QED
      BY <1>1, <1>2, <2>1, <3>2
  <2>2. CASE j > r
    <3>0. \A i \in 1 .. n : log'[k + i].buffer = packets[i]
      OBVIOUS
    <3> HIDE DEF k, r
    <3> DEFINE i == j - r
    <3>1. i \in 1 .. n /\ j = r + i /\ k - r + j = k + i
      BY <1>1, <2>2
    <3> HIDE DEF i
    <3> QED
      BY <1>2, <3>0, <3>1
  <2>3. j \in 1 .. r \/ j > r
    <3> HIDE DEF k, r
    <3> QED
      BY <1>1
  <2> QED
    BY <2>1, <2>2, <2>3
<1>5. r + n <= k + n /\ DOMAIN ready = 1 .. r + n
  BY <1>1, <1>2
<1> QED
  BY <1>2, <1>3, <1>4, <1>5 DEF ReadyInv, ready

LEMMA SocketDoes ==
  ASSUME Inv, SocketReads
  PROVE  /\ out.ready # <<>> /\ Len(wire) < HighWater /\ wire' = wire \o Head(out.ready)
         /\ out'.ready = Tail(out.ready) /\ out'.current = out.current /\ out'.limit = out.limit
         /\ out'.paused = (out.paused /\ Held(Tail(out.ready)) >= HighWater)
         /\ UNCHANGED <<msg, inc, got, log>>
         /\ Passed' = Passed + 1 /\ Passed + 1 \in 1 .. Len(log) /\ Passed \in Nat
         /\ Head(out.ready) = log[Passed + 1].buffer /\ Head(out.ready) \in Buffers
         /\ ReadyInv'
<1> DEFINE r == Len(out.ready)
           k == Len(log)
           t == Tail(out.ready)
           p == out.paused /\ Held(t) >= HighWater
<1>1. /\ k \in Nat /\ r \in Nat /\ out.ready \in Seq(Buffers) /\ r <= k /\ out.ready # <<>>
      /\ \A j \in 1 .. r : out.ready[j] = log[k - r + j].buffer
  <2>1. k \in Nat /\ r \in Nat /\ out.ready \in Seq(Buffers) /\ out.ready # <<>>
    BY LogIs, OutIs DEF Inv, SocketReads
  <2>2. DOMAIN out.ready = 1 .. r
    BY <2>1
  <2> QED
    BY <2>1, <2>2 DEF Inv, ReadyInv, Passed
<1>2. /\ t \in Seq(Buffers) /\ Len(t) = r - 1 /\ r > 0 /\ \A j \in 1 .. r - 1 : t[j] = out.ready[j + 1]
      /\ Head(out.ready) = out.ready[1] /\ Head(out.ready) \in Buffers
  <2>1. r # 0
    BY <1>1, EmptySeq
  <2> QED
    BY <1>1, <2>1, HeadTailProperties
<1>3. out' = [out EXCEPT !.ready = t, !.paused = p] /\ log' = log
  BY DEF SocketReads
<1> HIDE DEF t
<1>4. /\ out'.ready = t /\ out'.current = out.current /\ out'.limit = out.limit /\ out'.paused = p
  <2> HIDE DEF p
  <2> QED
    BY <1>3, TypesAre DEF Inv, OutType
<1>5. Passed' = k - r + 1 /\ Passed = k - r
  <2>1. Passed' = k - (r - 1) /\ Passed = k - r
    BY <1>2, <1>3, <1>4 DEF Passed
  <2> HIDE DEF k, r
  <2> QED
    BY <1>1, <2>1
<1>6. Passed + 1 \in 1 .. k /\ Passed \in Nat
  <2> HIDE DEF k, r
  <2> QED
    BY <1>1, <1>2, <1>5
<1>7. Head(out.ready) = log[Passed + 1].buffer
  <2>1. 1 \in 1 .. r
    BY <1>1, <1>2
  <2> QED
    BY <1>1, <1>2, <1>5, <2>1
<1>8. ReadyInv'
  <2>1. \A j \in 1 .. r - 1 : t[j] = log[k - r + 1 + j].buffer
    <3> SUFFICES ASSUME NEW j \in 1 .. r - 1
                 PROVE  t[j] = log[k - r + 1 + j].buffer
      OBVIOUS
    <3>1. j + 1 \in 1 .. r /\ k - r + (j + 1) = k - r + 1 + j
      BY <1>1
    <3> QED
      BY <1>1, <1>2, <3>1
  <2>2. r - 1 <= k /\ DOMAIN t = 1 .. r - 1
    BY <1>1, <1>2
  <2> QED
    BY <1>2, <1>3, <1>4, <1>5, <2>1, <2>2 DEF ReadyInv
<1>9. /\ out.ready # <<>> /\ Len(wire) < HighWater /\ wire' = wire \o Head(out.ready)
      /\ UNCHANGED <<msg, inc, got, log>>
  BY DEF SocketReads
<1> QED
  BY <1>2, <1>4, <1>5, <1>6, <1>7, <1>8, <1>9 DEF t

\* What the socket has read changes only when it reads.
LEMMA ReadyStep ==
  ASSUME Inv, Next
  PROVE  /\ ReadyInv'
         /\ SocketReads \/ (Passed' = Passed /\ Passed \in Nat /\ \A i \in 1 .. Passed : log'[i] = log[i])
<1>0. TypeOK /\ out.ready \in Seq(Buffers) /\ Passed \in Nat /\ Passed <= Len(log) /\ Len(log) \in Nat /\ ReadyInv
  <2>1. TypeOK /\ ReadyInv
    BY DEF Inv
  <2>2. Len(log) \in Nat /\ Len(out.ready) \in Nat /\ out.ready \in Seq(Buffers)
    BY <2>1, LogIs, OutIs
  <2> QED
    BY <2>1, <2>2 DEF ReadyInv, Passed
<1>1. ASSUME out'.ready = out.ready, log' = log
      PROVE  ReadyInv' /\ Passed' = Passed
  <2>1. Passed' = Passed
    BY <1>1 DEF Passed
  <2> QED
    BY <1>0, <1>1, <2>1 DEF ReadyInv
<1>2. ASSUME Passed' = Passed, \A i \in 1 .. Len(log) : log'[i] = log[i]
      PROVE  Passed' = Passed /\ Passed \in Nat /\ \A i \in 1 .. Passed : log'[i] = log[i]
  <2>1. \A i \in 1 .. Passed : i \in 1 .. Len(log)
    BY <1>0
  <2> QED
    BY <1>0, <1>2, <2>1
<1>3. CASE SocketReads
  BY <1>3, SocketDoes
<1>4. CASE OnData /\ ~msg[out.current].ignore
  <2>1. /\ out.current # 0 /\ msg[out.current].buffer # <<>>
        /\ out' = [out EXCEPT !.bl = Rest, !.number = out.number + Count, !.ready = out.ready \o Made,
                              !.paused = Count > 0 /\ Full(Made)]
    BY <1>4, DataIs
  <2>2. out'.ready = out.ready \o Made
    BY <1>0, <2>1, TypesAre DEF OutType
  <2>3. Made \in Seq(Buffers) /\ Len(Made) = Count
    BY <2>1, MadeIs
  <2>4. /\ Count \in Nat /\ Len(log') = Len(log) + Count
        /\ \A i \in 1 .. Len(log) : log'[i] = log[i]
        /\ \A i \in 1 .. Count : log'[Len(log) + i].buffer = Made[i]
    BY <1>4, DataPackets
  <2>5. ReadyInv' /\ Passed' = Passed
    BY <2>2, <2>3, <2>4, ReadyExtends
  <2> QED
    BY <1>2, <2>4, <2>5
<1>5. CASE OnEnd
  <2> DEFINE b == Packet(out.current, out.number + 1, TRUE, out.bl)
  <2>1. /\ out' = [out EXCEPT !.bl = <<>>, !.current = 0, !.ready = Append(out.ready, b)]
        /\ b \in Buffers
    BY <1>5, EndDoes
  <2>2. /\ Len(log') = Len(log) + 1
        /\ \A i \in 1 .. Len(log) : log'[i] = log[i]
        /\ log'[Len(log) + 1].buffer = b
    BY <1>5, EndPacket
  <2> HIDE DEF b
  <2>3. out'.ready = Append(out.ready, b)
    BY <1>0, <2>1, TypesAre DEF OutType
  <2>4. <<b>> \in Seq(Buffers) /\ Len(<<b>>) = 1 /\ 1 \in Nat /\ \A i \in 1 .. 1 : i = 1 /\ <<b>>[i] = b
    BY <2>1
  <2>5. Append(out.ready, b) = out.ready \o <<b>>
    BY <1>0, <2>1, AppendIsConcat
  <2>6. \A i \in 1 .. 1 : log'[Len(log) + i].buffer = <<b>>[i]
    BY <2>2, <2>4
  <2>7. ReadyInv' /\ Passed' = Passed
    BY <2>2, <2>3, <2>4, <2>5, <2>6, ReadyExtends
  <2> QED
    BY <1>2, <2>2, <2>7
<1>6. CASE out'.ready = out.ready /\ log' = log
  BY <1>1, <1>2, <1>6
<1>7. ASSUME NEW n \in PacketSizes, SetPacketSize(n)
      PROVE  out'.ready = out.ready /\ log' = log
  <2>1. out' = [out EXCEPT !.size = n] /\ log' = log
    BY <1>7 DEF SetPacketSize
  <2> QED
    BY <1>0, <2>1, TypesAre DEF OutType
<1>8. ASSUME StartMessage
      PROVE  out'.ready = out.ready /\ log' = log
  <2> DEFINE a == out.next
             b == out.next + 1
             c == out.size - HeaderLength
  <2>1. /\ log' = log
        /\ out' = [out EXCEPT !.current = a, !.next = b, !.number = 0, !.paused = FALSE, !.limit = c]
    BY <1>8 DEF StartMessage
  <2> HIDE DEF a, b, c
  <2> QED
    BY <1>0, <2>1, TypesAre DEF OutType
<1>9. OnData /\ msg[out.current].ignore => out'.ready = out.ready /\ log' = log
  BY DataIs
<1>10. (\E m \in Messages : WriterStep(m)) => out'.ready = out.ready /\ log' = log
  BY WriterKeeps
<1>11. (\E n \in 1 .. Len(wire) : Transform(n)) \/ ProcessPacket \/ WaitForChunk \/ ReadChunk \/ Drained \/ MessageEnds
        => out'.ready = out.ready /\ log' = log
  BY Zenon DEF Transform, ProcessPacket, WaitForChunk, ReadChunk, Drained, MessageEnds
<1> QED
  BY <1>3, <1>4, <1>5, <1>6, <1>7, <1>8, <1>9, <1>10, <1>11 DEF Next, WriterStep

-------------------------------------------------------------------------------
(* Every step keeps the bytes on their way and what the reader has together.      *)

\* What reading a chunk does.
LEMMA ReadGives ==
  ASSUME Inv, ReadChunk
  PROVE  LET n == Len(got) g == got[n] h == got'[n] IN
         /\ n \in 1 .. n /\ n \in Nat /\ g \in Pushed /\ g.buffer \in Seq(Buffers) /\ g.buffer # <<>> /\ g.read \in Buffers
         /\ got' \in Seq(Pushed) /\ Len(got') = n /\ \A k \in 1 .. n - 1 : got'[k] = got[k]
         /\ h.type = g.type /\ h.done = g.done /\ h.buffer = Tail(g.buffer) /\ h.read = g.read \o Head(g.buffer)
         /\ UNCHANGED <<msg, out, wire, inc, log>>
<1> DEFINE n == Len(got)
           g == got[n]
           r == [g EXCEPT !.buffer = Tail(g.buffer), !.read = g.read \o Head(g.buffer)]
<1>0. TypeOK /\ got \in Seq(Pushed)
  BY DEF Inv, TypeOK, Pushed
<1>1. n \in 1 .. n /\ n \in Nat
  BY <1>0, GotIs DEF ReadChunk, ReaderRuns, Reading
<1>2. g \in Pushed /\ g.buffer \in Seq(Buffers) /\ g.buffer # <<>> /\ g.read \in Buffers
  BY <1>0, <1>1, GotIs DEF ReadChunk, Reading, Pushed
<1>3. Tail(g.buffer) \in Seq(Buffers) /\ g.read \o Head(g.buffer) \in Buffers
  BY <1>2, HeadTailProperties, Joined
<1>4. /\ r \in Pushed /\ r.type = g.type /\ r.done = g.done /\ r.buffer = Tail(g.buffer)
      /\ r.read = g.read \o Head(g.buffer)
  BY <1>2, <1>3 DEF Pushed
<1>5. got' = [got EXCEPT ![n] = r]
  BY DEF ReadChunk, Reading
<1> HIDE DEF r
<1>6. got' \in Seq(Pushed) /\ Len(got') = n /\ \A k \in 1 .. n : got'[k] = IF k = n THEN r ELSE got[k]
  BY <1>0, <1>1, <1>4, <1>5, ExceptSeq
<1>7. got'[n] = r /\ \A k \in 1 .. n - 1 : got'[k] = got[k]
  <2>1. \A k \in 1 .. n - 1 : k \in 1 .. n /\ k # n
    BY <1>1
  <2> QED
    BY <1>1, <1>6, <2>1
<1>8. UNCHANGED <<msg, out, wire, inc, log>>
  BY DEF ReadChunk
<1> QED
  BY <1>1, <1>2, <1>4, <1>6, <1>7, <1>8

\* What the end of a message does.
LEMMA EndGives ==
  ASSUME Inv, MessageEnds
  PROVE  LET n == Len(got) g == got[n] h == got'[n] IN
         /\ n \in 1 .. n /\ n \in Nat /\ inc.current = n /\ inc.at = "end"
         /\ g \in Pushed /\ g.buffer = <<>> /\ g.read \in Buffers
         /\ got' \in Seq(Pushed) /\ Len(got') = n /\ \A k \in 1 .. n - 1 : got'[k] = got[k]
         /\ h.type = g.type /\ h.done /\ h.buffer = g.buffer /\ h.read = g.read
         /\ inc'.bl = inc.bl /\ inc'.current = 0 /\ inc'.at = "loop"
         /\ UNCHANGED <<msg, out, wire, log>>
<1> DEFINE n == Len(got)
           g == got[n]
           r == [g EXCEPT !.done = TRUE]
<1>0. TypeOK /\ got \in Seq(Pushed)
  BY DEF Inv, TypeOK, Pushed
<1>1. PICK c \in 0 .. Passed : ReaderInv(c)
  BY DEF Inv, StreamInv
<1>2. inc.at = "end" /\ got[inc.current].buffer = <<>>
  BY DEF MessageEnds
<1>3. inc.current = n /\ n \in 1 .. n /\ n \in Nat /\ g \in Pushed
  <2>1. Len(got) \in Nat
    BY <1>0, GotIs
  <2> QED
    BY <1>1, <1>2, <2>1, ReaderIs
<1>4. g.buffer = <<>> /\ g.read \in Buffers
  BY <1>2, <1>3 DEF Pushed
<1>5. r \in Pushed /\ r.type = g.type /\ r.done /\ r.buffer = g.buffer /\ r.read = g.read
  BY <1>3 DEF Pushed
<1>6. got' = [got EXCEPT ![n] = r]
  BY <1>3 DEF MessageEnds
<1> HIDE DEF r
<1>7. got' \in Seq(Pushed) /\ Len(got') = n /\ \A k \in 1 .. n : got'[k] = IF k = n THEN r ELSE got[k]
  BY <1>0, <1>3, <1>5, <1>6, ExceptSeq
<1>8. got'[n] = r /\ \A k \in 1 .. n - 1 : got'[k] = got[k]
  <2>1. \A k \in 1 .. n - 1 : k \in 1 .. n /\ k # n
    BY <1>3
  <2> QED
    BY <1>3, <1>7, <2>1
<1>9. inc' = [inc EXCEPT !.current = 0, !.at = "loop"] /\ UNCHANGED <<msg, out, wire, log>>
  BY DEF MessageEnds
<1>10. inc'.bl = inc.bl /\ inc'.current = 0 /\ inc'.at = "loop"
  BY <1>0, <1>9, TypesAre DEF IncType
<1> QED
  BY <1>2, <1>3, <1>4, <1>5, <1>7, <1>8, <1>9, <1>10

\* The packets under way are the same while those the socket has read are.
LEMMA UnderSame ==
  ASSUME Inv, NEW c \in 0 .. Passed, Passed' = Passed, \A i \in 1 .. Passed : log'[i] = log[i]
  PROVE  Under(c)' = Under(c)
<1>1. Passed \in Nat
  BY UnderIs DEF Inv
<1>2. \A k \in 1 .. Passed - c : c + k \in 1 .. Passed
  BY <1>1
<1>3. \A k \in 1 .. Passed - c : log'[c + k].buffer = log[c + k].buffer
  BY <1>2
<1>4. Under(c)' = [k \in 1 .. Passed - c |-> log'[c + k].buffer]
  BY DEF Under
<1> QED
  BY <1>3, <1>4 DEF Under

LEMMA UnderMore ==
  ASSUME Inv, NEW c \in 0 .. Passed, Passed' = Passed + 1, log' = log, Passed + 1 \in 1 .. Len(log)
  PROVE  Under(c)' = Append(Under(c), log[Passed + 1].buffer) /\ c \in 0 .. Passed'
<1> DEFINE u == Under(c)
           n == Passed - c
           b == log[Passed + 1].buffer
<1>1. Passed \in Nat /\ n \in Nat /\ u \in Seq(Buffers) /\ Len(u) = n /\ b \in Buffers
  <2>1. Passed \in Nat /\ u \in Seq(Buffers) /\ Len(u) = n
    BY UnderIs DEF Inv
  <2>2. n \in Nat
    BY <2>1
  <2>3. b \in Buffers
    BY LogIs DEF Inv
  <2> QED
    BY <2>1, <2>2, <2>3
<1>2. \A k \in 1 .. n : u[k] = log[c + k].buffer
  BY DEF Under
<1>3. Passed' - c = n + 1 /\ c + (n + 1) = Passed + 1 /\ c \in 0 .. Passed'
  BY <1>1
<1>4. Under(c)' = [k \in 1 .. n + 1 |-> log[c + k].buffer]
  BY <1>3 DEF Under
<1> DEFINE v == [k \in 1 .. n + 1 |-> log[c + k].buffer]
           w == Append(u, b)
<1>5. \A k \in 1 .. n + 1 : log[c + k].buffer \in Buffers
  <2>1. \A k \in 1 .. n + 1 : c + k \in 1 .. Len(log)
    <3>1. Len(log) \in Nat
      BY LogIs DEF Inv
    <3> QED
      BY <1>1, <3>1
  <2> QED
    BY <2>1, LogIs DEF Inv
<1>6. v \in Seq(Buffers) /\ Len(v) = n + 1
  <2>1. v \in [1 .. n + 1 -> Buffers]
    BY <1>5
  <2> HIDE DEF n, v
  <2> QED
    BY <1>1, <2>1
<1> HIDE DEF u, b
<1>7. w \in Seq(Buffers) /\ Len(w) = n + 1 /\ w[n + 1] = b /\ \A k \in 1 .. n : w[k] = u[k]
  BY <1>1, AppendProperties
<1> HIDE DEF w
<1>8. ASSUME NEW k \in 1 .. n + 1
      PROVE  v[k] = w[k]
  <2>1. k \in 1 .. n \/ k = n + 1
    BY <1>1
  <2> QED
    BY <1>2, <1>3, <1>7, <2>1 DEF b
<1>9. v = w
  <2> HIDE DEF v, n
  <2> QED
    BY <1>6, <1>7, <1>8, SeqEqual
<1> QED
  BY <1>3, <1>4, <1>9 DEF w, u, b

\* The reader has the same while it only waits, or goes on after waiting.
LEMMA ReaderSame ==
  ASSUME Inv, NEW c \in 0 .. Passed, ReaderInv(c), got' = got, inc'.current = inc.current,
         inc'.at = inc.at \/ (inc.at # "end" /\ inc'.at \in {"idle", "loop"}),
         \A i \in 1 .. Passed : log'[i] = log[i]
  PROVE  ReaderInv(c)'
<1>1. Passed \in Nat
  BY UnderIs DEF Inv
<1>2. c > 0 => log'[c] = log[c]
  BY <1>1
<1>3. c = 0 \/ c > 0
  BY <1>1
<1>4. CASE c = 0
  BY <1>4 DEF ReaderInv
<1>5. CASE c > 0
  <2> PICK p : p = log[c]
    OBVIOUS
  <2>1. log'[c] = p
    BY <1>2, <1>5
  <2>2. /\ Len(got) = p.m
        /\ IF IsLast(p.buffer)
           THEN \/ inc.current = 0 /\ inc.at \in {"idle", "loop"} /\ got[p.m].done
                \/ inc.current = p.m /\ inc.at = "end" /\ ~got[p.m].done
           ELSE inc.current = p.m /\ inc.at \in {"idle", "loop", "drain"} /\ ~got[p.m].done
        /\ got[p.m].read = Text(p.m, 0, Len(got[p.m].read))
        /\ Len(got[p.m].read) <= End(p)
        /\ Laid(Text(p.m, Len(got[p.m].read), End(p)), got[p.m].buffer)
        /\ inc.current = 0 => got[p.m].buffer = <<>>
        /\ \A k \in DOMAIN got : got[k].type = Plan[k].type
        /\ \A k \in DOMAIN got : k < Len(got) => got[k].done /\ got[k].buffer = <<>>
    BY <1>5 DEF ReaderInv
  <2>3. IF IsLast(p.buffer)
        THEN \/ inc'.current = 0 /\ inc'.at \in {"idle", "loop"} /\ got[p.m].done
             \/ inc'.current = p.m /\ inc'.at = "end" /\ ~got[p.m].done
        ELSE inc'.current = p.m /\ inc'.at \in {"idle", "loop", "drain"} /\ ~got[p.m].done
    BY <2>2
  <2> QED
    BY <1>5, <2>1, <2>2, <2>3 DEF ReaderInv
<1> QED
  BY <1>3, <1>4, <1>5

\* What the reader has read of a message goes on with the chunk it reads.
LEMMA ReadsOn ==
  ASSUME Inv, ReadChunk, NEW c \in 0 .. Passed, ReaderInv(c)
  PROVE  LET n == Len(got) g == got[n] h == got'[n] p == log[c] IN
         /\ c \in 1 .. Len(log) /\ p.m = n /\ n \in Messages /\ ~g.done
         /\ g.read = Text(n, 0, Len(g.read)) /\ h.read = Text(n, 0, Len(h.read))
         /\ Len(g.read) \in Nat /\ Len(h.read) \in Nat /\ End(p) \in Nat
         /\ Len(g.read) <= Len(h.read) /\ Len(h.read) <= End(p)
         /\ Laid(Text(n, Len(h.read), End(p)), h.buffer)
<1> DEFINE n == Len(got)
           g == got[n]
           h == got'[n]
<1>1. /\ n \in 1 .. n /\ n \in Nat /\ g \in Pushed /\ g.buffer \in Seq(Buffers) /\ g.buffer # <<>> /\ g.read \in Buffers
      /\ got' \in Seq(Pushed) /\ Len(got') = n /\ \A k \in 1 .. n - 1 : got'[k] = got[k]
      /\ h.type = g.type /\ h.done = g.done /\ h.buffer = Tail(g.buffer) /\ h.read = g.read \o Head(g.buffer)
      /\ UNCHANGED <<msg, out, wire, inc, log>>
  BY ReadGives
<1> PICK p : p = log[c]
  OBVIOUS
<1>2. /\ c > 0 /\ c \in 1 .. Len(log) /\ p.m \in Messages /\ p.m = n /\ End(p) \in Nat /\ Len(g.read) \in Nat
      /\ IF IsLast(p.buffer)
         THEN \/ inc.current = 0 /\ inc.at \in {"idle", "loop"} /\ g.done
              \/ inc.current = p.m /\ inc.at = "end" /\ ~g.done
         ELSE inc.current = p.m /\ inc.at \in {"idle", "loop", "drain"} /\ ~g.done
      /\ g.read = Text(n, 0, Len(g.read))
      /\ Len(g.read) <= End(p)
      /\ Laid(Text(n, Len(g.read), End(p)), g.buffer)
      /\ inc.current = 0 => g.buffer = <<>>
      /\ \A k \in 1 .. n : got[k].type = Plan[k].type
      /\ \A k \in 1 .. n : k < n => got[k].done /\ got[k].buffer = <<>>
  <2>1. n # 0
    BY <1>1
  <2> QED
    BY <2>1, ReaderIs
<1> DEFINE f == Len(g.read)
           e == End(p)
           x == Head(g.buffer)
           y == Text(n, f, e)
<1> HIDE DEF n, g, h
<1>3. y \in Buffers /\ Len(y) = e - f
  BY <1>1, <1>2, TextType
<1>4. /\ x \in Buffers /\ Len(x) \in 0 .. Len(y) /\ x = SubSeq(y, 1, Len(x))
      /\ Laid(SubSeq(y, Len(x) + 1, Len(y)), Tail(g.buffer))
  <2> HIDE DEF y
  <2> QED
    BY <1>1, <1>2, <1>3, LaidTail DEF y
<1> DEFINE z == f + Len(x)
<1>5. x = Text(n, f, z) /\ SubSeq(y, Len(x) + 1, Len(y)) = Text(n, z, e) /\ z \in Nat /\ f <= z /\ z <= e
  <2> DEFINE w == Len(x)
  <2>1. f \in Nat /\ e \in Nat /\ f <= e /\ w \in 0 .. e - f /\ n \in Nat /\ Len(y) = e - f
    BY <1>1, <1>2, <1>3, <1>4
  <2> HIDE DEF f, e, w
  <2>2. 0 \in 0 .. e - f /\ w \in 0 .. e - f /\ e - f \in w .. e - f /\ 0 + 1 = 1 /\ f + 0 = f /\ f + (e - f) = e
    BY <2>1
  <2>3. SubSeq(y, 0 + 1, w) = Text(n, f + 0, f + w)
    BY <2>1, <2>2, TextSub
  <2>4. SubSeq(y, w + 1, e - f) = Text(n, f + w, f + (e - f))
    BY <2>1, <2>2, TextSub
  <2>5. f + w \in Nat /\ f <= f + w /\ f + w <= e
    BY <2>1
  <2>6. x = SubSeq(y, 1, w)
    BY <1>4 DEF w
  <2>7. z = f + w
    BY DEF w
  <2>8. Len(x) = w
    BY DEF w
  <2> HIDE DEF y, x, z
  <2>9. x = Text(n, f, z)
    BY <2>2, <2>3, <2>6, <2>7
  <2>10. SubSeq(y, w + 1, Len(y)) = Text(n, z, e)
    BY <2>1, <2>2, <2>4, <2>7
  <2> QED
    BY <2>5, <2>7, <2>8, <2>9, <2>10
<1>6. h.read = Text(n, 0, z) /\ Len(h.read) = z
  <2> DEFINE o == 0
  <2>0. f \in Nat /\ n \in Nat /\ z \in Nat /\ f <= z
    <3> HIDE DEF z, x
    <3> QED
      BY <1>1, <1>2, <1>5
  <2>2. h.read = g.read \o x /\ g.read = Text(n, o, f) /\ x = Text(n, f, z)
    BY <1>1, <1>2, <1>5
  <2> HIDE DEF f, z, x
  <2>1. f \in Nat /\ o <= f /\ o \in Nat /\ n \in Nat /\ z \in Nat /\ f <= z /\ o <= z /\ z - o = z
    BY <2>0
  <2> HIDE DEF o
  <2>3. Text(n, o, f) \o Text(n, f, z) = Text(n, o, z)
    BY <2>1, TextConcat
  <2>4. Len(Text(n, o, z)) = z - o
    BY <2>1, TextType
  <2>5. h.read = Text(n, o, z) /\ Len(h.read) = z
    BY <2>1, <2>2, <2>3, <2>4
  <2> QED
    BY <2>5 DEF o
<1>7. Laid(Text(n, Len(h.read), End(p)), h.buffer) /\ Len(h.read) <= End(p)
  BY <1>1, <1>4, <1>5, <1>6
<1>8. ~g.done
  BY <1>1, <1>2
<1>9. h.read = Text(n, 0, Len(h.read)) /\ Len(h.read) \in Nat /\ f <= Len(h.read)
  BY <1>5, <1>6
<1> QED
  BY <1>2, <1>7, <1>8, <1>9 DEF n, g, h

LEMMA StreamStep ==
  ASSUME Inv, Next
  PROVE  StreamInv'
<1>0. /\ TypeOK /\ inc.bl \in Buffers /\ wire \in Buffers /\ Passed \in Nat /\ inc \in IncType /\ ReadyInv
  BY UnderIs DEF Inv, TypeOK, StreamInv, IncType
<1>1. PICK c \in 0 .. Passed : Laid(inc.bl \o wire, Under(c)) /\ ReaderInv(c)
  BY DEF Inv, StreamInv
<1>2. ASSUME NEW d \in 0 .. Passed', Laid(inc'.bl \o wire', Under(d)'), ReaderInv(d)'
      PROVE  StreamInv'
  BY <1>2 DEF StreamInv
<1>3. ASSUME ~SocketReads
      PROVE  /\ Passed' = Passed /\ \A i \in 1 .. Passed : log'[i] = log[i]
             /\ \A d \in 0 .. Passed : d \in 0 .. Passed' /\ Under(d)' = Under(d)
  BY <1>3, ReadyStep, UnderSame
\* While the bytes and what the reader has are as they were, so is everything about them.
<1>4. ASSUME ~SocketReads, inc'.bl \o wire' = inc.bl \o wire, got' = got, inc'.current = inc.current,
             inc'.at = inc.at \/ (inc.at # "end" /\ inc'.at \in {"idle", "loop"})
      PROVE  StreamInv'
  <2>1. ReaderInv(c)'
    BY <1>1, <1>3, <1>4, ReaderSame
  <2>2. Laid(inc'.bl \o wire', Under(c)')
    BY <1>1, <1>3, <1>4
  <2> QED
    BY <1>2, <1>3, <1>4, <2>1, <2>2
<1>5. CASE SocketReads
  <2> DEFINE b == Head(out.ready)
  <2>1. /\ wire' = wire \o b /\ UNCHANGED <<inc, got, log>> /\ b \in Buffers /\ b = log[Passed + 1].buffer
        /\ Passed' = Passed + 1 /\ Passed + 1 \in 1 .. Len(log)
    BY <1>5, SocketDoes
  <2> HIDE DEF b
  <2>2. Under(c)' = Append(Under(c), b) /\ c \in 0 .. Passed'
    BY <1>1, <2>1, UnderMore
  <2>3. Under(c) \in Seq(Buffers) /\ inc.bl \o wire \in Buffers
    BY <1>0, <1>1, UnderIs, Joined
  <2>4. Laid((inc.bl \o wire) \o b, Append(Under(c), b))
    BY <1>1, <2>1, <2>3, LaidAppend
  <2>5. (inc.bl \o wire) \o b = inc.bl \o (wire \o b)
    BY <1>0, <2>1, Associative
  <2>6. ReaderInv(c)'
    <3>1. got' = got /\ inc'.current = inc.current /\ inc'.at = inc.at /\ \A i \in 1 .. Passed : log'[i] = log[i]
      BY <2>1
    <3> QED
      BY <1>1, <3>1, ReaderSame
  <2> QED
    BY <1>2, <2>1, <2>2, <2>4, <2>5, <2>6
<1>6. ASSUME NEW n \in 1 .. Len(wire), Transform(n)
      PROVE  StreamInv'
  <2> DEFINE a == SubSeq(wire, 1, n)
             z == SubSeq(wire, n + 1, Len(wire))
  <2>1. /\ inc.at = "idle" /\ inc' = [inc EXCEPT !.bl = inc.bl \o a, !.at = "loop"] /\ wire' = z
        /\ UNCHANGED <<msg, out, got, log>>
    BY <1>6 DEF Transform
  <2>2. a \in Buffers /\ z \in Buffers /\ a \o z = wire
    <3>1. n \in 0 .. Len(wire)
      BY <1>0 DEF Buffers
    <3> QED
      BY <1>0, <3>1, Parts
  <2> HIDE DEF a, z
  <2>3. inc'.bl = inc.bl \o a /\ inc'.current = inc.current /\ inc'.at = "loop"
    BY <1>0, <2>1 DEF IncType
  <2>4. (inc.bl \o a) \o z = inc.bl \o wire
    <3>1. (inc.bl \o a) \o z = inc.bl \o (a \o z)
      BY <1>0, <2>2, Associative
    <3> QED
      BY <2>2, <3>1
  <2>5. CASE ~SocketReads
    BY <1>4, <2>1, <2>3, <2>4, <2>5
  <2> QED
    BY <1>5, <2>5
<1>7. CASE ProcessPacket
  <2> PICK p : p = log[c + 1]
    OBVIOUS
  <2> DEFINE g == OpenedFor(p)[p.m]
             h == got'[p.m]
  <2>1. /\ inc.at = "loop" /\ c < Passed /\ c + 1 \in 1 .. Len(log) /\ p.m \in Messages
        /\ inc' = [bl |-> SubSeq(inc.bl, Len(p.buffer) + 1, Len(inc.bl)), current |-> p.m, at |-> AtAfter(p)]
        /\ Laid(SubSeq(inc.bl, Len(p.buffer) + 1, Len(inc.bl)) \o wire, Under(c + 1))
        /\ UNCHANGED <<msg, out, wire, log>>
    BY <1>1, <1>7, ProcessIs
  <2>2. /\ got' \in Seq(Pushed) /\ Len(got') = p.m
        /\ \A k \in 1 .. p.m - 1 : got'[k] = OpenedFor(p)[k]
        /\ h.type = g.type /\ h.read = g.read /\ ~h.done
        /\ h.buffer = HeldAfter(p)
        /\ Laid(Text(p.m, Len(g.read), End(p)), HeldAfter(p))
    BY <1>1, <1>7, ProcessGives
  <2>3. /\ g.read = Text(p.m, 0, Len(g.read)) /\ Len(g.read) \in Nat /\ Len(g.read) <= p.from
        /\ \A k \in 1 .. p.m : OpenedFor(p)[k].type = Plan[k].type
        /\ \A k \in 1 .. p.m - 1 : OpenedFor(p)[k].done /\ OpenedFor(p)[k].buffer = <<>>
    BY <1>1, <2>1, DueIs
  <2>4. p.from \in Nat /\ End(p) \in Nat /\ p.from <= End(p) /\ p.m \in Nat \ {0} /\ DOMAIN got' = 1 .. p.m
    BY <2>1, <2>2, PacketOf, PlanIs, SMTT(30)
  <2> HIDE DEF g, h
  <2>5. inc'.current = p.m /\ inc'.at = AtAfter(p) /\ inc'.bl \o wire' = SubSeq(inc.bl, Len(p.buffer) + 1, Len(inc.bl)) \o wire
    BY <2>1
  <2>6. IF IsLast(p.buffer) THEN AtAfter(p) = "end" ELSE AtAfter(p) \in {"loop", "drain"}
    BY DEF AtAfter
  <2>7. Len(h.read) <= End(p) /\ h.read = Text(p.m, 0, Len(h.read)) /\ Laid(Text(p.m, Len(h.read), End(p)), h.buffer)
    BY <2>2, <2>3, <2>4
  <2>8. \A k \in 1 .. p.m : got'[k].type = Plan[k].type
    <3>1. \A k \in 1 .. p.m : k \in 1 .. p.m - 1 \/ k = p.m
      BY <2>4
    <3> QED
      BY <2>2, <2>3, <3>1 DEF g, h
  <2>9. \A k \in 1 .. p.m : k < p.m => got'[k].done /\ got'[k].buffer = <<>>
    <3>1. \A k \in 1 .. p.m : k < p.m => k \in 1 .. p.m - 1
      BY <2>4
    <3> QED
      BY <2>2, <2>3, <3>1
  <2>10. ~SocketReads
    <3>1. Passed' = Passed
      BY <2>1, SMTT(30) DEF Passed
    <3>2. SocketReads => Passed' = Passed + 1
      BY SocketDoes
    <3> QED
      BY <1>0, <3>1, <3>2
  <2>11. c + 1 \in 0 .. Passed /\ c + 1 > 0 /\ ~(c + 1 = 0)
    BY <1>0, <2>1
  <2> PICK d \in 0 .. Passed : d = c + 1
    BY <2>11
  <2>12. log'[d] = p
    BY <2>1, SMTT(30)
  <2>13. ReaderInv(d)'
    BY <2>2, <2>4, <2>5, <2>6, <2>7, <2>8, <2>9, <2>11, <2>12 DEF ReaderInv, h
  <2>14. Laid(inc'.bl \o wire', Under(d)')
    BY <1>3, <2>1, <2>5, <2>10
  <2> QED
    BY <1>2, <1>3, <2>10, <2>13, <2>14
<1>8. ASSUME WaitForChunk \/ Drained
      PROVE  StreamInv'
  <2>1. inc' \in IncType
    BY Types DEF TypeOK, IncType
  <2>2. /\ inc'.bl = inc.bl /\ inc'.current = inc.current /\ inc.at # "end" /\ inc'.at \in {"idle", "loop"}
        /\ wire' = wire /\ got' = got
    <3>1. CASE WaitForChunk
      <4> DEFINE x == IF Len(inc.bl) >= HeaderLength /\ PacketLength(inc.bl) < HeaderLength THEN "failed" ELSE "idle"
      <4>1. inc' = [inc EXCEPT !.at = x] /\ inc.at = "loop" /\ wire' = wire /\ got' = got
        BY <3>1 DEF WaitForChunk
      <4>2. x = "failed" \/ x = "idle"
        OBVIOUS
      <4> HIDE DEF x
      <4>3. inc'.at = x /\ inc'.bl = inc.bl /\ inc'.current = inc.current
        BY <1>0, <4>1 DEF IncType
      <4>4. x # "failed"
        BY <2>1, <4>3 DEF IncType
      <4> QED
        BY <4>1, <4>2, <4>3, <4>4
    <3>2. CASE Drained
      <4>1. inc' = [inc EXCEPT !.at = "loop"] /\ inc.at = "drain" /\ wire' = wire /\ got' = got
        BY <3>2 DEF Drained
      <4> QED
        BY <1>0, <4>1 DEF IncType
    <3> QED
      BY <1>8, <3>1, <3>2
  <2>3. CASE ~SocketReads
    BY <1>4, <2>2, <2>3
  <2> QED
    BY <1>5, <2>3
<1>9. CASE ReadChunk
  <2> DEFINE n == Len(got)
             g == got[n]
             h == got'[n]
  <2>1. /\ n \in 1 .. n /\ n \in Nat /\ g \in Pushed /\ g.buffer \in Seq(Buffers) /\ g.buffer # <<>> /\ g.read \in Buffers
        /\ got' \in Seq(Pushed) /\ Len(got') = n /\ \A k \in 1 .. n - 1 : got'[k] = got[k]
        /\ h.type = g.type /\ h.done = g.done /\ h.buffer = Tail(g.buffer) /\ h.read = g.read \o Head(g.buffer)
        /\ UNCHANGED <<msg, out, wire, inc, log>>
    BY <1>9, ReadGives
  <2> PICK p : p = log[c]
    OBVIOUS
  <2>2. /\ c > 0 /\ c \in 1 .. Len(log) /\ p.m \in Messages /\ p.m = n /\ End(p) \in Nat /\ Len(g.read) \in Nat
        /\ IF IsLast(p.buffer)
           THEN \/ inc.current = 0 /\ inc.at \in {"idle", "loop"} /\ g.done
                \/ inc.current = p.m /\ inc.at = "end" /\ ~g.done
           ELSE inc.current = p.m /\ inc.at \in {"idle", "loop", "drain"} /\ ~g.done
        /\ g.read = Text(n, 0, Len(g.read))
        /\ Len(g.read) <= End(p)
        /\ Laid(Text(n, Len(g.read), End(p)), g.buffer)
        /\ inc.current = 0 => g.buffer = <<>>
        /\ \A k \in 1 .. n : got[k].type = Plan[k].type
        /\ \A k \in 1 .. n : k < n => got[k].done /\ got[k].buffer = <<>>
    <3>1. n # 0
      BY <2>1
    <3> QED
      BY <1>1, <3>1, ReaderIs
  <2>3. /\ h.read = Text(n, 0, Len(h.read)) /\ Len(h.read) <= End(p)
        /\ Laid(Text(n, Len(h.read), End(p)), h.buffer)
    BY <1>1, <1>9, ReadsOn
  <2> HIDE DEF n, g, h
  <2>8. ~SocketReads
    <3>1. Passed' = Passed
      BY <2>1 DEF Passed
    <3>2. SocketReads => Passed' = Passed + 1
      BY SocketDoes
    <3> QED
      BY <1>0, <3>1, <3>2
  <2>9. \A k \in 1 .. n : got'[k].type = Plan[k].type
    <3>1. \A k \in 1 .. n : k \in 1 .. n - 1 \/ k = n
      BY <2>1
    <3> QED
      BY <2>1, <2>2, <3>1 DEF g, h
  <2>10. \A k \in 1 .. n : k < n => got'[k].done /\ got'[k].buffer = <<>>
    <3>1. \A k \in 1 .. n : k < n => k \in 1 .. n - 1
      BY <2>1
    <3> QED
      BY <2>1, <2>2, <3>1
  <2>11. log'[c] = p /\ inc' = inc /\ DOMAIN got' = 1 .. n /\ inc.current # 0 /\ ~(c = 0)
    BY <2>1, <2>2
  <2>12. got'[p.m] = h
    BY <2>2 DEF h
  <2>13. /\ h.read = Text(n, 0, Len(h.read))
         /\ IF IsLast(p.buffer)
            THEN inc'.current = n /\ inc'.at = "end" /\ ~h.done
            ELSE inc'.current = n /\ inc'.at \in {"idle", "loop", "drain"} /\ ~h.done
    BY <2>1, <2>2, <2>3, <2>11
  <2>14. ReaderInv(c)'
    BY <2>1, <2>2, <2>3, <2>9, <2>10, <2>11, <2>12, <2>13 DEF ReaderInv
  <2>15. Laid(inc'.bl \o wire', Under(c)')
    BY <1>1, <1>3, <2>1, <2>8
  <2> QED
    BY <1>2, <1>3, <2>8, <2>14, <2>15
<1>10. CASE MessageEnds
  <2> DEFINE n == Len(got)
             g == got[n]
             h == got'[n]
  <2>1. /\ n \in 1 .. n /\ n \in Nat /\ inc.current = n /\ inc.at = "end"
        /\ g.buffer = <<>>
        /\ got' \in Seq(Pushed) /\ Len(got') = n /\ \A k \in 1 .. n - 1 : got'[k] = got[k]
        /\ h.type = g.type /\ h.done /\ h.buffer = g.buffer /\ h.read = g.read
        /\ inc'.bl = inc.bl /\ inc'.current = 0 /\ inc'.at = "loop"
        /\ UNCHANGED <<msg, out, wire, log>>
    BY <1>10, EndGives
  <2> PICK p : p = log[c]
    OBVIOUS
  <2>2. /\ c > 0 /\ p.m = n
        /\ IF IsLast(p.buffer)
           THEN \/ inc.current = 0 /\ inc.at \in {"idle", "loop"} /\ g.done
                \/ inc.current = p.m /\ inc.at = "end" /\ ~g.done
           ELSE inc.current = p.m /\ inc.at \in {"idle", "loop", "drain"} /\ ~g.done
        /\ g.read = Text(n, 0, Len(g.read))
        /\ Len(g.read) <= End(p)
        /\ Laid(Text(n, Len(g.read), End(p)), g.buffer)
        /\ \A k \in 1 .. n : got[k].type = Plan[k].type
        /\ \A k \in 1 .. n : k < n => got[k].done /\ got[k].buffer = <<>>
    <3>1. n # 0
      BY <2>1
    <3> QED
      BY <1>1, <3>1, ReaderIs
  <2> HIDE DEF n, g, h
  <2>3. IsLast(p.buffer)
    BY <2>1, <2>2
  <2>4. ~SocketReads
    <3>1. Passed' = Passed
      BY <2>1 DEF Passed
    <3>2. SocketReads => Passed' = Passed + 1
      BY SocketDoes
    <3> QED
      BY <1>0, <3>1, <3>2
  <2>5. \A k \in 1 .. n : got'[k].type = Plan[k].type
    <3>1. \A k \in 1 .. n : k \in 1 .. n - 1 \/ k = n
      BY <2>1
    <3> QED
      BY <2>1, <2>2, <3>1 DEF g, h
  <2>6. \A k \in 1 .. n : k < n => got'[k].done /\ got'[k].buffer = <<>>
    <3>1. \A k \in 1 .. n : k < n => k \in 1 .. n - 1
      BY <2>1
    <3> QED
      BY <2>1, <2>2, <3>1
  <2>7. log'[c] = p /\ DOMAIN got' = 1 .. n /\ ~(c = 0) /\ got'[p.m] = h
    BY <2>1, <2>2 DEF h
  <2>8. /\ h.read = Text(n, 0, Len(h.read)) /\ Len(h.read) <= End(p) /\ Laid(Text(n, Len(h.read), End(p)), h.buffer)
        /\ h.done /\ h.buffer = <<>>
    BY <2>1, <2>2
  <2>9. ReaderInv(c)'
    BY <2>1, <2>2, <2>3, <2>5, <2>6, <2>7, <2>8 DEF ReaderInv
  <2>10. Laid(inc'.bl \o wire', Under(c)')
    BY <1>1, <1>3, <2>1, <2>4
  <2> QED
    BY <1>2, <1>3, <2>4, <2>9, <2>10
<1>11. ASSUME ~SocketReads, UNCHANGED <<wire, inc, got>>
       PROVE  StreamInv'
  <2>1. inc'.bl \o wire' = inc.bl \o wire /\ got' = got /\ inc'.current = inc.current /\ inc'.at = inc.at
    BY <1>11
  <2> QED
    BY <1>4, <1>11, <2>1
<1>12. (\E m \in Messages : WriterStep(m)) => UNCHANGED <<wire, inc, got>>
  BY WriterKeeps
<1>13. (\E n \in PacketSizes : SetPacketSize(n)) \/ StartMessage \/ OnEnd \/ OnData => UNCHANGED <<wire, inc, got>>
  BY DataIs DEF SetPacketSize, StartMessage, OnEnd
<1> QED
  BY <1>5, <1>6, <1>7, <1>8, <1>9, <1>10, <1>11, <1>12, <1>13 DEF Next, WriterStep

-------------------------------------------------------------------------------
(* Every step keeps what both ends buffer within bounds.                         *)

LEMMA HeldAppend ==
  ASSUME NEW chunks \in Seq(Buffers), NEW c \in Buffers
  PROVE  /\ Held(Append(chunks, c)) \in Nat /\ Held(chunks) \in Nat
         /\ Held(Append(chunks, c)) <= Held(chunks) + Len(c)
<1> DEFINE a == Append(chunks, c)
           n == Len(chunks)
           l == Len(c)
<1>1. n \in Nat /\ l \in Nat
  BY DEF Buffers
<1>2. /\ a \in Seq(Buffers) /\ Len(a) = n + 1 /\ a[n + 1] = c
      /\ \A i \in 1 .. n : a[i] = chunks[i]
  BY AppendProperties
<1> HIDE DEF a, n, l
<1>3. DOMAIN a = 1 .. n + 1 /\ DOMAIN chunks = 1 .. n
  BY <1>2 DEF n
<1>4. 1 .. n + 1 = (1 .. n) \cup (n + 1 .. n + 1)
  BY <1>1
<1>5. 1 .. n \in SUBSET (1 .. Len(a)) /\ n + 1 .. n + 1 \in SUBSET (1 .. Len(a)) /\ 1 .. n \in SUBSET (1 .. Len(chunks))
  BY <1>1, <1>2 DEF n
<1>6. HeldIn(a, (1 .. n) \cup (n + 1 .. n + 1)) <= HeldIn(a, 1 .. n) + HeldIn(a, n + 1 .. n + 1)
  BY <1>2, <1>5, HeldBoth
<1>7. HeldIn(a, 1 .. n) = HeldIn(chunks, 1 .. n)
  BY <1>2, HeldSame
<1>8. HeldIn(a, n + 1 .. n + 1) <= ((n + 1) - n) * l
  <2> DEFINE k == n + 1
  <2>1. n \in 0 .. Len(a) /\ k \in n .. Len(a) /\ l <= l /\ l \in Nat
    BY <1>1, <1>2
  <2>2. \A i \in n + 1 .. k : Len(a[i]) <= l
    BY <1>1, <1>2, <2>1 DEF l
  <2> HIDE DEF k
  <2>3. HeldIn(a, n + 1 .. k) <= (k - n) * l
    BY <1>2, <2>1, <2>2, HeldAtMost
  <2> QED
    BY <2>3 DEF k
<1>9. ((n + 1) - n) * l = l
  <2>1. (n + 1) - n = 1 /\ 1 * l = l
    BY <1>1
  <2> QED
    BY <2>1
<1>10. /\ HeldIn(a, 1 .. n) \in Nat /\ HeldIn(a, n + 1 .. n + 1) \in Nat
       /\ HeldIn(a, 1 .. n + 1) \in Nat /\ HeldIn(chunks, 1 .. n) \in Nat
  BY <1>2, <1>4, <1>5, HeldFinite
<1>11. Held(a) = HeldIn(a, 1 .. n + 1) /\ Held(chunks) = HeldIn(chunks, 1 .. n)
  BY <1>3 DEF Held
<1>12. HeldIn(a, 1 .. n + 1) <= HeldIn(chunks, 1 .. n) + l
  <2> DEFINE x == HeldIn(a, 1 .. n)
             y == HeldIn(a, n + 1 .. n + 1)
             z == HeldIn(a, 1 .. n + 1)
  <2>1. z <= x + y /\ y <= l /\ x \in Nat /\ y \in Nat /\ z \in Nat /\ l \in Nat
    BY <1>1, <1>4, <1>6, <1>8, <1>9, <1>10
  <2> HIDE DEF x, y, z
  <2>2. z <= x + l
    BY <2>1
  <2> QED
    BY <1>7, <2>2 DEF x, z
<1> QED
  BY <1>10, <1>11, <1>12 DEF a, l

LEMMA HeldRest ==
  ASSUME NEW chunks \in Seq(Buffers), chunks # <<>>
  PROVE  Held(Tail(chunks)) \in Nat /\ Held(chunks) \in Nat /\ Held(Tail(chunks)) <= Held(chunks)
<1> DEFINE t == Tail(chunks)
           some == 1 .. Len(t)
           more == {i + 1 : i \in some}
<1>1. t \in Seq(Buffers) /\ DOMAIN t = some /\ DOMAIN chunks = 1 .. Len(chunks)
  BY HeadTailProperties
<1>2. some \in SUBSET (1 .. Len(t)) /\ 1 .. Len(chunks) \in SUBSET (1 .. Len(chunks))
  OBVIOUS
<1> HIDE DEF some
<1>3. more \in SUBSET (1 .. Len(chunks)) /\ HeldIn(t, some) <= HeldIn(chunks, more)
  BY <1>2, HeldTail
<1> HIDE DEF more
<1>4. /\ HeldIn(chunks, more) \in Nat /\ HeldIn(chunks, 1 .. Len(chunks)) \in Nat
      /\ HeldIn(chunks, more) <= HeldIn(chunks, 1 .. Len(chunks))
  BY <1>2, <1>3, HeldMore
<1>5. HeldIn(t, some) \in Nat
  BY <1>1, <1>2, HeldFinite
<1>6. Held(t) = HeldIn(t, some) /\ Held(chunks) = HeldIn(chunks, 1 .. Len(chunks))
  BY <1>1 DEF Held
<1> QED
  BY <1>3, <1>4, <1>5, <1>6

LEMMA HeldWithin ==
  ASSUME NEW chunks \in Seq(Buffers), NEW some \in SUBSET (1 .. Len(chunks))
  PROVE  HeldIn(chunks, some) \in Nat /\ Held(chunks) \in Nat /\ HeldIn(chunks, some) <= Held(chunks)
<1>1. DOMAIN chunks = 1 .. Len(chunks) /\ 1 .. Len(chunks) \in SUBSET (1 .. Len(chunks))
  OBVIOUS
<1>2. HeldIn(chunks, some) \in Nat /\ HeldIn(chunks, 1 .. Len(chunks)) \in Nat
      /\ HeldIn(chunks, some) <= HeldIn(chunks, 1 .. Len(chunks))
  BY <1>1, HeldMore
<1> QED
  BY <1>1, <1>2 DEF Held

LEMMA ReaderBoundStep ==
  ASSUME Inv, Next
  PROVE  ReaderBound'
<1>0. TypeOK /\ ReaderBound /\ inc \in IncType /\ HighWater \in Nat \ {0}
  BY PlanIs DEF Inv, TypeOK, IncType
<1>1. ASSUME UNCHANGED <<inc, got>>
      PROVE  ReaderBound'
  BY <1>0, <1>1 DEF ReaderBound
<1>2. ASSUME got' = got, inc'.current # 0 /\ inc'.at \in {"idle", "loop"} => Held(got[inc'.current].buffer) < HighWater
      PROVE  ReaderBound'
  BY <1>0, <1>2 DEF ReaderBound
<1>3. PICK c \in 0 .. Passed : Laid(inc.bl \o wire, Under(c)) /\ ReaderInv(c)
  BY DEF Inv, StreamInv
\* A message that holds nothing is within bounds.
<1>4. Held(<<>>) = 0 /\ \E n \in PacketSizes : 0 < HighWater + n - HeaderLength
  <2>1. Held(<<>>) = 0
    BY HeldNone
  <2>2. FirstSize \in PacketSizes /\ FirstSize \in Nat /\ FirstSize - HeaderLength \in Nat \ {0}
    BY PlanIs
  <2>3. 0 < HighWater + FirstSize - HeaderLength
    BY <1>0, <2>2 DEF HeaderLength
  <2> QED
    BY <2>1, <2>2, <2>3
<1>5. CASE ProcessPacket
  <2> PICK p : p = log[c + 1]
    OBVIOUS
  <2> DEFINE b == OpenedFor(p)[p.m].buffer
             d == PacketData(p.buffer)
             a == HeldAfter(p)
  <2>1. /\ inc.at = "loop" /\ c < Passed /\ c + 1 \in 1 .. Len(log) /\ p.m \in Messages
        /\ inc' = [bl |-> SubSeq(inc.bl, Len(p.buffer) + 1, Len(inc.bl)), current |-> p.m, at |-> AtAfter(p)]
    BY <1>3, <1>5, ProcessIs
  <2>2. /\ Len(got') = p.m /\ got' \in Seq(Pushed) /\ got'[p.m].buffer = a /\ a \in Seq(Buffers)
        /\ \A k \in 1 .. p.m - 1 : got'[k] = OpenedFor(p)[k]
    BY <1>3, <1>5, ProcessGives
  <2>3. /\ OpenedFor(p)[p.m] \in Pushed /\ inc.current \in {0, p.m} /\ (inc.current = 0 => b = <<>>)
        /\ \A k \in 1 .. p.m - 1 : OpenedFor(p)[k].buffer = <<>>
    BY <1>3, <2>1, DueIs
  <2>4. /\ d \in Buffers /\ Len(d) = End(p) - p.from /\ End(p) - p.from <= p.limit
        /\ p.limit + HeaderLength \in PacketSizes /\ Framed(p)
    BY <2>1, PacketOf DEF Framed
  <2>5. b \in Seq(Buffers) /\ Held(b) < HighWater
    <3>1. b \in Seq(Buffers)
      BY <2>3 DEF Pushed
    <3>2. CASE inc.current = 0
      BY <1>0, <1>4, <2>3, <3>1, <3>2
    <3>3. CASE inc.current # 0
      <4>1. OpenedFor(p) = got /\ inc.current = p.m
        BY <2>3, <3>3 DEF OpenedFor
      <4> QED
        BY <1>0, <2>1, <3>1, <3>3, <4>1 DEF ReaderBound
    <3> QED
      BY <3>2, <3>3
  <2>6. a = IF d = <<>> THEN b ELSE Append(b, d)
    BY DEF HeldAfter
  <2> HIDE DEF b, d
  <2>7. Held(a) \in Nat /\ Held(a) < HighWater + p.limit
    <3>1. Held(Append(b, d)) \in Nat /\ Held(b) \in Nat /\ Held(Append(b, d)) <= Held(b) + Len(d)
      BY <2>4, <2>5, HeldAppend
    <3>2. Len(d) \in Nat
      BY <2>4 DEF Buffers
    <3>3. Len(d) <= p.limit /\ p.limit \in Nat
      BY <2>1, <2>4, LogIs DEF Inv
    <3>4. Held(b) < HighWater + p.limit /\ Held(Append(b, d)) < HighWater + p.limit
      BY <1>0, <2>5, <3>1, <3>2, <3>3
    <3> QED
      BY <2>6, <3>1, <3>4
  <2>8. \E n \in PacketSizes : Held(a) < HighWater + n - HeaderLength
    <3> DEFINE n == p.limit + HeaderLength
    <3>1. p.limit \in Nat
      BY <2>1, LogIs DEF Inv
    <3>2. HighWater + n - HeaderLength = HighWater + p.limit
      BY <1>0, <3>1 DEF HeaderLength
    <3> QED
      BY <2>4, <2>7, <3>2
  <2> HIDE DEF a
  <2>9. ASSUME NEW m \in 1 .. p.m
        PROVE  \E n \in PacketSizes : Held(got'[m].buffer) < HighWater + n - HeaderLength
    <3>1. m \in 1 .. p.m - 1 \/ m = p.m
      BY <2>1, PlanIs
    <3>2. CASE m \in 1 .. p.m - 1
      <4>1. Held(got'[m].buffer) = 0
        BY <1>4, <2>2, <2>3, <3>2
      <4> QED
        BY <1>4, <4>1
    <3> QED
      BY <2>2, <2>8, <3>1, <3>2
  <2>10. inc'.at \in {"idle", "loop"} => Held(a) < HighWater
    <3>1. inc'.at \in {"idle", "loop"} => ~(Held(a) >= HighWater)
      BY <2>1 DEF AtAfter, a
    <3> QED
      BY <1>0, <2>7, <3>1
  <2>11. DOMAIN got' = 1 .. p.m /\ inc'.current = p.m
    BY <2>1, <2>2
  <2> QED
    BY <2>2, <2>9, <2>10, <2>11 DEF ReaderBound
<1>6. CASE ReadChunk
  <2> DEFINE n == Len(got)
             g == got[n]
             h == got'[n]
  <2>1. /\ n \in 1 .. n /\ n \in Nat /\ g.buffer \in Seq(Buffers) /\ g.buffer # <<>>
        /\ got' \in Seq(Pushed) /\ Len(got') = n /\ \A k \in 1 .. n - 1 : got'[k] = got[k]
        /\ h.buffer = Tail(g.buffer) /\ inc' = inc
    BY <1>6, ReadGives
  <2>2. inc.current \in {0, n}
    <3>1. n # 0
      BY <2>1
    <3> QED
      BY <1>3, <3>1, ReaderIs
  <2>3. DOMAIN got = 1 .. n /\ DOMAIN got' = 1 .. n
    BY <1>0, <2>1, GotIs
  <2> HIDE DEF n, g, h
  <2>4. Held(h.buffer) \in Nat /\ Held(g.buffer) \in Nat /\ Held(h.buffer) <= Held(g.buffer)
    BY <2>1, HeldRest
  <2>5. inc'.current # 0 /\ inc'.at \in {"idle", "loop"} => Held(got'[inc'.current].buffer) < HighWater
    <3> SUFFICES ASSUME inc.current # 0, inc.at \in {"idle", "loop"}
                 PROVE  Held(h.buffer) < HighWater
      BY <2>1, <2>2 DEF h
    <3>1. Held(g.buffer) < HighWater
      BY <1>0, <2>2 DEF ReaderBound, g
    <3> QED
      BY <1>0, <2>4, <3>1
  <2>6. ASSUME NEW m \in 1 .. n
        PROVE  \E k \in PacketSizes : Held(got'[m].buffer) < HighWater + k - HeaderLength
    <3>1. PICK k \in PacketSizes : Held(got[m].buffer) < HighWater + k - HeaderLength
      BY <1>0, <2>3 DEF ReaderBound
    <3>2. m \in 1 .. n - 1 \/ m = n
      BY <2>1
    <3>3. CASE m \in 1 .. n - 1
      BY <2>1, <3>1, <3>3
    <3>4. CASE m = n
      <4>1. k \in Nat
        BY PlanIs
      <4>2. Held(h.buffer) < HighWater + k - HeaderLength
        BY <1>0, <2>4, <3>1, <3>4, <4>1 DEF g, HeaderLength
      <4> QED
        BY <3>4, <4>2 DEF h
    <3> QED
      BY <3>2, <3>3, <3>4
  <2> QED
    BY <2>3, <2>5, <2>6 DEF ReaderBound
<1>7. CASE MessageEnds
  <2> DEFINE n == Len(got)
  <2>1. /\ n \in 1 .. n /\ n \in Nat
        /\ got' \in Seq(Pushed) /\ Len(got') = n /\ \A k \in 1 .. n - 1 : got'[k] = got[k]
        /\ got'[n].buffer = got[n].buffer /\ inc'.current = 0
    BY <1>7, EndGives
  <2>2. DOMAIN got = 1 .. n /\ DOMAIN got' = 1 .. n
    BY <1>0, <2>1, GotIs
  <2>3. \A m \in 1 .. n : got'[m].buffer = got[m].buffer
    <3>1. \A m \in 1 .. n : m \in 1 .. n - 1 \/ m = n
      BY <2>1
    <3> QED
      BY <2>1, <3>1
  <2> HIDE DEF n
  <2> QED
    BY <1>0, <2>1, <2>2, <2>3 DEF ReaderBound
<1>8. CASE Drained
  <2>1. inc' = [inc EXCEPT !.at = "loop"] /\ got' = got /\ Held(got[inc.current].buffer) < HighWater
    BY <1>8 DEF Drained
  <2>2. inc'.current = inc.current
    BY <1>0, <2>1 DEF IncType
  <2> QED
    BY <1>2, <2>1, <2>2
<1>9. CASE WaitForChunk
  <2> DEFINE x == IF Len(inc.bl) >= HeaderLength /\ PacketLength(inc.bl) < HeaderLength THEN "failed" ELSE "idle"
  <2>1. inc' = [inc EXCEPT !.at = x] /\ got' = got /\ inc.at = "loop"
    BY <1>9 DEF WaitForChunk
  <2> HIDE DEF x
  <2>2. inc'.current = inc.current
    BY <1>0, <2>1 DEF IncType
  <2> QED
    BY <1>0, <1>2, <2>1, <2>2 DEF ReaderBound
<1>10. ASSUME NEW n \in 1 .. Len(wire), Transform(n)
       PROVE  ReaderBound'
  <2> DEFINE a == inc.bl \o SubSeq(wire, 1, n)
  <2>1. inc' = [inc EXCEPT !.bl = a, !.at = "loop"] /\ got' = got /\ inc.at = "idle"
    BY <1>10 DEF Transform
  <2> HIDE DEF a
  <2>2. inc'.current = inc.current
    BY <1>0, <2>1 DEF IncType
  <2> QED
    BY <1>0, <1>2, <2>1, <2>2 DEF ReaderBound
<1>11. (\E m \in Messages : WriterStep(m)) => UNCHANGED <<inc, got>>
  BY WriterKeeps
<1>12. (\E n \in PacketSizes : SetPacketSize(n)) \/ StartMessage \/ OnEnd \/ OnData \/ SocketReads => UNCHANGED <<inc, got>>
  BY DataIs DEF SetPacketSize, StartMessage, OnEnd, SocketReads
<1> QED
  BY <1>1, <1>5, <1>6, <1>7, <1>8, <1>9, <1>10, <1>11, <1>12 DEF Next, WriterStep

\* The packets of message k that wait, after a step.
Within(k, held, limit, paused) ==
  \/ held < HighWater
  \/ paused /\ \E i \in DOMAIN Plan[k].writes : held < HighWater + Burst(Size(k, i) - Size(k, i - 1), limit)

LEMMA WriterBoundFrom ==
  ASSUME NEW k, NEW ready, NEW limit, NEW paused, NEW w,
         out'.current = k /\ out'.ready = ready /\ out'.limit = limit /\ out'.paused = paused,
         w = {i \in DOMAIN ready : log'[Len(log') - Len(ready) + i].m = k},
         Within(k, HeldIn(ready, w), limit, paused)
  PROVE  WriterBound'
<1>1. WaitingOf(out.current)' = w
  BY DEF WaitingOf
<1>2. HeldIn(out.ready, WaitingOf(out.current))' = HeldIn(ready, w)
  BY <1>1 DEF HeldIn
<1>3. \A i : (Size(out.current, i) - Size(out.current, i - 1))' = Size(k, i) - Size(k, i - 1)
  BY DEF Size
<1> QED
  BY <1>2, <1>3 DEF WriterBound, Burst, Within

LEMMA WriterBoundStep ==
  ASSUME Inv, Next
  PROVE  WriterBound'
<1>0. TypeOK /\ WriterBound /\ HighWater \in Nat \ {0} /\ ReadyInv
  BY PlanIs DEF Inv
<1> DEFINE r == Len(out.ready)
<1>1. out.ready \in Seq(Buffers) /\ r \in Nat /\ DOMAIN out.ready = 1 .. r /\ Len(log) \in Nat /\ out.paused \in BOOLEAN
  BY <1>0, OutIs, LogIs
<1>2. ASSUME out'.ready = out.ready, out'.current = out.current, out'.limit = out.limit, out'.paused = out.paused,
             log' = log
      PROVE  WriterBound'
  <2>1. CASE out.current = 0
    BY <1>2, <2>1 DEF WriterBound
  <2>2. CASE out.current # 0
    <3> PICK k : k = out.current
      OBVIOUS
    <3> PICK ready : ready = out.ready
      OBVIOUS
    <3> PICK w : w = WaitingOf(out.current)
      OBVIOUS
    <3>1. w = {i \in DOMAIN ready : log'[Len(log') - Len(ready) + i].m = k}
      BY <1>2 DEF WaitingOf
    <3> PICK limit : limit = out.limit
      OBVIOUS
    <3> PICK paused : paused = out.paused
      OBVIOUS
    <3>2. Within(k, HeldIn(ready, w), limit, paused)
      BY <1>0, <2>2 DEF WriterBound, Within
    <3>3. out'.current = k /\ out'.ready = ready /\ out'.limit = limit /\ out'.paused = paused
      BY <1>2
    <3> QED
      BY ONLY <3>1, <3>2, <3>3, WriterBoundFrom
  <2> QED
    BY <2>1, <2>2
<1>3. CASE SocketReads
  <2>1. CASE out.current = 0
    <3>1. out'.current = 0
      BY <1>3, <2>1, SocketDoes
    <3> QED
      BY <3>1 DEF WriterBound
  <2>2. CASE out.current # 0
    <3> PICK k : k = out.current
      OBVIOUS
    <3> PICK ready : ready = Tail(out.ready)
      OBVIOUS
    <3> DEFINE w == {i \in DOMAIN ready : log[Len(log) - Len(ready) + i].m = k}
               more == {i + 1 : i \in w}
               all == WaitingOf(k)
               x == HeldIn(ready, w)
               y == HeldIn(out.ready, all)
    <3>1. /\ out.ready # <<>> /\ out'.ready = ready /\ out'.current = k /\ out'.limit = out.limit
          /\ out'.paused = (out.paused /\ Held(ready) >= HighWater)
          /\ log' = log
      BY <1>3, SocketDoes
    <3>2. ready \in Seq(Buffers) /\ Len(ready) = r - 1 /\ DOMAIN ready = 1 .. r - 1
      BY <1>1, <3>1, HeadTailProperties
    <3>3. w \in SUBSET (1 .. Len(ready)) /\ all \in SUBSET (1 .. Len(out.ready))
      BY <1>1, <3>2 DEF WaitingOf
    <3>4. more \in SUBSET all
      <4> SUFFICES ASSUME NEW i \in w
                   PROVE  i + 1 \in all
        OBVIOUS
      <4>1. i \in 1 .. r - 1 /\ log[Len(log) - (r - 1) + i].m = k
        BY <3>2
      <4>2. i + 1 \in 1 .. r /\ Len(log) - (r - 1) + i = Len(log) - r + (i + 1)
        <5> DEFINE n == Len(log)
        <5>1. n \in Nat /\ r \in Nat /\ i \in 1 .. r - 1
          BY <1>1, <4>1
        <5> HIDE DEF n, r
        <5>2. i + 1 \in 1 .. r /\ (n - (r - 1)) + i = (n - r) + (i + 1)
          BY <5>1
        <5> QED
          BY <5>2 DEF n
      <4> QED
        BY <1>1, <4>1, <4>2 DEF WaitingOf
    <3>5. \/ y < HighWater
          \/ /\ out.paused
             /\ \E i \in DOMAIN Plan[k].writes : y < HighWater + Burst(Size(k, i) - Size(k, i - 1), out.limit)
      BY <1>0, <2>2 DEF WriterBound
    <3> HIDE DEF w, all
    <3>6. HeldIn(ready, w) <= HeldIn(out.ready, more)
      BY <1>1, <3>1, <3>3, HeldTail
    <3> HIDE DEF more
    <3>7. HeldIn(out.ready, more) \in Nat /\ y \in Nat /\ HeldIn(out.ready, more) <= y
      BY <1>1, <3>3, <3>4, HeldMore
    <3>8. x \in Nat /\ Held(ready) \in Nat /\ x <= Held(ready)
      BY <3>2, <3>3, HeldWithin
    <3>9. x <= y
      BY <3>6, <3>7, <3>8
    <3> HIDE DEF x, y
    <3> PICK limit : limit = out.limit
      OBVIOUS
    <3> PICK paused : paused = (out.paused /\ Held(ready) >= HighWater)
      OBVIOUS
    <3>10. Within(k, x, limit, paused)
      <4>1. CASE y < HighWater
        <5>1. x < HighWater
          BY <1>0, <3>7, <3>8, <3>9, <4>1
        <5> QED
          BY <5>1 DEF Within
      <4>2. CASE out.paused /\ Held(ready) < HighWater
        <5>1. x < HighWater
          BY <1>0, <3>8, <4>2
        <5> QED
          BY <5>1 DEF Within
      <4>3. CASE out.paused /\ Held(ready) >= HighWater /\ ~(y < HighWater)
        <5>1. PICK i \in DOMAIN Plan[k].writes : y < HighWater + Burst(Size(k, i) - Size(k, i - 1), out.limit)
          BY <3>5, <4>3
        <5> DEFINE z == HighWater + Burst(Size(k, i) - Size(k, i - 1), out.limit)
        <5>2. z \in Int
          <6>1. k \in Messages /\ out.limit \in Nat \ {0}
            BY <2>2, CurrentIs
          <6>2. Size(k, i) - Size(k, i - 1) \in Int
            <7>1. i \in 1 .. Len(Plan[k].writes) /\ Len(Plan[k].writes) \in Nat
              BY <6>1, PlanIs, SMTT(30)
            <7>2. i \in 0 .. Len(Plan[k].writes) /\ i - 1 \in 0 .. i
              BY <7>1
            <7>3. Size(k, i) \in Nat /\ Size(k, i - 1) \in Nat
              BY <6>1, <7>2, SizeIs
            <7> QED
              BY <7>3
          <6> DEFINE s == Size(k, i) - Size(k, i - 1)
          <6> HIDE DEF s
          <6>3. (out.limit + s - 1) \div out.limit \in Int
            BY <6>1, <6>2 DEF s
          <6>4. Burst(s, out.limit) \in Int
            BY <6>1, <6>3 DEF Burst, HeaderLength
          <6> QED
            BY <1>0, <6>4 DEF s
        <5> HIDE DEF z
        <5>3. x < z
          BY <3>7, <3>8, <3>9, <5>1, <5>2 DEF z
        <5> QED
          BY <4>3, <5>3 DEF z, Within
      <4> QED
        BY <1>0, <3>5, <3>8, <4>1, <4>2, <4>3
    <3>11. w = {i \in DOMAIN ready : log'[Len(log') - Len(ready) + i].m = k}
      BY <3>1 DEF w
    <3>12. out'.current = k /\ out'.ready = ready /\ out'.limit = limit /\ out'.paused = paused
      BY <3>1
    <3>13. Within(k, HeldIn(ready, w), limit, paused)
      BY <3>10 DEF x
    <3> QED
      BY ONLY <3>11, <3>12, <3>13, WriterBoundFrom
  <2> QED
    BY <2>1, <2>2
<1>4. CASE OnEnd
  <2>1. /\ out' = [out EXCEPT !.bl = <<>>, !.current = 0,
                      !.ready = Append(out.ready, Packet(out.current, out.number + 1, TRUE, out.bl))]
    BY <1>4, EndDoes
  <2>2. out'.current = 0
    BY <1>0, <2>1, TypesAre DEF OutType
  <2> QED
    BY <2>2 DEF WriterBound
<1>5. CASE StartMessage
  <2> PICK k : k = out.next
    OBVIOUS
  <2> PICK ready : ready = out.ready
    OBVIOUS
  <2> DEFINE w == {i \in DOMAIN ready : log[Len(log) - Len(ready) + i].m = k}
             c == out.size - HeaderLength
             d == out.next + 1
  <2>1. /\ log' = log /\ out.current = 0
        /\ out' = [out EXCEPT !.current = k, !.next = d, !.number = 0, !.paused = FALSE, !.limit = c]
    BY <1>5 DEF StartMessage
  <2> HIDE DEF c, d
  <2>2. out'.current = k /\ out'.ready = ready /\ out'.limit = c /\ out'.paused = FALSE
    BY <1>0, <2>1, TypesAre DEF OutType
  <2>3. ASSUME NEW i \in w
        PROVE  FALSE
    <3> DEFINE n == Len(log)
               s == Len(ready)
               j == n - s + i
    <3>1. i \in 1 .. s /\ s \in Nat /\ n \in Nat /\ s <= n /\ log[j].m = k
      BY <1>0, <1>1 DEF ReadyInv
    <3>2. j \in 1 .. n /\ n \in 1 .. n /\ n # 0
      <4> HIDE DEF n, s
      <4> QED
        BY <3>1
    <3>3. log # <<>> /\ log[n].m \in Nat /\ DOMAIN log = 1 .. n
      BY <1>0, <3>2, LogIs
    <3>4. log[j].m <= log[n].m
      BY <3>2, <3>3 DEF Inv, LogInv
    <3>5. IsLast(log[n].buffer) /\ k = Sent + 1
      BY <2>1, <3>3 DEF Inv, TurnInv
    <3>6. k = log[n].m + 1
      BY <3>3, <3>5 DEF Sent
    <3> QED
      BY <3>1, <3>3, <3>4, <3>6
  <2>4. w = {}
    BY <2>3
  <2>5. w = {i \in DOMAIN ready : log'[Len(log') - Len(ready) + i].m = k}
    BY <2>1
  <2> HIDE DEF w
  <2>6. HeldIn(ready, w) < HighWater
    BY <1>0, <2>4, HeldNone
  <2>7. Within(k, HeldIn(ready, w), c, FALSE)
    BY <2>6 DEF Within
  <2> QED
    BY ONLY <2>2, <2>5, <2>7, WriterBoundFrom, ZenonT(40)
<1>6. CASE OnData /\ ~msg[out.current].ignore
  <2> PICK k : k = out.current
    OBVIOUS
  <2> PICK limit : limit = out.limit
    OBVIOUS
  <2> PICK count : count = Count
    OBVIOUS
  <2> PICK ready : ready = out.ready \o Made
    OBVIOUS
  <2> PICK paused : paused = (Count > 0 /\ Held(ready) >= HighWater)
    OBVIOUS
  <2>1. /\ out.current # 0 /\ out.current \in Messages /\ ~out.paused /\ msg[out.current].buffer # <<>>
        /\ out' = [out EXCEPT !.bl = Rest, !.number = out.number + Count, !.ready = out.ready \o Made,
                              !.paused = Count > 0 /\ Full(Made)]
    BY <1>6, DataIs
  <2>2. out'.current = k /\ out'.ready = ready /\ out'.limit = limit /\ out'.paused = paused
    <3>1. paused = (Count > 0 /\ Full(Made))
      BY DEF Full
    <3>2. out' = [out EXCEPT !.bl = Rest, !.number = out.number + Count, !.ready = ready, !.paused = paused]
      BY <2>1, <3>1
    <3> QED
      BY <1>0, <3>2, TypesAre DEF OutType
  <2>3. /\ Made \in Seq(Buffers) /\ Len(Made) = count /\ count \in Nat
        /\ \A i \in 1 .. count : Made[i] = Packet(out.current, out.number + i, FALSE, Piece(i))
    BY <2>1, MadeIs, JointIs
  <2>4. /\ limit \in Nat \ {0}
        /\ count <= (limit + Len(Chunk) - 1) \div limit /\ (limit + Len(Chunk) - 1) \div limit \in Nat
    BY <2>1, JointIs, CurrentIs
  <2>5. \A i \in 1 .. count : Len(Made[i]) = HeaderLength + limit
    <3> SUFFICES ASSUME NEW i \in 1 .. count
                 PROVE  Len(Made[i]) = HeaderLength + limit
      OBVIOUS
    <3> DEFINE false == FALSE
               number == out.number + i
               piece == Piece(i)
    <3>1. piece \in Buffers /\ Len(piece) = limit /\ number \in Nat
      <4> HIDE DEF piece
      <4> QED
        BY <2>1, PieceIs DEF piece
    <3>2. Made[i] = Packet(out.current, number, false, piece) /\ false \in BOOLEAN
      BY <2>3
    <3>3. msg[out.current].ignore \in BOOLEAN
      BY <1>0, <2>1, MsgIs
    <3> HIDE DEF false, number, piece
    <3>4. Len(Packet(out.current, number, false, piece)) = HeaderLength + Len(piece)
      BY ONLY <2>1, <3>1, <3>2, <3>3, PacketIs
    <3> QED
      BY <3>1, <3>2, <3>4
  <2>6. /\ ready \in Seq(Buffers) /\ Len(ready) = r + count
        /\ \A i \in 1 .. r : ready[i] = out.ready[i]
        /\ \A i \in 1 .. count : ready[r + i] = Made[i]
    BY <1>1, <2>3, ChunksJoined
  <2>7. DOMAIN ready = 1 .. r + count
    BY <2>6
  <2>8. Len(log') = Len(log) + count /\ (\A i \in 1 .. Len(log) : log'[i] = log[i]) /\ r <= Len(log)
    BY <1>0, <1>6, DataPackets DEF ReadyInv
  <2> DEFINE w == {i \in DOMAIN ready : log'[Len(log') - Len(ready) + i].m = k}
             all == WaitingOf(k)
             new == r + 1 .. r + count
             x == HeldIn(ready, w)
             y == HeldIn(out.ready, all)
             z == HeldIn(ready, new)
  <2>9. all \in SUBSET (1 .. r)
    BY <1>1 DEF WaitingOf
  <2>10. w \in SUBSET (all \cup new)
    <3> SUFFICES ASSUME NEW i \in w, ~(i \in new)
                 PROVE  i \in all
      OBVIOUS
    <3> DEFINE n == Len(log)
    <3>1. n \in Nat /\ r \in Nat /\ r <= n /\ count \in Nat
      BY <1>1, <2>3, <2>8
    <3>2. i \in 1 .. r + count /\ ~(i \in r + 1 .. r + count) /\ log'[(n + count) - (r + count) + i].m = k
      BY <2>6, <2>7, <2>8
    <3> HIDE DEF n, r
    <3>3. i \in 1 .. r /\ n - r + i \in 1 .. n /\ (n + count) - (r + count) + i = n - r + i
      BY <3>1, <3>2
    <3> USE DEF n, r
    <3>4. log[n - r + i].m = k
      BY <2>8, <3>2, <3>3
    <3> QED
      BY <1>1, <3>3, <3>4 DEF WaitingOf
  <2>11. all \in SUBSET (1 .. Len(ready)) /\ new \in SUBSET (1 .. Len(ready)) /\ w \in SUBSET (1 .. Len(ready))
    <3>1. w \in SUBSET (1 .. Len(ready))
      BY <2>6, <2>7
    <3> HIDE DEF all, w
    <3>2. r \in Nat /\ count \in Nat
      BY <1>1, <2>3
    <3> HIDE DEF r
    <3> QED
      BY <2>6, <2>9, <3>1, <3>2
  <2>12. (all \cup new) \in SUBSET (1 .. Len(ready))
    BY <2>11
  <2>13. \A i \in all : out.ready[i] = ready[i]
    BY <2>6, <2>9
  <2>14. w = {i \in DOMAIN ready : log'[Len(log') - Len(ready) + i].m = k}
    OBVIOUS
  <2>15. y < HighWater
    BY <1>0, <2>1 DEF WriterBound
  <2>16. z <= count * (HeaderLength + limit)
    <3>1. r \in 0 .. Len(ready) /\ r + count \in r .. Len(ready) /\ (r + count) - r = count
      <4>1. r \in Nat /\ count \in Nat
        BY <1>1, <2>3
      <4> HIDE DEF r
      <4> QED
        BY <2>6, <4>1
    <3>2. \A i \in r + 1 .. r + count : Len(ready[i]) <= HeaderLength + limit
      <4> SUFFICES ASSUME NEW i \in r + 1 .. r + count
                   PROVE  Len(ready[i]) <= HeaderLength + limit
        OBVIOUS
      <4>1. i - r \in 1 .. count /\ r + (i - r) = i
        <5>1. r \in Nat /\ count \in Nat
          BY <1>1, <2>3
        <5> HIDE DEF r
        <5> QED
          BY <5>1
      <4>2. Len(ready[i]) = HeaderLength + limit
        BY <2>5, <2>6, <4>1
      <4> QED
        BY <2>4, <4>2 DEF HeaderLength
    <3>3. HeaderLength + limit \in Nat
      BY <2>4 DEF HeaderLength
    <3> PICK l : l = HeaderLength + limit
      OBVIOUS
    <3> PICK b : b = r + count
      OBVIOUS
    <3>4. HeldIn(ready, r + 1 .. b) <= (b - r) * l
      <4> HIDE DEF r
      <4> QED
        BY <2>6, <3>1, <3>2, <3>3, HeldAtMost
    <3> QED
      BY <3>1, <3>4
  <2> HIDE DEF w, all, new
  <2>17. /\ x \in Nat /\ HeldIn(ready, all \cup new) \in Nat /\ x <= HeldIn(ready, all \cup new)
    BY <2>6, <2>10, <2>12, HeldMore
  <2>18. HeldIn(ready, all \cup new) <= HeldIn(ready, all) + z
    BY <2>6, <2>11, HeldBoth
  <2>19. y = HeldIn(ready, all)
    BY <2>13, HeldSame
  <2>20. HeldIn(ready, all) \in Nat /\ z \in Nat
    BY <2>6, <2>11, HeldFinite
  <2>21. x \in Nat /\ Held(ready) \in Nat /\ x <= Held(ready)
    BY <2>6, <2>11, HeldWithin
  <2>22. x <= y + z /\ y \in Nat
    BY <2>17, <2>18, <2>19, <2>20
  <2> HIDE DEF x, y, z
  <2>23. Within(k, x, limit, paused)
    <3>1. CASE count = 0
      <4>1. z = 0
        BY <2>4, <2>16, <2>20, <3>1 DEF HeaderLength
      <4>2. x < HighWater
        BY <1>0, <2>15, <2>21, <2>22, <4>1
      <4> QED
        BY <4>2 DEF Within
    <3>2. CASE Held(ready) < HighWater
      <4>1. x < HighWater
        BY <1>0, <2>21, <3>2
      <4> QED
        BY <4>1 DEF Within
    <3>3. CASE count # 0 /\ ~(Held(ready) < HighWater)
      <4> PICK i : i = Nth(k, 1)
        OBVIOUS
      <4>1. /\ Nth(k, 1) = Nth(k, 0) + 1 /\ Nth(k, 0) \in 0 .. Len(Plan[k].writes)
            /\ Nth(k, 1) \in 1 .. msg[k].n /\ msg[k].n <= Len(Plan[k].writes)
            /\ Size(k, Nth(k, 0)) \in Nat /\ Size(k, Nth(k, 1)) \in Nat
            /\ Size(k, Nth(k, 0)) <= Size(k, Nth(k, 1))
            /\ Chunk = Text(k, Size(k, Nth(k, 0)), Size(k, Nth(k, 1)))
        BY <2>1, ChunkIs DEF Chunk
      <4>2. msg[k].n \in Nat /\ Len(Plan[k].writes) \in Nat /\ k \in Nat /\ DOMAIN Plan[k].writes = 1 .. Len(Plan[k].writes)
        BY <1>0, <2>1, MsgIs, PlanIs
      <4> PICK h : h = Nth(k, 0)
        OBVIOUS
      <4>3. i \in DOMAIN Plan[k].writes /\ i - 1 = Nth(k, 0)
        <5> PICK n : n = msg[k].n
          OBVIOUS
        <5> PICK o : o = Len(Plan[k].writes)
          OBVIOUS
        <5>1. i = h + 1 /\ h \in 0 .. o /\ i \in 1 .. n /\ n <= o /\ n \in Nat /\ o \in Nat
          BY ONLY <4>1, <4>2, i = Nth(k, 1), h = Nth(k, 0), n = msg[k].n, o = Len(Plan[k].writes)
        <5>2. i \in 1 .. o /\ i - 1 = h
          BY ONLY <5>1
        <5> QED
          BY <4>2, <5>2
      <4>4. Len(Chunk) = Size(k, i) - Size(k, i - 1) /\ Len(Chunk) \in Nat
        <5>1. Len(Chunk) = Size(k, Nth(k, 1)) - Size(k, Nth(k, 0))
          <6> PICK a : a = Size(k, Nth(k, 0))
            OBVIOUS
          <6> PICK b : b = Size(k, Nth(k, 1))
            OBVIOUS
          <6>1. a \in Nat /\ b \in Nat /\ a <= b /\ Chunk = Text(k, a, b)
            BY <4>1
          <6>2. Len(Text(k, a, b)) = b - a
            BY ONLY <4>2, <6>1, TextType
          <6> QED
            BY <6>1, <6>2
        <5> QED
          BY <4>1, <4>3, <5>1
      <4> PICK s : s = Len(Chunk)
        OBVIOUS
      <4> DEFINE q == (limit + s - 1) \div limit
                 l == limit + HeaderLength
      <4>5. q \in Nat /\ count <= q /\ l \in Nat /\ HeaderLength + limit = l
        BY <2>4 DEF HeaderLength
      <4>6. Burst(s, limit) = q * l
        BY DEF Burst
      <4> HIDE DEF q, l
      <4>7. count * l <= q * l /\ count * l \in Nat /\ q * l \in Nat
        BY <2>3, <4>5, Products
      <4>8. x < HighWater + q * l
        <5> PICK u : u = count * l
          OBVIOUS
        <5> PICK v : v = q * l
          OBVIOUS
        <5>1. u \in Nat /\ v \in Nat /\ u <= v /\ z <= u
          BY <2>16, <4>5, <4>7
        <5>2. x < HighWater + v
          BY <1>0, <2>15, <2>20, <2>21, <2>22, <5>1 DEF z
        <5> QED
          BY <5>2
      <4>9. paused
        <5>1. Count > 0
          BY <2>3, <3>3
        <5>2. Held(ready) >= HighWater
          BY <1>0, <2>21, <3>3
        <5> QED
          BY <5>1, <5>2, Zenon
      <4>10. x < HighWater + Burst(Size(k, i) - Size(k, i - 1), limit)
        BY <4>4, <4>6, <4>8
      <4> QED
        BY <4>3, <4>9, <4>10 DEF Within
    <3> QED
      BY <3>1, <3>2, <3>3
  <2>24. Within(k, HeldIn(ready, w), limit, paused)
    BY <2>23 DEF x
  <2>25. w = {i \in DOMAIN ready : log'[Len(log') - Len(ready) + i].m = k}
    BY <2>14 DEF w
  <2> QED
    BY ONLY <2>2, <2>24, <2>25, WriterBoundFrom
<1>7. CASE OnData /\ msg[out.current].ignore
  BY <1>2, <1>7, DataIs
<1>8. ASSUME NEW n \in PacketSizes, SetPacketSize(n)
      PROVE  WriterBound'
  <2>1. out' = [out EXCEPT !.size = n] /\ log' = log
    BY <1>8 DEF SetPacketSize
  <2>2. /\ out'.ready = out.ready /\ out'.current = out.current /\ out'.limit = out.limit
        /\ out'.paused = out.paused
    BY <1>0, <2>1, TypesAre DEF OutType
  <2> QED
    BY <1>2, <2>1, <2>2
<1>9. ASSUME UNCHANGED <<out, log>>
      PROVE  WriterBound'
  BY <1>2, <1>9
<1>10. (\E m \in Messages : WriterStep(m)) => UNCHANGED <<out, log>>
  BY WriterKeeps
<1>11. (\E n \in 1 .. Len(wire) : Transform(n)) \/ ProcessPacket \/ WaitForChunk \/ ReadChunk \/ Drained \/ MessageEnds
        => UNCHANGED <<out, log>>
  BY DEF Transform, ProcessPacket, WaitForChunk, ReadChunk, Drained, MessageEnds
<1> QED
  BY <1>3, <1>4, <1>5, <1>6, <1>7, <1>8, <1>9, <1>10, <1>11 DEF Next, WriterStep

-------------------------------------------------------------------------------
(* The invariant holds in every state, and with it what the runs check.           *)

LEMMA Stutters ==
  ASSUME Inv, UNCHANGED vars
  PROVE  Inv'
<1> USE DEF vars
<1>1. TypeOK' /\ OpenedInv'
  BY DEF Inv, TypeOK, OpenedInv
<1>2. MessageInv'
  BY DEF Inv, MessageInv, MessageOk, Nth
<1>3. TurnInv' /\ WriterInv'
  BY DEF Inv, TurnInv, WriterInv, Sent, Packed, Nth
<1>4. LogInv'
  BY DEF Inv, LogInv, Carries
<1>5. ReadyInv'
  BY DEF Inv, ReadyInv, Passed
<1>6. StreamInv'
  BY DEF Inv, StreamInv, Under, Passed, ReaderInv
<1>7. WriterBound' /\ ReaderBound'
  BY DEF Inv, WriterBound, ReaderBound, WaitingOf
<1> QED
  BY <1>1, <1>2, <1>3, <1>4, <1>5, <1>6, <1>7 DEF Inv

\* Whatever happens, packets, buffers and the two streams stay in step.
THEOREM StreamsInvariant == Spec => []Inv
<1>1. Init => Inv
  BY Initially
<1>2. Inv /\ [Next]_vars => Inv'
  <2>1. ASSUME Inv, Next
        PROVE  Inv'
    BY <2>1, Types, OpenedStep, MessageStep, TurnStep, WriterInvStep, LogStep, ReadyStep, StreamStep,
       WriterBoundStep, ReaderBoundStep DEF Inv
  <2> QED
    BY <2>1, Stutters
<1> QED
  BY <1>1, <1>2, PTL DEF Spec

\* Packets are what the server expects of every message: in order, numbered from one, all but the last
\* full, with the end, ignore and reset bits where they belong (OutgoingMessageStream._write).
THEOREM PacketsAreFramed == Spec => []WellFramed
<1>1. Inv => WellFramed
  <2> SUFFICES ASSUME Inv, NEW i \in DOMAIN log
               PROVE  LET p == log[i]
                          first == i = 1 \/ log[i - 1].m # p.m
                          dataLength == Len(PacketData(p.buffer))
                      IN /\ i > 1 => log[i - 1].m <= p.m
                         /\ ~first => /\ ~IsLast(log[i - 1].buffer)
                                      /\ p.buffer[4] = (log[i - 1].buffer[4] + 1) % IdModulus
                         /\ first => /\ p.buffer[4] = 1 % IdModulus
                                     /\ i > 1 => IsLast(log[i - 1].buffer)
                         /\ PacketLength(p.buffer) = Len(p.buffer) /\ dataLength <= p.limit
                         /\ IsLast(p.buffer) \/ dataLength = p.limit
                         /\ HasBit(p.buffer[2], Status.IGNORE) => IsLast(p.buffer)
                         /\ IsLast(p.buffer) => (HasBit(p.buffer[2], Status.IGNORE) <=> msg[p.m].ignore)
                         /\ HasBit(p.buffer[2], Status.RESETCONNECTION) <=> Plan[p.m].reset
    BY DEF WellFramed
  <2> PICK p : p = log[i]
    OBVIOUS
  <2> PICK b : b = log[i - 1]
    OBVIOUS
  <2>1. i \in 1 .. Len(log) /\ Len(log) \in Nat /\ log # <<>>
    BY LogIs DEF Inv
  <2>2. /\ Framed(p) /\ Carries(p) /\ p.m \in Nat
        /\ Len(PacketData(p.buffer)) = Len(p.buffer) - HeaderLength
    BY <2>1, PacketOf, PlanIs
  <2>3. i > 1 => Follows(b, p) /\ b.m \in Nat
    <3>1. i > 1 => i - 1 \in 1 .. Len(log)
      BY <2>1
    <3> QED
      BY <3>1, LogIs DEF Inv, LogInv
  <2>4. i = 1 => First(p)
    BY <2>1 DEF Inv, LogInv
  <2>5. i > 1 => b.m <= p.m /\ (b.m = p.m <=> ~IsLast(b.buffer))
    BY <2>2, <2>3 DEF Follows
  <2>6. i > 1 \/ i = 1
    BY <2>1
  <2>7. /\ ~(i = 1 \/ b.m # p.m) => ~IsLast(b.buffer) /\ p.buffer[4] = (b.buffer[4] + 1) % IdModulus
        /\ i = 1 \/ b.m # p.m => p.buffer[4] = 1 % IdModulus /\ (i > 1 => IsLast(b.buffer))
    BY <2>3, <2>4, <2>5, <2>6 DEF Follows, First
  <2>8. /\ PacketLength(p.buffer) = Len(p.buffer) /\ Len(PacketData(p.buffer)) <= p.limit
        /\ IsLast(p.buffer) \/ Len(PacketData(p.buffer)) = p.limit
        /\ HasBit(p.buffer[2], Status.IGNORE) => IsLast(p.buffer)
        /\ HasBit(p.buffer[2], Status.RESETCONNECTION) <=> Plan[p.m].reset
    BY <2>2 DEF Framed
  <2>9. IsLast(p.buffer) => (HasBit(p.buffer[2], Status.IGNORE) <=> msg[p.m].ignore)
    BY <2>2 DEF Carries
  <2> QED
    BY <2>5, <2>7, <2>8, <2>9
<1> QED
  BY <1>1, StreamsInvariant, PTL

\* However slow the socket or the reader is, what either end buffers stays below its high-water mark
\* but for what one write or one packet adds (push and _read, the drain of _transform).
THEOREM BuffersAreBounded == Spec => []BoundedBuffers
<1>1. Inv => BoundedBuffers
  BY DEF Inv, WriterBound, ReaderBound, BoundedBuffers
<1> QED
  BY <1>1, StreamsInvariant, PTL

-------------------------------------------------------------------------------
(* The streams are a queue of messages.                                           *)

Is(k) == IF ~msg[k].finished THEN "open" ELSE IF msg[k].ignore THEN "abandoned" ELSE "closed"
Written == [k \in Opened |-> [type |-> Plan[k].type, data |-> DataOf(k, msg[k].n), is |-> Is(k)]]
Taken == [k \in DOMAIN got |-> [type |-> got[k].type, data |-> got[k].read, ended |-> got[k].done]]

\* One element more.
LEMMA OneMore ==
  ASSUME NEW j \in Nat, NEW s, s = [k \in 1 .. j |-> s[k]], NEW t, t = [k \in 1 .. j + 1 |-> t[k]],
         \A k \in 1 .. j : t[k] = s[k]
  PROVE  t = Append(s, t[j + 1]) /\ Len(s) = j /\ Len(t) = j + 1
<1> DEFINE S == {t[k] : k \in 1 .. j + 1}
           e == t[j + 1]
           a == Append(s, e)
<1>1. s \in [1 .. j -> S] /\ t \in [1 .. j + 1 -> S] /\ e \in S
  <2>1. \A k \in 1 .. j : k \in 1 .. j + 1
    OBVIOUS
  <2>2. j + 1 \in 1 .. j + 1
    OBVIOUS
  <2> QED
    BY <2>1, <2>2
<1> HIDE DEF S
<1>2. s \in Seq(S) /\ t \in Seq(S) /\ Len(s) = j /\ Len(t) = j + 1
  BY <1>1
<1>3. a \in Seq(S) /\ Len(a) = j + 1 /\ a[j + 1] = e /\ \A k \in 1 .. j : a[k] = s[k]
  BY <1>1, <1>2, AppendProperties
<1>4. \A k \in 1 .. j + 1 : a[k] = t[k]
  <2>1. \A k \in 1 .. j + 1 : k \in 1 .. j \/ k = j + 1
    OBVIOUS
  <2> QED
    BY <1>3, <2>1
<1> HIDE DEF a
<1>5. a = t
  BY <1>2, <1>3, <1>4, SeqEqual
<1> QED
  BY <1>2, <1>5 DEF a

\* The abstract actions, in terms of what was written and what was read.
LEMMA FifoOpens ==
  ASSUME Written' = Append(Written, [type |-> Written'[Len(Written) + 1].type, data |-> <<>>, is |-> "open"]),
         Len(Written') = Len(Written) + 1
  PROVE  Fifo!OpenNext
BY Zenon DEF Fifo!OpenNext, Written, Is

LEMMA FifoExtends ==
  ASSUME NEW m \in DOMAIN Written, Written[m].is = "open",
         Written' = [Written EXCEPT ![m].data = Written'[m].data],
         Fifo!IsPrefix(Written[m].data, Written'[m].data)
  PROVE  m \in DOMAIN Written /\ Fifo!Extend(m)
BY DEF Fifo!Extend, Written, Is

LEMMA FifoFinishes ==
  ASSUME NEW m \in DOMAIN Written, Written[m].is = "open", NEW s \in {"closed", "abandoned"},
         Written' = [Written EXCEPT ![m].is = s]
  PROVE  Fifo!Finish(m)
BY Zenon DEF Fifo!Finish, Fifo!Standing, Written, Is

LEMMA FifoReceives ==
  ASSUME Len(Taken) < Len(Written), \A m \in DOMAIN Taken : Taken[m].ended,
         Taken' = Append(Taken, [type |-> Written[Len(Taken) + 1].type, data |-> <<>>, ended |-> FALSE])
  PROVE  Fifo!Receive
BY Zenon DEF Fifo!Receive, Written, Is, Taken

LEMMA FifoReads ==
  ASSUME NEW m \in DOMAIN Taken, ~Taken[m].ended,
         Taken' = [Taken EXCEPT ![m].data = Taken'[m].data],
         Fifo!IsPrefix(Taken[m].data, Taken'[m].data),
         Fifo!IsPrefix(Taken'[m].data, Written[m].data)
  PROVE  Fifo!ReadSome(m)
BY DEF Fifo!ReadSome, Written, Is, Taken

LEMMA FifoEnds ==
  ASSUME NEW m \in DOMAIN Taken, ~Taken[m].ended,
         \/ Written[m].is = "closed" /\ Taken[m].data = Written[m].data
         \/ Written[m].is = "abandoned",
         Taken' = [Taken EXCEPT ![m].ended = TRUE]
  PROVE  Fifo!ReadEnd(m)
BY DEF Fifo!ReadEnd, Written, Is, Taken

LEMMA FifoWrites ==
  ASSUME Taken' = Taken, Fifo!OpenNext \/ \E m \in DOMAIN Written : Fifo!Extend(m) \/ Fifo!Finish(m)
  PROVE  [Fifo!Write \/ Fifo!Read]_(Fifo!vars)
BY DEF Fifo!Write, Written, Is, Taken

LEMMA FifoTakes ==
  ASSUME Written' = Written, Fifo!Receive \/ \E m \in DOMAIN Taken : Fifo!ReadSome(m) \/ Fifo!ReadEnd(m)
  PROVE  [Fifo!Write \/ Fifo!Read]_(Fifo!vars)
BY DEF Fifo!Read, Written, Is, Taken

LEMMA FifoStays ==
  ASSUME Written' = Written, Taken' = Taken
  PROVE  [Fifo!Write \/ Fifo!Read]_(Fifo!vars)
BY DEF Fifo!vars, Written, Is, Taken

LEMMA FifoBegins ==
  ASSUME Init
  PROVE  Fifo!Init
<1>1. Opened = {} /\ DOMAIN got = {}
  BY DEF Init, Opened
<1>2. Written = <<>> /\ Taken = <<>>
  BY <1>1 DEF Written, Taken
<1> QED
  BY <1>2 DEF Fifo!Init, Written, Is, Taken

\* What was written is a sequence, in which each message opened is found.
LEMMA WrittenIs ==
  ASSUME Inv
  PROVE  \E j \in 0 .. Len(Plan) :
           /\ j \in Nat /\ Opened = 1 .. j /\ DOMAIN Written = 1 .. j
           /\ Written = [k \in 1 .. j |-> Written[k]]
           /\ \A k \in 1 .. j : k \in Messages /\ msg[k].opened
<1>1. PICK j \in 0 .. Len(Plan) : \A m \in Messages : msg[m].opened <=> m <= j
  BY DEF Inv, OpenedInv
<1>2. j \in Nat /\ Messages = 1 .. Len(Plan) /\ Len(Plan) \in Nat
  BY <1>1, PlanIs
<1>3. Opened = 1 .. j
  <2>1. \A m \in 1 .. Len(Plan) : m <= j <=> m \in 1 .. j
    BY <1>2
  <2>2. \A m \in 1 .. j : m \in 1 .. Len(Plan)
    BY <1>2
  <2> QED
    BY <1>1, <1>2, <2>1, <2>2 DEF Opened
<1>4. DOMAIN Written = 1 .. j
  BY <1>3 DEF Written
<1>5. Written = [k \in 1 .. j |-> Written[k]]
  BY <1>4 DEF Written
<1>6. \A k \in 1 .. j : k \in Messages /\ msg[k].opened
  BY <1>3 DEF Opened
<1> QED
  BY <1>2, <1>3, <1>4, <1>5, <1>6

LEMMA TakenIs ==
  ASSUME TypeOK
  PROVE  /\ Len(got) \in Nat /\ DOMAIN Taken = 1 .. Len(got)
         /\ Taken = [k \in 1 .. Len(got) |-> Taken[k]]
<1>1. Len(got) \in Nat /\ DOMAIN got = 1 .. Len(got)
  BY GotIs
<1>2. DOMAIN Taken = 1 .. Len(got)
  BY <1>1 DEF Taken
<1>3. Taken = [k \in 1 .. Len(got) |-> Taken[k]]
  BY <1>2 DEF Taken
<1> QED
  BY <1>1, <1>2, <1>3

LEMMA WrittenSame ==
  ASSUME \A k \in Messages : /\ msg'[k].opened = msg[k].opened /\ msg'[k].n = msg[k].n
                             /\ msg'[k].finished = msg[k].finished
                             /\ msg[k].finished => msg'[k].ignore = msg[k].ignore
  PROVE  Written' = Written
<1>1. Opened' = Opened
  BY DEF Opened
<1>2. \A k \in Opened : DataOf(k, msg'[k].n) = DataOf(k, msg[k].n) /\ Is(k)' = Is(k)
  BY DEF Opened, Is
<1> QED
  BY <1>1, <1>2 DEF Written

LEMMA TakenSame ==
  ASSUME TypeOK, got' \in Seq(Pushed), Len(got') = Len(got),
         \A k \in 1 .. Len(got) : got'[k].type = got[k].type /\ got'[k].read = got[k].read /\ got'[k].done = got[k].done
  PROVE  Taken' = Taken
<1>1. DOMAIN got = 1 .. Len(got) /\ DOMAIN got' = 1 .. Len(got)
  BY GotIs
<1> QED
  BY <1>1 DEF Taken

\* What there is of a message is its first bytes.
LEMMA DataIsText ==
  ASSUME NEW m \in Messages, NEW n \in 0 .. Len(Plan[m].writes)
  PROVE  DataOf(m, n) = Text(m, 0, Size(m, n)) /\ Size(m, n) \in Nat
<1>1. Size(m, n) \in Nat
  BY SizeIs, PlanIs
<1>2. \A i \in 1 .. Size(m, n) : 0 + i = i
  BY <1>1
<1>3. Size(m, n) - 0 = Size(m, n)
  BY <1>1
<1> QED
  BY <1>1, <1>2, <1>3 DEF DataOf, Text

\* The first bytes of a message begin with fewer of them.
LEMMA TextPrefix ==
  ASSUME NEW m \in Messages, NEW a \in Nat, NEW b \in Nat, a <= b
  PROVE  Fifo!IsPrefix(Text(m, 0, a), Text(m, 0, b))
<1> DEFINE zero == 0
           s == Text(m, zero, a)
           t == Text(m, zero, b)
<1>1. m \in Nat /\ zero \in Nat /\ zero <= a /\ zero <= b
  BY PlanIs
<1>2. a \in zero .. b - zero /\ zero \in zero .. b - zero /\ a \in zero .. a - zero /\ zero \in zero .. a - zero
      /\ a - zero = a /\ b - zero = b /\ zero + zero = zero /\ zero + a = a
  OBVIOUS
<1>3. s \in Buffers /\ t \in Buffers /\ Len(s) = a /\ Len(t) = b
  <2> HIDE DEF zero
  <2> QED
    BY <1>1, <1>2, TextType
<1>4. SubSeq(t, zero + 1, a) = s
  <2>1. zero \in 0 .. b - zero /\ a \in zero .. b - zero
    BY <1>2
  <2> HIDE DEF zero
  <2>2. SubSeq(Text(m, zero, b), zero + 1, a) = Text(m, zero + zero, zero + a)
    BY ONLY <1>1, <2>1, b \in Nat, TextSub
  <2> QED
    BY <1>2, <2>2
<1>5. SubSeq(s, zero + 1, a) = s
  <2>1. zero \in 0 .. a - zero /\ a \in zero .. a - zero
    BY <1>2
  <2> HIDE DEF zero
  <2> QED
    BY <1>1, <1>2, <2>1, TextSub
<1>6. zero + 1 = 1
  OBVIOUS
<1> HIDE DEF s, t
<1>7. Len(s) <= Len(t) /\ SubSeq(s, 1, Len(s)) = SubSeq(t, 1, Len(s))
  BY <1>3, <1>4, <1>5, <1>6
<1>8. Fifo!IsPrefix(s, t)
  BY <1>7 DEF Fifo!IsPrefix
<1> QED
  BY <1>8 DEF s, t

LEMMA OneChanges ==
  ASSUME NEW D, NEW f, f = [k \in D |-> f[k]], NEW g, g = [k \in D |-> g[k]], NEW m \in D,
         \A k \in D : k # m => g[k] = f[k]
  PROVE  g = [f EXCEPT ![m] = g[m]]
OBVIOUS

LEMMA WrittenAt ==
  ASSUME NEW k \in Opened
  PROVE  Written[k] = [type |-> Plan[k].type, data |-> DataOf(k, msg[k].n), is |-> Is(k)]
BY DEF Written

LEMMA WrittenAtNext ==
  ASSUME NEW k \in Messages, msg'[k].opened, NEW n, n = msg'[k].n, NEW is, is = Is(k)'
  PROVE  k \in DOMAIN Written' /\ Written'[k] = [type |-> Plan[k].type, data |-> DataOf(k, n), is |-> is]
<1>1. k \in Opened'
  BY DEF Opened
<1> QED
  BY <1>1 DEF Written, DataOf, Size

\* What the writer of a message does to what was written.
LEMMA WriterIsFifo ==
  ASSUME Inv, NEW m \in Messages, WriterStep(m)
  PROVE  [Fifo!Write \/ Fifo!Read]_(Fifo!vars)
<1>0. TypeOK /\ MessageOk(m)
  BY DEF Inv, MessageInv
<1>1. Taken' = Taken
  BY WriterKeeps DEF Taken
<1>2. PICK j \in 0 .. Len(Plan) :
        /\ j \in Nat /\ Opened = 1 .. j /\ DOMAIN Written = 1 .. j
        /\ Written = [k \in 1 .. j |-> Written[k]]
        /\ \A k \in 1 .. j : k \in Messages /\ msg[k].opened
  BY WrittenIs
<1>3. /\ msg[m] \in MsgType /\ msg[m].n \in Nat /\ msg[m].finished \in BOOLEAN /\ msg[m].ended \in BOOLEAN
      /\ msg[m].opened \in BOOLEAN /\ msg[m].ignore \in BOOLEAN
  BY <1>0, MsgIs DEF MsgType
<1>4. m \in Nat /\ m > 0 /\ Messages = 1 .. Len(Plan) /\ Len(Plan) \in Nat /\ Len(Plan[m].writes) \in Nat
  BY PlanIs
\* The same messages are open, and all but m stand as before.
<1>5. ASSUME \A k \in Messages : msg'[k].opened = msg[k].opened, \A k \in Messages : k # m => msg'[k] = msg[k]
      PROVE  /\ DOMAIN Written' = 1 .. j /\ Written' = [k \in 1 .. j |-> Written'[k]]
             /\ \A k \in 1 .. j : k # m => Written'[k] = Written[k]
  <2>1. Opened' = 1 .. j
    BY <1>2, <1>5 DEF Opened
  <2>2. DOMAIN Written' = 1 .. j
    BY <2>1 DEF Written
  <2>3. Written' = [k \in 1 .. j |-> Written'[k]]
    BY <2>2 DEF Written
  <2>4. ASSUME NEW k \in 1 .. j, k # m
        PROVE  Written'[k] = Written[k]
    <3>1. k \in Messages /\ k \in Opened /\ k \in Opened' /\ msg'[k] = msg[k]
      BY <1>2, <1>5, <2>1, <2>4
    <3>2. Is(k)' = Is(k)
      BY <3>1 DEF Is
    <3> QED
      BY <3>1, <3>2 DEF Written
  <2> QED
    BY <2>2, <2>3, <2>4
<1>6. CASE OpenMessage(m)
  <2>1. /\ ~msg[m].opened /\ (m > 1 => msg[m - 1].opened)
        /\ Only(m, [msg[m] EXCEPT !.opened = TRUE])
    BY <1>6, WriterDoes, Zenon DEF OpenMessage
  <2>2. /\ msg'[m].opened /\ msg'[m].n = msg[m].n /\ msg'[m].finished = msg[m].finished
        /\ \A k \in Messages : k # m => msg'[k] = msg[k]
    BY <1>3, <2>1 DEF Only, MsgType
  <2>3. m = j + 1
    <3>1. ~(m \in 1 .. j)
      BY <1>2, <2>1
    <3>2. m > 1 => m - 1 \in 1 .. j
      <4>1. m > 1 => m - 1 \in Messages
        BY <1>4
      <4> QED
        BY <1>2, <2>1, <4>1 DEF Opened
    <3> QED
      BY <1>2, <1>4, <3>1, <3>2
  <2>4. Opened' = 1 .. j + 1
    <3>1. \A k \in Messages : msg'[k].opened <=> k = m \/ k \in 1 .. j
      BY <1>2, <2>1, <2>2 DEF Opened
    <3>2. \A k \in 1 .. j + 1 : k = m \/ k \in 1 .. j
      BY <1>2, <2>3
    <3>3. \A k : k = m \/ k \in 1 .. j => k \in 1 .. j + 1
      BY <1>2, <2>3
    <3>4. \A k \in 1 .. j + 1 : k \in Messages
      BY <1>2, <3>2
    <3> QED
      BY <3>1, <3>2, <3>3, <3>4 DEF Opened
  <2>5. DOMAIN Written' = 1 .. j + 1
    BY <2>4 DEF Written
  <2>6. Written' = [k \in 1 .. j + 1 |-> Written'[k]]
    BY <2>5 DEF Written
  <2>7. ASSUME NEW k \in 1 .. j
        PROVE  Written'[k] = Written[k]
    <3>1. k \in Messages /\ k \in Opened /\ k \in Opened' /\ k # m
      BY <1>2, <2>3, <2>4
    <3>2. msg'[k] = msg[k]
      BY <2>2, <3>1
    <3>3. Is(k)' = Is(k)
      BY <3>2 DEF Is
    <3> QED
      BY <3>1, <3>2, <3>3 DEF Written
  <2> DEFINE e == Written'[j + 1]
  <2>8. Written' = Append(Written, e) /\ Len(Written) = j /\ Len(Written') = j + 1
    BY ONLY <1>2, <2>6, <2>7, OneMore
  <2>9. e = [type |-> e.type, data |-> <<>>, is |-> "open"]
    <3>1. msg[m].n = 0 /\ ~msg[m].finished
      BY <1>0, <1>3, <2>1 DEF MessageOk
    <3>2. DataOf(m, 0) = <<>>
      <4>1. 0 \in 0 .. Len(Plan[m].writes)
        BY <1>4
      <4>2. DataOf(m, 0) = Text(m, 0, 0)
        BY <4>1, DataIsText DEF Size
      <4> QED
        BY <1>4, <4>2, TextEmpty
    <3>3. Is(m)' = "open"
      BY <2>2, <3>1 DEF Is
    <3>4. Written'[m] = [type |-> Plan[m].type, data |-> DataOf(m, 0), is |-> "open"]
      BY <2>2, <3>1, <3>3, WrittenAtNext
    <3> QED
      BY <2>3, <3>2, <3>4
  <2>10. Fifo!OpenNext
    <3> HIDE DEF e
    <3>1. Len(Written) + 1 = j + 1 /\ Len(Written') = Len(Written) + 1
      BY <2>8
    <3>2. Written'[Len(Written) + 1].type = e.type
      BY <3>1 DEF e
    <3> QED
      BY <2>8, <2>9, <3>1, <3>2, FifoOpens
  <2> QED
    BY <1>1, <2>10, FifoWrites
<1>7. CASE WriteChunk(m)
  <2> DEFINE n == msg[m].n
  <2>1. /\ msg[m].opened /\ ~msg[m].ended /\ n < Len(Plan[m].writes)
        /\ Only(m, [msg[m] EXCEPT !.n = n + 1,
                      !.buffer = Append(msg[m].buffer, Text(m, Size(m, n), Size(m, n + 1)))])
    BY <1>7, WriterDoes, Zenon DEF WriteChunk
  <2> DEFINE c == Append(msg[m].buffer, Text(m, Size(m, n), Size(m, n + 1)))
             o == n + 1
  <2>2. Only(m, [msg[m] EXCEPT !.n = o, !.buffer = c])
    BY <2>1
  <2> HIDE DEF c, o
  <2>3. /\ msg'[m].opened = msg[m].opened /\ msg'[m].n = o /\ msg'[m].finished = msg[m].finished
        /\ \A k \in Messages : k # m => msg'[k] = msg[k]
    BY <1>3, <2>2 DEF Only, MsgType
  <2>4. /\ DOMAIN Written' = 1 .. j /\ Written' = [k \in 1 .. j |-> Written'[k]]
        /\ \A k \in 1 .. j : k # m => Written'[k] = Written[k]
    BY <1>5, <2>3
  <2>5. m \in Opened /\ m \in 1 .. j
    BY <1>2, <2>1 DEF Opened
  <2>6. Is(m) = "open" /\ Is(m)' = "open"
    BY <1>0, <1>3, <2>1, <2>3 DEF Is, MessageOk
  <2> PICK w : w = Written'[m]
    OBVIOUS
  <2>7. /\ Written[m] = [type |-> Plan[m].type, data |-> DataOf(m, n), is |-> "open"]
        /\ w = [type |-> Plan[m].type, data |-> DataOf(m, o), is |-> "open"]
    BY <2>1, <2>3, <2>5, <2>6, WrittenAt, WrittenAtNext, ZenonT(40)
  <2>8. w = [Written[m] EXCEPT !.data = w.data]
    BY <2>7
  <2>9. Written' = [Written EXCEPT ![m] = w]
    BY <1>2, <2>4, <2>5, OneChanges
  <2>10. Written' = [Written EXCEPT ![m].data = w.data]
    BY <2>8, <2>9
  <2>11. Fifo!IsPrefix(DataOf(m, n), DataOf(m, o))
    <3>1. n \in 0 .. o /\ n \in 0 .. Len(Plan[m].writes) /\ o \in 0 .. Len(Plan[m].writes)
      BY <1>3, <1>4, <2>1 DEF o
    <3>2. Size(m, n) \in Nat /\ Size(m, o) \in Nat /\ Size(m, n) <= Size(m, o)
      BY <3>1, SizeIs
    <3>3. DataOf(m, n) = Text(m, 0, Size(m, n)) /\ DataOf(m, o) = Text(m, 0, Size(m, o))
      BY <3>1, DataIsText
    <3> QED
      BY <3>2, <3>3, TextPrefix
  <2>12. Fifo!Extend(m)
    BY <1>2, <2>5, <2>7, <2>10, <2>11, FifoExtends
  <2> QED
    BY <1>1, <1>2, <2>5, <2>12, FifoWrites
<1>8. CASE FinishMessage(m)
  <2>1. /\ msg[m].ended /\ ~msg[m].finished
        /\ Only(m, [msg[m] EXCEPT !.finished = TRUE])
    BY <1>8, WriterDoes, Zenon DEF FinishMessage
  <2>2. /\ msg'[m].opened = msg[m].opened /\ msg'[m].n = msg[m].n /\ msg'[m].finished
        /\ \A k \in Messages : k # m => msg'[k] = msg[k]
    BY <1>3, <2>1 DEF Only, MsgType
  <2>3. /\ DOMAIN Written' = 1 .. j /\ Written' = [k \in 1 .. j |-> Written'[k]]
        /\ \A k \in 1 .. j : k # m => Written'[k] = Written[k]
    BY <1>5, <2>2
  <2>4. msg[m].opened /\ m \in Opened /\ m \in 1 .. j
    BY <1>0, <1>2, <1>3, <2>1 DEF Opened, MessageOk
  <2> PICK s : s = Is(m)'
    OBVIOUS
  <2>5. Is(m) = "open" /\ s \in {"closed", "abandoned"}
    BY <2>1, <2>2 DEF Is
  <2> PICK w : w = Written'[m]
    OBVIOUS
  <2>6. /\ Written[m] = [type |-> Plan[m].type, data |-> DataOf(m, msg[m].n), is |-> "open"]
        /\ w = [type |-> Plan[m].type, data |-> DataOf(m, msg[m].n), is |-> s]
    <3> PICK n : n = msg[m].n
      OBVIOUS
    <3>1. msg'[m].opened /\ n = msg'[m].n
      BY <2>2, <2>4
    <3>2. w = [type |-> Plan[m].type, data |-> DataOf(m, n), is |-> s]
      BY ONLY <3>1, WrittenAtNext, s = Is(m)', w = Written'[m], m \in Messages
    <3> QED
      BY <2>4, <2>5, <3>2, WrittenAt
  <2>7. w = [Written[m] EXCEPT !.is = s]
    BY <2>6
  <2>8. Written' = [Written EXCEPT ![m] = w]
    BY <1>2, <2>3, <2>4, OneChanges
  <2>9. Written' = [Written EXCEPT ![m].is = s]
    BY <2>7, <2>8
  <2>10. Fifo!Finish(m)
    <3>1. m \in DOMAIN Written /\ Written[m].is = "open"
      BY <1>2, <2>4, <2>6
    <3> QED
      BY ONLY <2>5, <2>9, <3>1, FifoFinishes
  <2> QED
    BY <1>1, <1>2, <2>4, <2>10, FifoWrites
<1>9. CASE EndMessage(m)
  <2>1. Only(m, [msg[m] EXCEPT !.ended = TRUE])
    BY <1>9, WriterDoes, Zenon
  <2>2. /\ msg'[m].opened = msg[m].opened /\ msg'[m].n = msg[m].n /\ msg'[m].finished = msg[m].finished
        /\ msg'[m].ignore = msg[m].ignore
        /\ \A k \in Messages : k # m => msg'[k] = msg[k]
    BY <1>3, <2>1 DEF Only, MsgType
  <2> QED
    BY <1>1, <2>2, WrittenSame, FifoStays
<1>10. CASE GiveUpMessage(m)
  <2>1. Only(m, [msg[m] EXCEPT !.ended = TRUE, !.ignore = TRUE]) /\ ~msg[m].finished
    BY <1>10, WriterDoes, Zenon DEF GiveUpMessage
  <2>2. /\ msg'[m].opened = msg[m].opened /\ msg'[m].n = msg[m].n /\ msg'[m].finished = msg[m].finished
        /\ \A k \in Messages : k # m => msg'[k] = msg[k]
    BY <1>3, <2>1 DEF Only, MsgType
  <2> QED
    BY <1>1, <2>1, <2>2, WrittenSame, FifoStays
<1> QED
  BY <1>6, <1>7, <1>8, <1>9, <1>10 DEF WriterStep

\* What the reader has of each message, before and after a step.
LEMMA TakenAt ==
  ASSUME NEW k \in DOMAIN got
  PROVE  k \in DOMAIN Taken /\ Taken[k] = [type |-> got[k].type, data |-> got[k].read, ended |-> got[k].done]
BY DEF Taken

LEMMA TakenNext ==
  ASSUME got' \in Seq(Pushed), NEW n \in Nat, Len(got') = n
  PROVE  /\ DOMAIN got' = 1 .. n /\ DOMAIN Taken' = 1 .. n /\ Taken' = [k \in 1 .. n |-> Taken'[k]]
         /\ \A k \in 1 .. n : Taken'[k] = [type |-> got'[k].type, data |-> got'[k].read, ended |-> got'[k].done]
<1>1. DOMAIN got' = 1 .. n
  OBVIOUS
<1>2. DOMAIN Taken' = 1 .. n
  BY <1>1 DEF Taken
<1>3. Taken' = [k \in 1 .. n |-> Taken'[k]]
  BY <1>2 DEF Taken
<1>4. \A k \in 1 .. n : Taken'[k] = [type |-> got'[k].type, data |-> got'[k].read, ended |-> got'[k].done]
  BY <1>1 DEF Taken
<1> QED
  BY <1>1, <1>2, <1>3, <1>4

\* What the reader was given of message k was written.
LEMMA TakenIsWritten ==
  ASSUME Inv, NEW k \in Messages, msg[k].opened
  PROVE  /\ k \in Opened /\ k \in DOMAIN Written
         /\ Written[k] = [type |-> Plan[k].type, data |-> DataOf(k, msg[k].n), is |-> Is(k)]
         /\ DataOf(k, msg[k].n) = Text(k, 0, Size(k, msg[k].n)) /\ Size(k, msg[k].n) \in Nat
<1>1. k \in Opened
  BY DEF Opened
<1>2. k \in DOMAIN Written
  BY <1>1 DEF Written
<1>3. msg[k].n \in 0 .. Len(Plan[k].writes)
  BY MsgIs, PlanIs DEF Inv, MessageInv, MessageOk
<1> QED
  BY <1>1, <1>2, <1>3, WrittenAt, DataIsText

\* What the reader does.
LEMMA ReaderIsFifo ==
  ASSUME Inv, ReadChunk
  PROVE  [Fifo!Write \/ Fifo!Read]_(Fifo!vars)
<1> PICK n : n = Len(got)
  OBVIOUS
<1> DEFINE g == got[n]
           h == got'[n]
<1>0. TypeOK
  BY DEF Inv
<1>1. PICK c \in 0 .. Passed : ReaderInv(c)
  BY DEF Inv, StreamInv
<1> PICK p : p = log[c]
  OBVIOUS
<1>2. /\ n \in 1 .. n /\ n \in Nat
      /\ got' \in Seq(Pushed) /\ Len(got') = n /\ \A k \in 1 .. n - 1 : got'[k] = got[k]
      /\ h.type = g.type /\ h.done = g.done
      /\ UNCHANGED <<msg, out, wire, inc, log>>
  BY ReadGives
<1>3. /\ c \in 1 .. Len(log) /\ p.m = n /\ n \in Messages /\ ~g.done
      /\ g.read = Text(n, 0, Len(g.read)) /\ h.read = Text(n, 0, Len(h.read))
      /\ Len(g.read) \in Nat /\ Len(h.read) \in Nat /\ End(p) \in Nat
      /\ Len(g.read) <= Len(h.read) /\ Len(h.read) <= End(p)
  BY <1>1, ReadsOn
<1>4. Written' = Written
  BY <1>2, WrittenSame
<1>5. /\ DOMAIN Taken = 1 .. n /\ Taken = [k \in 1 .. n |-> Taken[k]] /\ DOMAIN got = 1 .. n
  BY <1>0, TakenIs, GotIs
<1>6. /\ DOMAIN Taken' = 1 .. n /\ Taken' = [k \in 1 .. n |-> Taken'[k]]
      /\ \A k \in 1 .. n : Taken'[k] = [type |-> got'[k].type, data |-> got'[k].read, ended |-> got'[k].done]
  BY <1>2, TakenNext
<1>7. \A k \in 1 .. n : k # n => Taken'[k] = Taken[k]
  <2>1. \A k \in 1 .. n : k # n => k \in 1 .. n - 1
    BY <1>2
  <2>2. \A k \in 1 .. n : Taken[k] = [type |-> got[k].type, data |-> got[k].read, ended |-> got[k].done]
    BY <1>5, TakenAt
  <2>3. \A k \in 1 .. n - 1 : got'[k] = got[k]
    BY <1>2
  <2> QED
    BY ONLY <1>6, <2>1, <2>2, <2>3
<1> HIDE DEF g, h
<1> PICK w : w = Taken'[n]
  OBVIOUS
<1>8. /\ n \in DOMAIN Taken /\ Taken[n] = [type |-> g.type, data |-> g.read, ended |-> g.done]
      /\ w = [type |-> h.type, data |-> h.read, ended |-> h.done]
  BY <1>2, <1>5, <1>6, TakenAt DEF g, h
<1>9. Taken' = [Taken EXCEPT ![n].data = w.data]
  <2>1. w = [Taken[n] EXCEPT !.data = w.data]
    BY <1>2, <1>8
  <2>2. Taken' = [Taken EXCEPT ![n] = w]
    BY <1>2, <1>5, <1>6, <1>7, OneChanges
  <2> QED
    BY <2>1, <2>2
<1>10. Fifo!IsPrefix(g.read, h.read)
  BY <1>3, TextPrefix
<1>11. msg[n].opened /\ End(p) <= Size(n, msg[n].n)
  BY <1>3, PacketOf DEF Carries
<1>12. /\ Written[n] = [type |-> Plan[n].type, data |-> DataOf(n, msg[n].n), is |-> Is(n)]
       /\ DataOf(n, msg[n].n) = Text(n, 0, Size(n, msg[n].n)) /\ Size(n, msg[n].n) \in Nat
  BY <1>3, <1>11, TakenIsWritten
<1>13. Fifo!IsPrefix(h.read, Written[n].data)
  <2> PICK a : a = Len(h.read)
    OBVIOUS
  <2> PICK b : b = Size(n, msg[n].n)
    OBVIOUS
  <2>1. a \in Nat /\ b \in Nat /\ a <= b
    BY <1>3, <1>11, <1>12
  <2>2. h.read = Text(n, 0, a) /\ Written[n].data = Text(n, 0, b)
    BY <1>3, <1>12
  <2>3. Fifo!IsPrefix(Text(n, 0, a), Text(n, 0, b))
    BY <1>3, <2>1, TextPrefix
  <2> QED
    BY <2>2, <2>3
<1>14. Fifo!ReadSome(n)
  <2>1. ~Taken[n].ended /\ Taken[n].data = g.read /\ w.data = h.read
    BY <1>3, <1>8
  <2> QED
    BY <1>8, <1>9, <1>10, <1>13, <2>1, FifoReads
<1> QED
  BY <1>4, <1>8, <1>14, FifoTakes

LEMMA EndIsFifo ==
  ASSUME Inv, MessageEnds
  PROVE  [Fifo!Write \/ Fifo!Read]_(Fifo!vars)
<1> PICK n : n = Len(got)
  OBVIOUS
<1> DEFINE g == got[n]
           h == got'[n]
<1>0. TypeOK
  BY DEF Inv
<1>1. PICK c \in 0 .. Passed : ReaderInv(c)
  BY DEF Inv, StreamInv
<1> PICK p : p = log[c]
  OBVIOUS
<1>2. /\ n \in 1 .. n /\ n \in Nat /\ inc.current = n /\ inc.at = "end"
      /\ g.buffer = <<>>
      /\ got' \in Seq(Pushed) /\ Len(got') = n /\ \A k \in 1 .. n - 1 : got'[k] = got[k]
      /\ h.type = g.type /\ h.done /\ h.read = g.read
      /\ UNCHANGED <<msg, out, wire, log>>
  BY EndGives
<1>3. /\ c \in 1 .. Len(log) /\ p.m = n /\ n \in Messages /\ End(p) \in Nat /\ Len(g.read) \in Nat
      /\ IF IsLast(p.buffer)
         THEN \/ inc.current = 0 /\ inc.at \in {"idle", "loop"} /\ g.done
              \/ inc.current = p.m /\ inc.at = "end" /\ ~g.done
         ELSE inc.current = p.m /\ inc.at \in {"idle", "loop", "drain"} /\ ~g.done
      /\ g.read = Text(n, 0, Len(g.read))
      /\ Len(g.read) <= End(p)
      /\ Laid(Text(n, Len(g.read), End(p)), g.buffer)
  <2>1. n # 0
    BY <1>2
  <2> QED
    BY <1>1, <2>1, ReaderIs
<1>4. Written' = Written
  BY <1>2, WrittenSame
<1>5. /\ DOMAIN Taken = 1 .. n /\ Taken = [k \in 1 .. n |-> Taken[k]] /\ DOMAIN got = 1 .. n
  BY <1>0, TakenIs, GotIs
<1>6. /\ DOMAIN Taken' = 1 .. n /\ Taken' = [k \in 1 .. n |-> Taken'[k]]
      /\ \A k \in 1 .. n : Taken'[k] = [type |-> got'[k].type, data |-> got'[k].read, ended |-> got'[k].done]
  BY <1>2, TakenNext
<1>7. \A k \in 1 .. n : k # n => Taken'[k] = Taken[k]
  <2>1. \A k \in 1 .. n : k # n => k \in 1 .. n - 1
    BY <1>2
  <2>2. \A k \in 1 .. n : Taken[k] = [type |-> got[k].type, data |-> got[k].read, ended |-> got[k].done]
    BY <1>5, TakenAt
  <2>3. \A k \in 1 .. n - 1 : got'[k] = got[k]
    BY <1>2
  <2> QED
    BY ONLY <1>6, <2>1, <2>2, <2>3
<1>8. h.done = TRUE
  <2>1. h \in Pushed
    <3>1. \A k \in 1 .. n : got'[k] \in Pushed
      BY <1>2
    <3> QED
      BY <1>2, <3>1
  <2>2. h.done \in BOOLEAN
    BY <2>1 DEF Pushed
  <2> QED
    BY <1>2, <2>2, Zenon
<1> HIDE DEF g, h
<1> PICK w : w = Taken'[n]
  OBVIOUS
<1>9. /\ n \in DOMAIN Taken /\ Taken[n] = [type |-> g.type, data |-> g.read, ended |-> g.done]
      /\ w = [type |-> g.type, data |-> g.read, ended |-> TRUE]
  BY <1>2, <1>5, <1>6, <1>8, TakenAt DEF g, h
<1>10. Taken' = [Taken EXCEPT ![n].ended = TRUE]
  <2>1. w = [Taken[n] EXCEPT !.ended = TRUE]
    <3> DEFINE t == TRUE
    <3>1. w = [type |-> g.type, data |-> g.read, ended |-> t]
      BY <1>9
    <3> HIDE DEF t
    <3>2. w = [Taken[n] EXCEPT !.ended = t]
      <4> PICK a : a = g.type
        OBVIOUS
      <4> PICK b : b = g.read
        OBVIOUS
      <4> PICK d : d = g.done
        OBVIOUS
      <4>1. Taken[n] = [type |-> a, data |-> b, ended |-> d] /\ w = [type |-> a, data |-> b, ended |-> t]
        BY <1>9, <3>1
      <4> QED
        BY ONLY <4>1
    <3> QED
      BY <3>2 DEF t
  <2>2. Taken' = [Taken EXCEPT ![n] = w]
    BY <1>2, <1>5, <1>6, <1>7, OneChanges
  <2> QED
    BY <2>1, <2>2
<1>11. IsLast(p.buffer) /\ ~g.done
  BY <1>2, <1>3
<1>12. /\ msg[n].opened /\ msg[n].finished
       /\ ~msg[n].ignore => End(p) = Size(n, Len(Plan[n].writes))
  BY <1>3, <1>11, PacketOf DEF Carries
<1>13. /\ Written[n] = [type |-> Plan[n].type, data |-> DataOf(n, msg[n].n), is |-> Is(n)]
       /\ DataOf(n, msg[n].n) = Text(n, 0, Size(n, msg[n].n)) /\ Size(n, msg[n].n) \in Nat
  BY <1>3, <1>12, TakenIsWritten
<1>14. \/ Written[n].is = "closed" /\ Taken[n].data = Written[n].data
       \/ Written[n].is = "abandoned"
  <2>1. CASE msg[n].ignore
    BY <1>12, <1>13, <2>1 DEF Is
  <2>2. CASE ~msg[n].ignore
    <3> PICK a : a = Len(g.read)
      OBVIOUS
    <3> PICK b : b = End(p)
      OBVIOUS
    <3>1. a \in Nat /\ b \in Nat /\ a <= b /\ n \in Nat /\ Laid(Text(n, a, b), <<>>)
      BY <1>2, <1>3
    <3>2. Text(n, a, b) \in Buffers /\ Len(Text(n, a, b)) = b - a
      BY <3>1, TextType
    <3>3. Text(n, a, b) = <<>>
      BY <3>1, <3>2, LaidEmpty
    <3>4. b - a = 0
      BY <3>2, <3>3
    <3>5. a = b
      BY <3>1, <3>4
    <3>6. msg[n].n = Len(Plan[n].writes)
      BY <1>3, <1>12, <2>2 DEF Inv, MessageInv, MessageOk
    <3>7. g.read = DataOf(n, msg[n].n)
      BY <1>3, <1>12, <1>13, <2>2, <3>5, <3>6
    <3>8. Is(n) = "closed"
      BY <1>12, <2>2 DEF Is
    <3> QED
      BY <1>9, <1>13, <3>7, <3>8
  <2> QED
    BY <2>1, <2>2
<1>15. Fifo!ReadEnd(n)
  <2>1. ~Taken[n].ended
    BY <1>9, <1>11
  <2> QED
    BY <1>9, <1>10, <1>14, <2>1, FifoEnds
<1> QED
  BY <1>4, <1>9, <1>15, FifoTakes

LEMMA LengthIs ==
  ASSUME NEW j \in Nat, NEW s, s = [k \in 1 .. j |-> s[k]]
  PROVE  Len(s) = j
<1> DEFINE S == {s[k] : k \in 1 .. j}
<1>1. s \in [1 .. j -> S]
  OBVIOUS
<1> HIDE DEF S
<1>2. s \in Seq(S)
  BY <1>1
<1> QED
  BY <1>1, <1>2

\* A packet taken gives the reader a new message if it is the first, and nothing to read yet.
LEMMA PacketIsFifo ==
  ASSUME Inv, ProcessPacket
  PROVE  [Fifo!Write \/ Fifo!Read]_(Fifo!vars)
<1>0. TypeOK
  BY DEF Inv
<1>1. PICK c \in 0 .. Passed : Laid(inc.bl \o wire, Under(c)) /\ ReaderInv(c)
  BY DEF Inv, StreamInv
<1> PICK p : p = log[c + 1]
  OBVIOUS
<1> PICK opened : opened = OpenedFor(p)
  OBVIOUS
<1> PICK m : m = p.m
  OBVIOUS
<1> PICK n : n = Len(got)
  OBVIOUS
<1>2. /\ inc.at = "loop" /\ c < Passed /\ c + 1 \in 1 .. Len(log) /\ m \in Messages
      /\ UNCHANGED <<msg, out, wire, log>>
  BY <1>1, ProcessIs
<1>3. /\ got' \in Seq(Pushed) /\ Len(got') = m
      /\ \A k \in 1 .. m - 1 : got'[k] = opened[k]
      /\ got'[m].type = opened[m].type /\ got'[m].read = opened[m].read /\ ~got'[m].done
  BY <1>1, ProcessGives
<1>4. /\ opened \in Seq(Pushed) /\ Len(opened) = m /\ opened[m] \in Pushed
      /\ inc.current \in {0, m} /\ ~opened[m].done
      /\ inc.current # 0 => n = m
      /\ inc.current = 0 => m = n + 1 /\ \A k \in 1 .. n : got[k].done
  BY <1>1, <1>2, DueIs
<1>5. Written' = Written
  BY <1>2, WrittenSame
<1>6. m \in Nat /\ m > 0 /\ n \in Nat /\ DOMAIN got = 1 .. n
  BY <1>0, <1>2, GotIs, PlanIs
<1>7. m \in 1 .. m /\ got'[m].done = FALSE
  <2>1. m \in 1 .. m
    BY <1>6
  <2>2. got'[m] \in Pushed
    BY <1>3, <2>1
  <2>3. got'[m].done \in BOOLEAN
    BY <2>2 DEF Pushed
  <2> QED
    BY <1>3, <2>1, <2>3, Zenon
<1>8. CASE inc.current # 0
  <2>1. opened = got
    BY <1>8 DEF OpenedFor
  <2>2. opened[m].done = FALSE
    <3>1. opened[m].done \in BOOLEAN
      BY <1>4 DEF Pushed
    <3> QED
      BY <1>4, <3>1, Zenon
  <2>3. \A k \in 1 .. n : got'[k].type = got[k].type /\ got'[k].read = got[k].read /\ got'[k].done = got[k].done
    <3>1. \A k \in 1 .. n : k \in 1 .. m - 1 \/ k = m
      BY <1>4, <1>6, <1>8
    <3> QED
      BY <1>3, <1>7, <2>1, <2>2, <3>1
  <2>4. Taken' = Taken
    BY <1>0, <1>3, <1>4, <1>8, <2>3, TakenSame
  <2> QED
    BY <1>5, <2>4, FifoStays
<1>9. CASE inc.current = 0
  <2>1. m = n + 1 /\ \A k \in 1 .. n : got[k].done
    BY <1>4, <1>9
  <2> PICK r : r = [type |-> p.buffer[1], buffer |-> <<>>, ended |-> FALSE, read |-> <<>>, done |-> FALSE]
    OBVIOUS
  <2>2. opened = Append(got, r)
    BY <1>9 DEF OpenedFor
  <2>3. opened[m] = r /\ \A k \in 1 .. n : opened[k] = got[k]
    <3>1. got \in Seq(Pushed) /\ r \in Pushed
      <4>1. got \in Seq(Pushed)
        BY <1>0, TypesAre
      <4>2. p.buffer[1] \in Nat
        BY <1>2, PacketOf, PlanIs
      <4>3. <<>> \in Seq(Buffers) /\ <<>> \in Buffers
        BY DEF Buffers
      <4> QED
        BY <4>1, <4>2, <4>3 DEF Pushed
    <3> QED
      BY <2>1, <2>2, <3>1, AppendProperties
  <2>4. r.type = Plan[m].type /\ r.read = <<>>
    BY <1>2, PacketOf
  <2>5. \A k \in 1 .. n : got'[k] = got[k]
    <3>1. m - 1 = n
      BY <1>6, <2>1
    <3> QED
      BY <1>3, <2>3, <3>1
  <2>6. /\ DOMAIN Taken' = 1 .. n + 1 /\ Taken' = [k \in 1 .. n + 1 |-> Taken'[k]]
        /\ \A k \in 1 .. n + 1 : Taken'[k] = [type |-> got'[k].type, data |-> got'[k].read, ended |-> got'[k].done]
    BY <1>3, <1>6, <2>1, TakenNext
  <2>7. DOMAIN Taken = 1 .. n /\ Taken = [k \in 1 .. n |-> Taken[k]]
    BY <1>0, TakenIs
  <2>8. \A k \in 1 .. n : Taken'[k] = Taken[k]
    <3>1. \A k \in 1 .. n : k \in 1 .. n + 1
      BY <1>6
    <3>2. \A k \in 1 .. n : Taken[k] = [type |-> got[k].type, data |-> got[k].read, ended |-> got[k].done]
      BY <1>6, TakenAt
    <3> QED
      BY <2>5, <2>6, <3>1, <3>2, ZenonT(40)
  <2> PICK w : w = Taken'[n + 1]
    OBVIOUS
  <2>9. Taken' = Append(Taken, w) /\ Len(Taken) = n
    BY <1>6, <2>6, <2>7, <2>8, OneMore
  <2>10. w = [type |-> Plan[m].type, data |-> <<>>, ended |-> FALSE]
    <3>1. w = [type |-> got'[m].type, data |-> got'[m].read, ended |-> got'[m].done]
      BY <1>7, <2>1, <2>6
    <3> QED
      BY <1>3, <1>7, <2>3, <2>4, <3>1
  <2>11. msg[m].opened
    BY <1>2, PacketOf DEF Carries
  <2>12. PICK j \in 0 .. Len(Plan) :
           /\ j \in Nat /\ Opened = 1 .. j /\ DOMAIN Written = 1 .. j
           /\ Written = [k \in 1 .. j |-> Written[k]]
    BY WrittenIs
  <2>13. m \in 1 .. j /\ Written[m].type = Plan[m].type
    <3>1. /\ m \in DOMAIN Written
          /\ Written[m] = [type |-> Plan[m].type, data |-> DataOf(m, msg[m].n), is |-> Is(m)]
      BY <1>2, <2>11, TakenIsWritten
    <3> QED
      BY <2>12, <3>1
  <2>14. Len(Written) = j
    BY <2>12, LengthIs
  <2>15. Len(Taken) < Len(Written)
    BY <1>6, <2>1, <2>9, <2>12, <2>13, <2>14
  <2>16. \A k \in DOMAIN Taken : Taken[k].ended
    BY <1>6, <2>1, <2>7, TakenAt
  <2>17. Taken' = Append(Taken, [type |-> Written[Len(Taken) + 1].type, data |-> <<>>, ended |-> FALSE])
    BY <2>1, <2>9, <2>10, <2>13
  <2>18. Fifo!Receive
    BY <2>15, <2>16, <2>17, FifoReceives
  <2> QED
    BY <1>5, <2>18, FifoTakes
<1> QED
  BY <1>8, <1>9

\* What is cut into packets, sent and delivered is neither written nor read.
LEMMA RestIsFifo ==
  ASSUME Inv, UNCHANGED got, OnData \/ UNCHANGED msg
  PROVE  [Fifo!Write \/ Fifo!Read]_(Fifo!vars)
<1>0. TypeOK
  BY DEF Inv
<1>1. Taken' = Taken
  BY DEF Taken
<1>2. CASE OnData
  <2>1. Only(out.current, [msg[out.current] EXCEPT !.buffer = Tail(msg[out.current].buffer)])
    BY <1>2, DataDoes
  <2> DEFINE b == Tail(msg[out.current].buffer)
  <2>2. out.current \in Messages
    BY <1>2, DataIs
  <2>3. msg[out.current] \in MsgType
    BY <1>0, <2>2, MsgIs DEF MsgType
  <2> HIDE DEF b
  <2>4. \A k \in Messages : /\ msg'[k].opened = msg[k].opened /\ msg'[k].n = msg[k].n
                            /\ msg'[k].finished = msg[k].finished /\ msg'[k].ignore = msg[k].ignore
    <3>1. /\ \A k \in Messages : k # out.current => msg'[k] = msg[k]
          /\ msg'[out.current] = [msg[out.current] EXCEPT !.buffer = b]
      BY <2>1 DEF Only, b
    <3>2. LET k == out.current IN
          /\ msg'[k].opened = msg[k].opened /\ msg'[k].n = msg[k].n
          /\ msg'[k].finished = msg[k].finished /\ msg'[k].ignore = msg[k].ignore
      BY <2>3, <3>1 DEF MsgType
    <3> QED
      BY <3>1, <3>2
  <2> QED
    BY <1>1, <2>4, WrittenSame, FifoStays
<1>3. CASE UNCHANGED msg
  <2>1. Written' = Written
    BY <1>3, WrittenSame
  <2> QED
    BY <1>1, <2>1, FifoStays
<1> QED
  BY <1>2, <1>3

LEMMA StepIsFifo ==
  ASSUME Inv, [Next]_vars
  PROVE  [Fifo!Write \/ Fifo!Read]_(Fifo!vars)
<1>1. (\E m \in Messages : WriterStep(m)) => [Fifo!Write \/ Fifo!Read]_(Fifo!vars)
  BY WriterIsFifo
<1>2. ProcessPacket \/ ReadChunk \/ MessageEnds => [Fifo!Write \/ Fifo!Read]_(Fifo!vars)
  BY PacketIsFifo, ReaderIsFifo, EndIsFifo
<1>3. OnData => UNCHANGED got
  BY DEF OnData
<1>4. \/ \E n \in PacketSizes : SetPacketSize(n)
      \/ StartMessage \/ OnEnd \/ SocketReads \/ WaitForChunk \/ Drained
      \/ \E n \in 1 .. Len(wire) : Transform(n)
      \/ UNCHANGED vars
      => UNCHANGED <<msg, got>>
  BY Zenon DEF SetPacketSize, StartMessage, OnEnd, SocketReads, Transform, WaitForChunk, Drained, vars
<1> QED
  BY <1>1, <1>2, <1>3, <1>4, RestIsFifo DEF Next, WriterStep

\* However the bytes are cut and whatever waits for what, the two streams are a queue of messages:
\* in order, nothing lost, repeated or moved into the next message, no end before the last byte unless
\* the writer gave up (OutgoingMessageStream and IncomingMessageStream together).
THEOREM StreamsAreAFifo == Spec => ImplementsFifo
<1>1. Init => Fifo!Init
  BY FifoBegins
<1>2. Inv /\ [Next]_vars => [Fifo!Write \/ Fifo!Read]_(Fifo!vars)
  BY StepIsFifo
<1> QED
  BY <1>1, <1>2, StreamsInvariant, PTL DEF Spec, ImplementsFifo, Fifo!Spec
================================================================================
