-------------------------- MODULE RequestContract --------------------------
(* What a connection of the tedious driver promises about requests: one at *)
(* a time is pending, each is given one result, and when the connection is *)
(* lost the pending one is told so at that very moment.  How a result      *)
(* comes about - messages, timers, attentions - is not visible here.       *)
CONSTANTS Requests, None

VARIABLES
  pending,   \* the request being worked on, or None
  result,    \* what the callback of each request was told, or "none"
  open       \* can requests be made?

contract == <<pending, result, open>>

Init == pending = None /\ result = [r \in Requests |-> "none"] /\ open = TRUE

Tell(r, answers) == \E a \in answers : result' = [result EXCEPT ![r] = a]

Submit(r) ==
  /\ open /\ pending = None /\ result[r] = "none"
  /\ pending' = r
  /\ UNCHANGED <<result, open>>

\* Made in the wrong state, or cancelled before it was made.
Refuse(r) ==
  /\ pending # r /\ result[r] = "none"
  /\ Tell(r, {"EINVALIDSTATE", "ECANCEL"})
  /\ UNCHANGED <<pending, open>>

Complete ==
  /\ open /\ pending # None
  /\ Tell(pending, {"ok", "EREQUEST", "EPAYLOAD", "ECANCEL", "ETIMEOUT"})
  /\ pending' = None
  /\ UNCHANGED open

Disconnect ==
  /\ open /\ open' = FALSE /\ pending' = None
  /\ IF pending = None THEN UNCHANGED result
                       ELSE Tell(pending, {"ECLOSE", "ESOCKET", "ETIMEOUT"})

Next == (\E r \in Requests : Submit(r) \/ Refuse(r)) \/ Complete \/ Disconnect

Spec == Init /\ [][Next]_contract
=============================================================================
