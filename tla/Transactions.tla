------------------------------ MODULE Transactions ------------------------------
(* Transactions on a logged-in connection: transaction() with its txDone,       *)
(* beginTransaction, commitTransaction, rollbackTransaction, saveTransaction    *)
(* and reset (connection.ts, transaction.ts), the ENVCHANGE tokens that keep    *)
(* inTransaction and the transaction descriptors (token/handler.ts), and for    *)
(* TDS before 7.2 the depth counter that stands in for them.                    *)
(*                                                                              *)
(* A request is what ConnectionRequest makes of one: made when LOGGED_IN, or    *)
(* refused with EINVALIDSTATE; sent; executed by the server or not; answered,   *)
(* cancelled (while it is sent, with the ignore bit; afterwards, with an        *)
(* attention) or lost.  The user nests calls of transaction() properly, executes *)
(* in the innermost, ends with an error a transaction in which something failed *)
(* or during which 'rollbackTransaction' was emitted, and ends none while a     *)
(* request runs.  The server is external.  Work is a set: the transactions      *)
(* whose statements are in effect.                                              *)
EXTENDS Integers, Sequences, SequencesExt

CONSTANTS
  Versions,         \* values of options.tdsVersion: subset of {"7_1", "7_4"}
  MaxTransactions   \* bound: calls of transaction()

ASSUME TransactionsAssumption == Versions \subseteq {"7_1", "7_4"} /\ MaxTransactions \in Nat

Names == 1 .. MaxTransactions
None == [op |-> "none"]
Control == {"begin", "save", "commit", "rollback", "isolation"}

VARIABLES
  version, state, inTransaction, descriptors, depth, resetNext, isSqlBatch,
  request,   \* the request in flight, or None
  frames,    \* open calls of transaction(), the innermost last: name, useSavepoint, failed
  around,    \* of each name, itself and the transactions it was called in (history)
  outcome,   \* of each name, what done was told
  did,       \* the names with a statement that succeeded, and not only was told as done
  upset,     \* has a request failed or been ignored, or a reset hit an open transaction? (history)
  clouded,   \* was a begin, save, commit or rollback cancelled, or a reset refused? (history)
  server     \* count (@@TRANCOUNT), id of the transaction, its name, savepoints, work; committed work

client == <<version, state, inTransaction, descriptors, depth, resetNext, isSqlBatch, request>>
user == <<frames, around, outcome, did, upset, clouded>>
vars == <<client, user, server>>

Init ==
  /\ version \in Versions
  /\ state = "LOGGED_IN" /\ inTransaction = FALSE /\ descriptors = <<0>> /\ depth = 0
  /\ resetNext = FALSE /\ isSqlBatch = FALSE /\ request = None
  /\ frames = <<>> /\ around = [n \in Names |-> {}]
  /\ outcome = [n \in Names |-> "new"] /\ did = {} /\ upset = FALSE /\ clouded = FALSE
  /\ server = [count |-> 0, id |-> 0, name |-> 0, saves |-> <<>>, work |-> {}, committed |-> {}]

Old == version = "7_1"
Inner == frames[Len(frames)]
CurrentTransactionDescriptor == descriptors[Len(descriptors)]

Ops == Control \cup {"exec", "reset"}
Tokens == [kind : {"begin", "commit", "rollback"}, value : 0 .. MaxTransactions]
Payloads == [op : Ops, name : 0 .. MaxTransactions, descriptor : 0 .. MaxTransactions, reset : BOOLEAN,
             isolation : BOOLEAN, finished : BOOLEAN, tokens : Seq(Tokens), executed : BOOLEAN,
             err : BOOLEAN, canceled : BOOLEAN, ignore : BOOLEAN, late : BOOLEAN]
Frames == [name : Names, useSavepoint : BOOLEAN, failed : BOOLEAN]
Savepoints == [name : 0 .. MaxTransactions, work : SUBSET Names]
Sessions == [count : Nat, id : 0 .. MaxTransactions, name : 0 .. MaxTransactions,
             saves : Seq(Savepoints), work : SUBSET Names, committed : SUBSET Names]

TypeOK ==
  /\ version \in Versions /\ state \in {"LOGGED_IN", "SENT_CLIENT_REQUEST", "FINAL"}
  /\ {inTransaction, resetNext, isSqlBatch, upset, clouded} \subseteq BOOLEAN
  /\ descriptors \in Seq(0 .. MaxTransactions) /\ descriptors # <<>> /\ depth \in Int
  /\ request \in Payloads \cup {None}
  /\ frames \in Seq(Frames)
  /\ around \in [Names -> SUBSET Names]
  /\ outcome \in [Names -> {"new", "open", "ok", "failed", "refused", "unknown"}]
  /\ did \subseteq Names
  /\ server \in Sessions

(***************************** callbacks of requests *****************************)

\* The depth counter and inTransaction after the callback of an operation, before TDS 7.2.
Count(op, in, d) ==
  CASE op = "begin" -> <<d + 1, in \/ d + 1 = 1>>
    [] op = "save" -> <<d + 1, in>>
    [] op \in {"commit", "rollback"} -> <<d - 1, in /\ d - 1 # 0>>
    [] op = "reset" -> <<d, FALSE>>
    [] OTHER -> <<d, in>>

\* inTransaction when the callback is about to run: a failed batch is taken for a rollback.
AfterAnswer(in, err) == in /\ ~(Old /\ err /\ isSqlBatch)

KeepCount(op, in) ==
  IF Old THEN depth' = Count(op, in, depth)[1] /\ inTransaction' = Count(op, in, depth)[2]
         ELSE depth' = depth /\ inTransaction' = in

Told(result) ==
  /\ frames' = Front(frames)
  /\ outcome' = [outcome EXCEPT ![Inner.name] = result]

\* The callback of each operation, down to the user's callback or done. "err" is its error; "sure" says
\* that the server answered what it was asked, so that there is no doubt about what it did.
Completed(op, err, sure) ==
  /\ upset' = (upset \/ err)
  /\ UNCHANGED <<around, clouded>>
  /\ CASE op \in {"begin", "save"} /\ err -> Told("refused") /\ UNCHANGED did
       [] op = "commit" -> Told(IF ~err THEN "ok" ELSE IF sure THEN "failed" ELSE "unknown") /\ UNCHANGED did
       [] op = "rollback" -> Told("failed") /\ UNCHANGED did
       [] op = "exec" -> /\ frames' = [frames EXCEPT ![Len(frames)].failed = @ \/ err]
                         /\ did' = IF err \/ ~sure THEN did ELSE did \cup {Inner.name}
                         /\ UNCHANGED outcome
       [] op = "isolation" /\ err -> /\ frames' = [frames EXCEPT ![Len(frames)].failed = TRUE]
                                     /\ UNCHANGED <<outcome, did>>
       [] OTHER -> UNCHANGED <<frames, outcome, did>>

(******************************** making requests ********************************)

\* The payload: operation, name, the descriptor of the moment (of ALL_HEADERS), and the reset bit.
Payload(op, name) ==
  [op |-> op, name |-> name, descriptor |-> CurrentTransactionDescriptor, reset |-> resetNext,
   isolation |-> FALSE, finished |-> FALSE, tokens |-> <<>>, executed |-> FALSE, err |-> FALSE,
   canceled |-> FALSE, ignore |-> FALSE, late |-> FALSE]

\* makeRequest in LOGGED_IN. Before 7.2 every operation is a batch.
Make(op, name, batch) ==
  /\ state = "LOGGED_IN"
  /\ state' = "SENT_CLIENT_REQUEST" /\ isSqlBatch' = batch
  /\ request' = Payload(op, name)
  /\ UNCHANGED <<version, inTransaction, descriptors, depth, resetNext>>

\* makeRequest refuses: the callback runs at once with EINVALIDSTATE.
Refuse(op) ==
  /\ state # "LOGGED_IN"
  /\ KeepCount(op, inTransaction)
  /\ Completed(op, TRUE, TRUE)
  /\ UNCHANGED <<version, state, descriptors, resetNext, isSqlBatch, request>>

\* transaction(): a savepoint when inTransaction, else a transaction of its own; under a new name.
Transaction(isolation) == \E name \in Names :
  LET op == IF inTransaction THEN "save" ELSE "begin" IN
  /\ outcome[name] = "new" /\ \A n \in 1 .. name - 1 : outcome[n] # "new"
  /\ state = "LOGGED_IN"
  /\ frames # <<>> => ~Inner.failed
  /\ isolation => inTransaction
  /\ frames' = Append(frames, [name |-> name, useSavepoint |-> inTransaction, failed |-> FALSE])
  /\ around' = [around EXCEPT ![name] = {name} \cup (IF frames = <<>> THEN {} ELSE around[Inner.name])]
  /\ outcome' = [outcome EXCEPT ![name] = "open"]
  /\ state' = "SENT_CLIENT_REQUEST" /\ isSqlBatch' = Old
  /\ request' = [Payload(op, name) EXCEPT !.isolation = isolation]
  /\ UNCHANGED <<version, inTransaction, descriptors, depth, resetNext, did, upset, clouded, server>>

\* transaction() in any other state: cb(err). It leaves no frame, only what the counter makes of it
\* (bound: as the first failure only).
TransactionRefused ==
  /\ state # "LOGGED_IN" /\ ~upset
  /\ KeepCount(IF inTransaction THEN "save" ELSE "begin", inTransaction)
  /\ upset' = TRUE
  /\ UNCHANGED <<version, state, descriptors, resetNext, isSqlBatch, request, frames, around, outcome, did, clouded, server>>

Exec(batch) ==
  /\ frames # <<>> /\ ~Inner.failed
  /\ Make("exec", Inner.name, batch)
  /\ UNCHANGED <<user, server>>

\* Mutant: a nested transaction that failed is left to the outermost rollback.
TxDoneErrOutermost ==
  /\ frames # <<>> /\ request = None
  /\ IF inTransaction /\ state = "LOGGED_IN" /\ ~Inner.useSavepoint
     THEN Make("rollback", Inner.name, Old) /\ UNCHANGED user
     ELSE /\ Told("failed")
          /\ UNCHANGED <<client, around, did, upset, clouded>>
  /\ UNCHANGED server

\* txDone(err): roll back, if there is something to roll back and a connection to do it on.
TxDoneErr ==
  /\ frames # <<>> /\ request = None
  /\ IF inTransaction /\ state = "LOGGED_IN"
     THEN Make("rollback", Inner.name, Old) /\ UNCHANGED user
     ELSE /\ Told("failed")
          /\ UNCHANGED <<client, around, did, upset, clouded>>
  /\ UNCHANGED server

\* txDone(null): a savepoint is just left, a transaction is committed.
TxDoneOk ==
  /\ frames # <<>> /\ request = None /\ ~Inner.failed
  /\ \/ /\ Inner.useSavepoint
        /\ depth' = IF Old THEN depth - 1 ELSE depth
        /\ Told("ok")
        /\ UNCHANGED <<version, state, inTransaction, descriptors, resetNext, isSqlBatch, request, around, did, upset, clouded>>
     \/ ~Inner.useSavepoint /\ Make("commit", Inner.name, Old) /\ UNCHANGED user
     \/ ~Inner.useSavepoint /\ Refuse("commit")
  /\ UNCHANGED server

\* Mutant: the reset bit is asked for when the request has been made.
ResetTooLate ==
  /\ state = "LOGGED_IN"
  /\ state' = "SENT_CLIENT_REQUEST" /\ isSqlBatch' = TRUE /\ resetNext' = TRUE
  /\ request' = Payload("reset", 0)
  /\ UNCHANGED <<version, inTransaction, descriptors, depth, user, server>>

\* reset(): the flag, then the initial SQL as a batch.
Reset ==
  /\ state = "LOGGED_IN"
  /\ state' = "SENT_CLIENT_REQUEST" /\ isSqlBatch' = TRUE /\ resetNext' = TRUE
  /\ request' = [Payload("reset", 0) EXCEPT !.reset = TRUE]
  /\ upset' = (upset \/ depth # 0)
  /\ UNCHANGED <<version, inTransaction, descriptors, depth, frames, around, outcome, did, clouded, server>>

\* In any other state the batch is refused, but the flag stays (bound: once).
ResetRefused ==
  /\ state # "LOGGED_IN" /\ ~clouded
  /\ resetNext' = TRUE /\ upset' = TRUE /\ clouded' = TRUE
  /\ KeepCount("reset", inTransaction)
  /\ UNCHANGED <<version, state, descriptors, isSqlBatch, request, frames, around, outcome, did, server>>

\* 'finish' of the request message clears the flag, whoever set it.
MessageFinished ==
  /\ request # None /\ ~request.finished
  /\ request' = [request EXCEPT !.finished = TRUE]
  /\ resetNext' = FALSE
  /\ UNCHANGED <<version, state, inTransaction, descriptors, depth, isSqlBatch, user, server>>

\* connection.cancel(), or the request timer: an attention, or before 'finish' the ignore bit. Late is a
\* cancel that finds the payload ended and is not the timer's, nor followed by it: it leaves the request
\* without an error.
Cancel ==
  /\ request # None /\ ~request.canceled
  /\ \E late \in IF request.finished THEN {FALSE} ELSE BOOLEAN :
       request' = [request EXCEPT !.canceled = TRUE, !.ignore = ~request.finished, !.late = late]
  /\ clouded' = (clouded \/ request.op \in Control)
  /\ upset' = (upset \/ ~request.finished)
  /\ UNCHANGED <<version, state, inTransaction, descriptors, depth, resetNext, isSqlBatch,
                 frames, around, outcome, did, server>>

(******************************* the server (external) ***************************)

Rollback(s) == [count |-> 0, id |-> 0, name |-> 0, saves |-> <<>>, work |-> {}, committed |-> s.committed]
Env(kind, value) == [kind |-> kind, value |-> value]
Without(s) == IF s.count = 0 THEN <<>> ELSE <<Env("rollback", 0)>>

\* How the server may answer r in session s: <<session after, ENVCHANGE tokens, did it fail?>>.
Answers(s, r) ==
  LET fails == {<<s, <<>>, TRUE>>}
      saved == {i \in DOMAIN s.saves : s.saves[i].name = r.name} IN
  CASE r.op \in {"reset", "isolation"} -> {<<s, <<>>, FALSE>>} \cup fails
    [] r.op = "exec" ->
         fails \cup {<<Rollback(s), Without(s), TRUE>>}
         \cup {<<IF s.count > 0 THEN [s EXCEPT !.work = @ \cup {r.name}]
                 ELSE [s EXCEPT !.committed = @ \cup {r.name}], <<>>, FALSE>>}
    [] r.op = "begin" ->
         fails \cup {IF s.count = 0
                     THEN <<[s EXCEPT !.count = 1, !.id = r.name, !.name = r.name], <<Env("begin", r.name)>>, FALSE>>
                     ELSE <<[s EXCEPT !.count = @ + 1], <<>>, FALSE>>}
    [] r.op = "save" ->
         fails \cup (IF s.count = 0 THEN {}
                     ELSE {<<[s EXCEPT !.saves = Append(@, [name |-> r.name, work |-> s.work])], <<>>, FALSE>>})
    [] r.op = "commit" ->
         IF s.count = 0 THEN fails
         ELSE IF s.count > 1 THEN {<<[s EXCEPT !.count = @ - 1], <<>>, FALSE>>}
         ELSE {<<[Rollback(s) EXCEPT !.committed = @ \cup s.work], <<Env("commit", 0)>>, FALSE>>}
    [] r.op = "rollback" ->
         IF s.count > 0 /\ s.name = r.name THEN {<<Rollback(s), Without(s), FALSE>>}
         ELSE IF saved = {} THEN fails
         ELSE LET i == CHOOSE i \in saved : TRUE IN
              {<<[s EXCEPT !.saves = SubSeq(@, 1, i), !.work = s.saves[i].work], <<>>, FALSE>>}

\* The reset bit takes effect first, but nothing in a message with the ignore bit does. ENVCHANGE tokens of
\* transactions exist since 7.2; a descriptor that is not the session's is refused.
Execute ==
  /\ request # None /\ ~request.executed /\ request.finished
  /\ LET reset == request.reset /\ ~request.ignore
         clean == IF reset THEN Rollback(server) ELSE server
         before == IF reset THEN Without(server) ELSE <<>>
         foreign == ~Old /\ ~reset /\ request.descriptor # server.id IN
     \E a \in IF request.ignore \/ foreign THEN {<<server, <<>>, TRUE>>} ELSE Answers(clean, request) :
       /\ server' = a[1]
       /\ request' = [request EXCEPT !.executed = TRUE, !.err = a[3], !.tokens = IF Old THEN <<>> ELSE before \o a[2]]
  /\ UNCHANGED <<version, state, inTransaction, descriptors, depth, resetNext, isSqlBatch, user>>

(******************************* reading the answer ******************************)

\* Mutant: the descriptors are only ever pushed.
TokenPushes ==
  /\ request # None /\ request.tokens # <<>>
  /\ LET t == Head(request.tokens) IN
     /\ descriptors' = IF t.kind = "begin" THEN Append(descriptors, t.value) ELSE descriptors
     /\ inTransaction' = (t.kind = "begin")
     /\ frames' = IF t.kind # "rollback" THEN frames
                  ELSE [i \in DOMAIN frames |-> [frames[i] EXCEPT !.failed = TRUE]]
  /\ request' = [request EXCEPT !.tokens = Tail(@)]
  /\ UNCHANGED <<version, state, depth, resetNext, isSqlBatch, around, outcome, did, upset, clouded, server>>

\* onBeginTransaction, onCommitTransaction, onRollbackTransaction. The user hears of rollbacks.
Token ==
  /\ request # None /\ request.tokens # <<>>
  /\ LET t == Head(request.tokens) IN
     /\ descriptors' = IF t.kind = "begin" THEN Append(descriptors, t.value) ELSE <<descriptors[1]>>
     /\ inTransaction' = (t.kind = "begin")
     /\ frames' = IF t.kind # "rollback" THEN frames
                  ELSE [i \in DOMAIN frames |-> [frames[i] EXCEPT !.failed = TRUE]]
  /\ request' = [request EXCEPT !.tokens = Tail(@)]
  /\ UNCHANGED <<version, state, depth, resetNext, isSqlBatch, around, outcome, did, upset, clouded, server>>

\* onEndOfMessage; or the attention was acknowledged, whether the server had executed the request or not.
\* A request that was cancelled late has no error: its callback is told that it is done.
Answered ==
  /\ request # None /\ request.finished /\ request.tokens = <<>>
  /\ request.executed \/ (request.canceled /\ ~request.ignore)
  /\ LET err == ~request.late /\ (request.err \/ request.canceled)
         acknowledged == request.canceled /\ ~request.ignore
         in == IF acknowledged THEN inTransaction ELSE AfterAnswer(inTransaction, err)
         isolate == request.op = "save" /\ ~err /\ request.isolation IN
     /\ KeepCount(request.op, in)
     /\ Completed(request.op, err, ~request.canceled)
     /\ request' = IF isolate THEN Payload("isolation", 0) ELSE None
     /\ state' = IF isolate THEN "SENT_CLIENT_REQUEST" ELSE "LOGGED_IN"
     /\ isSqlBatch' = (isSqlBatch \/ isolate)
  /\ UNCHANGED <<version, descriptors, resetNext, server>>

\* The connection breaks: the server rolls back, the request's callback gets the error.
Lost ==
  /\ state # "FINAL"
  /\ state' = "FINAL" /\ request' = None
  /\ server' = Rollback(server)
  /\ IF request = None
     THEN UNCHANGED <<depth, inTransaction, user>>
     ELSE KeepCount(request.op, inTransaction) /\ Completed(request.op, TRUE, FALSE)
  /\ UNCHANGED <<version, descriptors, resetNext, isSqlBatch>>

Next ==
  \/ \E b \in BOOLEAN : Transaction(b) \/ Exec(b)
  \/ TransactionRefused
  \/ TxDoneErr \/ TxDoneOk
  \/ Reset \/ ResetRefused \/ MessageFinished \/ Cancel
  \/ Execute \/ Token \/ Answered \/ Lost

Spec == Init /\ [][Next]_vars

(********************************** properties **********************************)

(* With no request in flight, inTransaction says whether the server has a       *)
(* transaction and the descriptor the next request will carry is that one's,    *)
(* whatever was cancelled, failed, rolled back or reset before; with the depth  *)
(* counter of old TDS this holds until a request fails, is cancelled before it  *)
(* is sent (late, the counter counts a begin, save, commit or rollback that the *)
(* server ignored), or a reset comes while a transaction is open.               *)
SessionAgrees ==
  state = "LOGGED_IN" =>
    /\ ~Old => /\ inTransaction <=> server.count > 0
               /\ CurrentTransactionDescriptor = server.id
    /\ Old /\ ~upset => /\ inTransaction <=> server.count > 0
                        /\ server.count > 0 => depth = Len(frames)

(* transaction() is all or nothing: when it and all around it ended well, what  *)
(* it did is committed; when it or one around it failed, nothing of it is. (A   *)
(* statement that was cancelled late did nothing, though it is told as done and *)
(* its transaction commits without it, connection.ts:3001, 3032 and 3591. And   *)
(* not so once a begin, save, commit or rollback was itself cancelled, which can*)
(* leave a transaction open that nobody will end, or once a refused reset() left*)
(* its flag for whatever request comes next.)                                   *)
AllOrNothing ==
  ~Old /\ ~clouded => \A n \in Names :
    /\ (\A k \in around[n] : outcome[k] = "ok") /\ n \in did => n \in server.committed
    /\ (\E k \in around[n] : outcome[k] = "failed") => n \notin server.committed

(* A reset that reports success left the server without a transaction, and      *)
(* unless a reset was refused no other request resets the session.              *)
ResetResets ==
  [][/\ request # None /\ request.op = "reset" /\ request'.op = "none" /\ state' = "LOGGED_IN"
          /\ ~request.err /\ ~request.canceled => server.count = 0 /\ (~Old => ~inTransaction')
     /\ request.op = "none" /\ request'.op # "none" /\ ~clouded => (request'.reset <=> request'.op = "reset")]_vars
=================================================================================
