-------------------------- MODULE TransactionsProofs --------------------------
(* Proofs about transactions on a connection: what the client believes of the  *)
(* session is what the server has, a reset resets, and transaction() is all or *)
(* nothing, for any number and depth of nested transactions, both generations  *)
(* of the protocol and every order of cancels, failures and disconnects.       *)
EXTENDS Transactions, SequenceTheorems, TLAPS

-------------------------------------------------------------------------------
(* What a request in flight, the frames and the session look like.             *)

Going == request # None
Sent(op) == request.op = op /\ request.executed

\* A request is in flight in one state only; its answer follows its execution,
\* and that its last packet.  Only what was cancelled is ignored, and only what
\* is ignored was cancelled late.
OneRequest ==
  /\ Going <=> state = "SENT_CLIENT_REQUEST"
  /\ Going => /\ request.executed => request.finished
              /\ ~request.executed => request.tokens = <<>> /\ ~request.err
              /\ request.ignore => request.canceled
              /\ request.late => request.ignore

\* A request on behalf of a transaction() is on behalf of the innermost.
OfInnermost ==
  /\ request.op \in {"begin", "save", "commit", "rollback", "exec"} =>
       frames # <<>> /\ request.name = Inner.name
  /\ request.op = "isolation" => frames # <<>>
  /\ request.op = "commit" => ~Inner.useSavepoint

\* Without a transaction a session has none of its traces.
SessionWhole(s) ==
  IF s.count = 0 THEN s.id = 0 /\ s.name = 0 /\ s.saves = <<>> /\ s.work = {} ELSE s.id # 0

Session ==
  /\ SessionWhole(server)
  /\ state = "FINAL" => server.count = 0
  /\ descriptors[1] = 0

Shape == TypeOK /\ OneRequest /\ OfInnermost /\ Session

LEMMA NoneIsNoPayload == None \notin Payloads /\ None.op = "none" /\ "none" \notin Ops
  BY DEF None, Payloads, Ops, Control

LEMMA PrefixOfSeq ==
  ASSUME NEW S, NEW s \in Seq(S), NEW n \in 0 .. Len(s)
  PROVE  /\ SubSeq(s, 1, n) \in Seq(S) /\ Len(SubSeq(s, 1, n)) = n
         /\ \A i \in 1 .. n : SubSeq(s, 1, n)[i] = s[i]
<1>1. \A i \in 1 .. n : s[i] \in S
  BY ElementOfSeq, LenProperties
<1> QED
  BY <1>1, LenProperties, SubSeqProperties

LEMMA LastAndFront ==
  ASSUME NEW S, NEW s \in Seq(S), s # <<>>
  PROVE  /\ Len(s) \in Nat /\ Len(s) > 0 /\ s[Len(s)] \in S
         /\ Front(s) \in Seq(S) /\ Len(Front(s)) = Len(s) - 1
         /\ \A i \in 1 .. Len(s) - 1 : Front(s)[i] = s[i]
<1>1. /\ Len(s) \in Nat /\ Len(s) > 0 /\ \A i \in 1 .. Len(s) : s[i] \in S
  BY EmptySeq, LenProperties, ElementOfSeq
<1>2. /\ SubSeq(s, 1, Len(s) - 1) \in Seq(S)
      /\ Len(SubSeq(s, 1, Len(s) - 1)) = Len(s) - 1
      /\ \A i \in 1 .. Len(s) - 1 : SubSeq(s, 1, Len(s) - 1)[i] = s[i]
  <2>0. Len(s) - 1 \in 0 .. Len(s)
    BY <1>1
  <2>1. PICK n \in 0 .. Len(s) : n = Len(s) - 1
    BY <2>0
  <2>2. /\ SubSeq(s, 1, n) \in Seq(S) /\ Len(SubSeq(s, 1, n)) = n
        /\ \A i \in 1 .. n : SubSeq(s, 1, n)[i] = s[i]
    BY PrefixOfSeq
  <2> QED
    BY <2>1, <2>2
<1> QED
  BY <1>1, <1>2 DEF Front

\* The frame of the innermost transaction() is there, and Front drops it.
LEMMA FrontOfFrames ==
  ASSUME TypeOK, frames # <<>>
  PROVE  /\ Len(frames) \in Nat /\ Len(frames) > 0 /\ Inner \in Frames /\ Inner.name \in Names
         /\ Front(frames) \in Seq(Frames) /\ Len(Front(frames)) = Len(frames) - 1
         /\ \A i \in 1 .. Len(frames) - 1 : Front(frames)[i] = frames[i]
<1>1. frames \in Seq(Frames)
  BY DEF TypeOK
<1>2. Inner \in Frames
  BY <1>1, LastAndFront DEF Inner
<1> QED
  BY <1>1, <1>2, LastAndFront DEF Frames

LEMMA PayloadType ==
  ASSUME TypeOK, NEW op \in Ops, NEW name \in 0 .. MaxTransactions
  PROVE  /\ Payload(op, name) \in Payloads /\ Payload(op, name) # None
         /\ CurrentTransactionDescriptor \in 0 .. MaxTransactions
<1>1. CurrentTransactionDescriptor \in 0 .. MaxTransactions
  BY LastAndFront DEF TypeOK, CurrentTransactionDescriptor
<1>2. resetNext \in BOOLEAN
  BY DEF TypeOK
<1>3. Payload(op, name) \in Payloads
  BY <1>1, <1>2 DEF Payload, Payloads
<1> QED
  BY <1>1, <1>3, NoneIsNoPayload

\* The depth counter.
LEMMA CountType ==
  ASSUME TypeOK, NEW op, NEW in \in BOOLEAN, KeepCount(op, in)
  PROVE  depth' \in Int /\ inTransaction' \in BOOLEAN
<1>1. depth \in Int
  BY DEF TypeOK
<1>2. Count(op, in, depth)[1] \in Int /\ Count(op, in, depth)[2] \in BOOLEAN
  <2>1. CASE op = "begin"
    BY <1>1, <2>1 DEF Count
  <2>2. CASE op = "save"
    BY <1>1, <2>2 DEF Count
  <2>3. CASE op \in {"commit", "rollback"}
    <3>1. Count(op, in, depth) = <<depth - 1, in /\ depth - 1 # 0>>
      BY <2>3 DEF Count
    <3> QED
      BY <1>1, <3>1
  <2>4. CASE op = "reset"
    BY <1>1, <2>4 DEF Count
  <2>5. CASE op \notin {"begin", "save", "commit", "rollback", "reset"}
    BY <1>1, <2>5 DEF Count
  <2> QED
    BY <2>1, <2>2, <2>3, <2>4, <2>5
<1> QED
  BY <1>1, <1>2 DEF KeepCount

\* What the callback of an operation does to the transactions.
LEMMA ToldType ==
  ASSUME TypeOK, frames # <<>>, NEW result \in {"ok", "failed", "refused", "unknown"}, Told(result)
  PROVE  /\ frames' \in Seq(Frames)
         /\ outcome' \in [Names -> {"new", "open", "ok", "failed", "refused", "unknown"}]
  BY FrontOfFrames DEF TypeOK, Told

LEMMA CompletedType ==
  ASSUME TypeOK, NEW op \in Ops, NEW err \in BOOLEAN, NEW sure \in BOOLEAN,
         op # "reset" => frames # <<>>, Completed(op, err, sure)
  PROVE  /\ frames' \in Seq(Frames)
         /\ outcome' \in [Names -> {"new", "open", "ok", "failed", "refused", "unknown"}]
         /\ did' \subseteq Names
         /\ upset' \in BOOLEAN /\ UNCHANGED <<around, clouded>>
<1>1. upset' \in BOOLEAN /\ UNCHANGED <<around, clouded>>
  BY DEF Completed, TypeOK
<1>2. CASE UNCHANGED <<frames, outcome, did>>
  BY <1>1, <1>2 DEF TypeOK
<1>3. CASE op \in {"begin", "save"} /\ err
  BY <1>1, <1>3, ToldType DEF Completed, TypeOK
<1>4. CASE op \in {"commit", "rollback"}
  BY <1>1, <1>4, ToldType DEF Completed, TypeOK
<1>5. CASE op = "exec" \/ (op = "isolation" /\ err)
  <2>1. \E b \in BOOLEAN : frames' = [frames EXCEPT ![Len(frames)].failed = b]
    BY <1>5, FrontOfFrames DEF Completed, Frames, TypeOK
  <2>2. frames' \in Seq(Frames)
    <3>1. PICK b \in BOOLEAN : frames' = [frames EXCEPT ![Len(frames)].failed = b]
      BY <2>1
    <3>2. [Inner EXCEPT !.failed = b] \in Frames /\ frames # <<>>
      BY <1>5, FrontOfFrames DEF Frames
    <3>3. frames' = [frames EXCEPT ![Len(frames)] = [Inner EXCEPT !.failed = b]]
      BY <3>1 DEF Inner
    <3>4. Len(frames) \in 1 .. Len(frames)
      BY <3>2, FrontOfFrames
    <3> QED
      BY <3>2, <3>3, <3>4, ExceptSeq DEF TypeOK
  <2>3. did' \subseteq Names /\ outcome' = outcome
    BY <1>5, FrontOfFrames DEF Completed, TypeOK
  <2> QED
    BY <1>1, <2>2, <2>3 DEF TypeOK
<1>6. CASE op = "reset" \/ (op \in {"begin", "save", "isolation"} /\ ~err)
  BY <1>2, <1>6 DEF Completed
<1> QED
  BY <1>3, <1>4, <1>5, <1>6 DEF Ops, Control

-------------------------------------------------------------------------------
(* What the server answers.                                                      *)

LEMMA RollbackType ==
  ASSUME NEW s \in Sessions
  PROVE  /\ Rollback(s) \in Sessions /\ Rollback(s).committed = s.committed
         /\ Rollback(s).count = 0 /\ Rollback(s).id = 0 /\ Rollback(s).name = 0
         /\ Rollback(s).saves = <<>> /\ Rollback(s).work = {}
         /\ Without(s) \in Seq(Tokens) /\ Len(Without(s)) <= 1
         /\ s.count = 0 => Without(s) = <<>>
         /\ s.count # 0 => Without(s) = <<Env("rollback", 0)>>
<1>1. Env("rollback", 0) \in Tokens
  BY TransactionsAssumption DEF Env, Tokens
<1>2. Without(s) \in Seq(Tokens) /\ Len(Without(s)) <= 1
  BY <1>1 DEF Without
<1>3. <<>> \in Seq(Savepoints)
  OBVIOUS
<1>4. Rollback(s) \in Sessions
  BY <1>3, TransactionsAssumption DEF Rollback, Sessions
<1> QED
  BY <1>2, <1>4 DEF Rollback, Without

\* The answers to a request that succeeded, one by one.
Began(s, r, t) == /\ s.count = 0
                  /\ t = [s EXCEPT !.count = 1, !.id = r.name, !.name = r.name]
Saved(s, r, t) == /\ s.count # 0
                  /\ t = [s EXCEPT !.saves = Append(@, [name |-> r.name, work |-> s.work])]
Committed(s, t) == s.count = 1 /\ t = [Rollback(s) EXCEPT !.committed = @ \cup s.work]
Returned(s, r, t) ==
  \E i \in DOMAIN s.saves : /\ s.saves[i].name = r.name
                            /\ t = [s EXCEPT !.saves = SubSeq(@, 1, i), !.work = s.saves[i].work]
Worked(s, r, t) == t = IF s.count > 0 THEN [s EXCEPT !.work = @ \cup {r.name}]
                                      ELSE [s EXCEPT !.committed = @ \cup {r.name}]

\* A request fails without a trace only if it may: a commit where there is no
\* transaction, a rollback where there is neither transaction nor savepoint.
MayFail(s, r) ==
  /\ r.op = "commit" => s.count = 0
  /\ r.op = "rollback" => /\ ~(s.count > 0 /\ s.name = r.name)
                          /\ \A i \in DOMAIN s.saves : s.saves[i].name # r.name

\* What an answer a can be.
Answer(s, r, a) ==
  \/ MayFail(s, r) /\ a = <<s, <<>>, TRUE>>
  \/ r.op \in {"reset", "isolation"} /\ a = <<s, <<>>, FALSE>>
  \/ r.op = "exec" /\ a = <<Rollback(s), Without(s), TRUE>>
  \/ r.op = "exec" /\ \E t : Worked(s, r, t) /\ a = <<t, <<>>, FALSE>>
  \/ r.op = "begin" /\ \E t : Began(s, r, t) /\ a = <<t, <<Env("begin", r.name)>>, FALSE>>
  \/ r.op = "begin" /\ s.count # 0 /\ a = <<[s EXCEPT !.count = @ + 1], <<>>, FALSE>>
  \/ r.op = "save" /\ \E t : Saved(s, r, t) /\ a = <<t, <<>>, FALSE>>
  \/ r.op = "commit" /\ s.count > 1 /\ a = <<[s EXCEPT !.count = @ - 1], <<>>, FALSE>>
  \/ r.op = "commit" /\ \E t : Committed(s, t) /\ a = <<t, <<Env("commit", 0)>>, FALSE>>
  \/ /\ r.op = "rollback" /\ s.count > 0 /\ s.name = r.name
     /\ a = <<Rollback(s), Without(s), FALSE>>
  \/ /\ r.op = "rollback" /\ ~(s.count > 0 /\ s.name = r.name)
     /\ \E t : Returned(s, r, t) /\ a = <<t, <<>>, FALSE>>

LEMMA AnswersAre ==
  ASSUME NEW s \in Sessions, NEW r \in Payloads, NEW a \in Answers(s, r)
  PROVE  Answer(s, r, a)
<1>1. s.count \in Nat
  BY DEF Sessions
<1>2. CASE r.op = "exec"
  BY <1>2 DEF Answers, Answer, Worked, MayFail
<1>3. CASE r.op = "begin"
  BY <1>3 DEF Answers, Answer, Began, MayFail
<1>4. CASE r.op = "save"
  BY <1>4 DEF Answers, Answer, Saved, MayFail
<1>5. CASE r.op = "commit"
  <2>0. Answers(s, r) =
          IF s.count = 0 THEN {<<s, <<>>, TRUE>>}
          ELSE IF s.count > 1 THEN {<<[s EXCEPT !.count = @ - 1], <<>>, FALSE>>}
          ELSE {<<[Rollback(s) EXCEPT !.committed = @ \cup s.work], <<Env("commit", 0)>>, FALSE>>}
    BY <1>5, Zenon DEF Answers
  <2>1. CASE s.count = 0
    BY <1>5, <2>0, <2>1 DEF Answer, MayFail
  <2>2. CASE s.count > 1
    <3>0. s.count # 0
      BY <2>2
    <3>1. a = <<[s EXCEPT !.count = @ - 1], <<>>, FALSE>>
      BY <2>0, <2>2, <3>0, Zenon
    <3> QED
      BY <1>5, <2>2, <3>1, Zenon DEF Answer
  <2>3. CASE s.count = 1
    <3> DEFINE t == [Rollback(s) EXCEPT !.committed = @ \cup s.work]
    <3>0. s.count # 0 /\ ~(s.count > 1)
      BY <2>3
    <3>1. a = <<t, <<Env("commit", 0)>>, FALSE>>
      BY <2>0, <3>0, Zenon
    <3>2. Committed(s, t)
      BY <2>3 DEF Committed
    <3> HIDE DEF t
    <3> QED
      BY <1>5, <3>1, <3>2 DEF Answer
  <2> QED
    BY <1>1, <2>1, <2>2, <2>3
<1>6. CASE r.op = "rollback"
  <2> DEFINE saved == {i \in DOMAIN s.saves : s.saves[i].name = r.name}
  <2>1. CASE s.count > 0 /\ s.name = r.name
    BY <1>6, <2>1 DEF Answers, Answer
  <2>2. CASE ~(s.count > 0 /\ s.name = r.name) /\ saved = {}
    BY <1>6, <2>2 DEF Answers, Answer, MayFail
  <2>3. CASE ~(s.count > 0 /\ s.name = r.name) /\ saved # {}
    <3>1. PICK i \in saved :
            a = <<[s EXCEPT !.saves = SubSeq(@, 1, i), !.work = s.saves[i].work], <<>>, FALSE>>
      BY <1>6, <2>3 DEF Answers
    <3>2. Returned(s, r, [s EXCEPT !.saves = SubSeq(@, 1, i), !.work = s.saves[i].work])
      BY <3>1 DEF Returned
    <3> QED
      BY <1>6, <2>3, <3>1, <3>2 DEF Answer
  <2> QED
    BY <2>1, <2>2, <2>3
<1>7. CASE r.op \in {"reset", "isolation"}
  BY <1>7 DEF Answers, Answer, MayFail
<1> QED
  BY <1>2, <1>3, <1>4, <1>5, <1>6, <1>7 DEF Payloads, Ops, Control

\* The tokens sent tell what has become of the transaction; no token, no change.
TokensTell(s, t, tokens) ==
  IF tokens = <<>> THEN (t.count > 0 <=> s.count > 0) /\ t.id = s.id
  ELSE LET token == tokens[Len(tokens)] IN
       /\ token.kind = "begin" <=> t.count > 0
       /\ t.id = IF token.kind = "begin" THEN token.value ELSE 0

LEMMA AnswerTells ==
  ASSUME NEW s \in Sessions, NEW r \in Payloads, NEW a, Answer(s, r, a), SessionWhole(s),
         r.op \in {"begin", "exec"} => r.name \in Names
  PROVE  /\ a[1] \in Sessions /\ SessionWhole(a[1])
         /\ a[2] \in Seq(Tokens) /\ Len(a[2]) <= 1 /\ TokensTell(s, a[1], a[2])
         /\ a[3] \in BOOLEAN
<1> DEFINE Good(t, tokens) == /\ t \in Sessions /\ SessionWhole(t)
                              /\ tokens \in Seq(Tokens) /\ Len(tokens) <= 1
                              /\ TokensTell(s, t, tokens)
<1>1. /\ s.count \in Nat /\ s.id \in 0 .. MaxTransactions /\ s.name \in 0 .. MaxTransactions
      /\ s.saves \in Seq(Savepoints) /\ s.work \subseteq Names /\ s.committed \subseteq Names
      /\ r.name \in 0 .. MaxTransactions
  BY DEF Sessions, Payloads
<1>2. <<>> \in Seq(Tokens) /\ Len(<<>>) = 0
  OBVIOUS
<1>3. ASSUME NEW t \in Sessions, t.count > 0 <=> s.count > 0, t.id = s.id, SessionWhole(t)
      PROVE  Good(t, <<>>)
  BY <1>2, <1>3 DEF TokensTell
<1>4. Good(s, <<>>)
  BY <1>2, <1>3
<1>5. Good(Rollback(s), Without(s))
  <2>1. /\ Rollback(s) \in Sessions /\ SessionWhole(Rollback(s))
        /\ Rollback(s).count = 0 /\ Rollback(s).id = 0
    BY RollbackType DEF SessionWhole
  <2>2. CASE s.count = 0
    BY <1>3, <2>1, <2>2, RollbackType DEF SessionWhole
  <2>3. CASE s.count # 0
    <3>1. /\ Without(s) = <<Env("rollback", 0)>> /\ Without(s) \in Seq(Tokens)
          /\ Len(Without(s)) = 1 /\ Without(s)[1].kind = "rollback" /\ Without(s) # <<>>
      BY <2>3, RollbackType DEF Env
    <3> QED
      BY <2>1, <3>1 DEF TokensTell
  <2> QED
    BY <2>2, <2>3
<1>6. ASSUME NEW t, r.op = "exec", Worked(s, r, t) PROVE Good(t, <<>>)
  <2>1. CASE s.count > 0
    <3>1. /\ t \in Sessions /\ t.count = s.count /\ t.id = s.id
      BY <1>1, <1>6, <2>1 DEF Worked, Sessions
    <3> QED
      BY <1>3, <2>1, <3>1 DEF SessionWhole
  <2>2. CASE s.count = 0
    <3>1. /\ t \in Sessions /\ t.count = s.count /\ t.id = s.id /\ t.name = s.name
          /\ t.saves = s.saves /\ t.work = s.work
      BY <1>1, <1>6, <2>2 DEF Worked, Sessions
    <3> QED
      BY <1>3, <2>2, <3>1 DEF SessionWhole
  <2> QED
    BY <1>1, <2>1, <2>2
<1>7. ASSUME NEW t, r.op = "begin", Began(s, r, t) PROVE Good(t, <<Env("begin", r.name)>>)
  <2>1. t = [[[s EXCEPT !.count = 1] EXCEPT !.id = r.name] EXCEPT !.name = r.name] /\ r.name # 0
    BY <1>7 DEF Began, Names
  <2>2. t \in Sessions /\ t.count = 1 /\ t.id = r.name
    BY <1>1, <2>1 DEF Sessions
  <2>3. Env("begin", r.name) \in Tokens
    BY <1>1 DEF Env, Tokens
  <2> QED
    BY <2>1, <2>2, <2>3 DEF SessionWhole, TokensTell, Env
<1>8. ASSUME s.count # 0 PROVE Good([s EXCEPT !.count = @ + 1], <<>>)
  BY <1>1, <1>3, <1>8 DEF Sessions, SessionWhole
<1>9. ASSUME s.count > 1 PROVE Good([s EXCEPT !.count = @ - 1], <<>>)
  BY <1>1, <1>3, <1>9, SMTT(30) DEF Sessions, SessionWhole
<1>10. ASSUME NEW t, Saved(s, r, t) PROVE Good(t, <<>>)
  <2>1. [name |-> r.name, work |-> s.work] \in Savepoints
    BY <1>1 DEF Savepoints
  <2>2. Append(s.saves, [name |-> r.name, work |-> s.work]) \in Seq(Savepoints)
    BY <1>1, <2>1
  <2>3. t \in Sessions /\ t.count = s.count /\ t.id = s.id /\ s.count # 0
    BY <1>1, <1>10, <2>2 DEF Saved, Sessions
  <2> QED
    BY <1>1, <1>3, <2>3 DEF SessionWhole
<1>11. ASSUME NEW t, Committed(s, t) PROVE Good(t, <<Env("commit", 0)>>)
  <2>1. /\ Rollback(s) \in Sessions /\ Rollback(s).committed = s.committed
        /\ SessionWhole(Rollback(s)) /\ Rollback(s).count = 0 /\ Rollback(s).id = 0
    BY RollbackType DEF SessionWhole
  <2>2. /\ t \in Sessions /\ SessionWhole(t) /\ t.count = 0 /\ t.id = 0
    BY <1>1, <1>11, <2>1 DEF Committed, Sessions, SessionWhole
  <2>3. Env("commit", 0) \in Tokens
    BY TransactionsAssumption DEF Env, Tokens
  <2> QED
    BY <2>2, <2>3 DEF TokensTell, Env
<1>12. ASSUME NEW t, Returned(s, r, t) PROVE Good(t, <<>>)
  <2>1. PICK i \in DOMAIN s.saves :
          t = [s EXCEPT !.saves = SubSeq(@, 1, i), !.work = s.saves[i].work]
    BY <1>12 DEF Returned
  <2>2. i \in 1 .. Len(s.saves) /\ s.saves[i] \in Savepoints
    BY <1>1
  <2>3. SubSeq(s.saves, 1, i) \in Seq(Savepoints) /\ s.saves[i].work \subseteq Names
    <3>1. SubSeq(s.saves, 1, i) \in Seq(Savepoints)
      BY <1>1, <2>2, PrefixOfSeq
    <3> QED
      BY <2>2, <3>1 DEF Savepoints
  <2>4. t \in Sessions /\ t.count = s.count /\ t.id = s.id
    BY <1>1, <2>1, <2>3 DEF Sessions
  <2>5. s.count # 0
    BY <2>2 DEF SessionWhole
  <2> QED
    BY <1>1, <1>3, <2>4, <2>5 DEF SessionWhole
<1> HIDE DEF Good
<1>13. \A x, y, z : a = <<x, y, z>> /\ Good(x, y) /\ z \in BOOLEAN =>
                   Good(a[1], a[2]) /\ a[3] \in BOOLEAN
  OBVIOUS
<1>14. Good(a[1], a[2]) /\ a[3] \in BOOLEAN
  <2>1. CASE a = <<s, <<>>, TRUE>> \/ a = <<s, <<>>, FALSE>> \/ \E b \in BOOLEAN : a = <<Rollback(s), Without(s), b>>
    BY <1>4, <1>5, <1>13, <2>1
  <2>2. CASE \/ r.op = "exec" /\ \E t : Worked(s, r, t) /\ a = <<t, <<>>, FALSE>>
             \/ r.op = "save" /\ \E t : Saved(s, r, t) /\ a = <<t, <<>>, FALSE>>
             \/ \E t : Returned(s, r, t) /\ a = <<t, <<>>, FALSE>>
    BY <1>6, <1>10, <1>12, <1>13, <2>2
  <2>3. CASE \/ r.op = "begin" /\ \E t : Began(s, r, t) /\ a = <<t, <<Env("begin", r.name)>>, FALSE>>
             \/ r.op = "commit" /\ \E t : Committed(s, t) /\ a = <<t, <<Env("commit", 0)>>, FALSE>>
    BY <1>7, <1>11, <1>13, <2>3
  <2>4. CASE s.count # 0 /\ a = <<[s EXCEPT !.count = @ + 1], <<>>, FALSE>>
    BY <1>8, <1>13, <2>4
  <2>5. CASE s.count > 1 /\ a = <<[s EXCEPT !.count = @ - 1], <<>>, FALSE>>
    BY <1>9, <1>13, <2>5
  <2> QED
    BY <2>1, <2>2, <2>3, <2>4, <2>5 DEF Answer
<1> QED
  BY <1>14 DEF Good

\* What a request does to the session s, per operation: t is the session after,
\* and err says that the request failed.
Same(s, t) == t.count = s.count /\ t.id = s.id /\ t.name = s.name
Failed(s, r, t) == \/ t = s /\ MayFail(s, r)
                   \/ r.op = "exec" /\ t = Rollback(s)
Executed(s, r, t) == /\ Same(s, t) /\ t.saves = s.saves
                     /\ s.count > 0 => t.work = s.work \cup {r.name} /\ t.committed = s.committed
                     /\ s.count = 0 => t.work = s.work /\ t.committed = s.committed \cup {r.name}
Opened(s, r, t) == /\ IF s.count = 0 THEN t.count = 1 /\ t.name = r.name ELSE t.count = s.count + 1
                   /\ t.saves = s.saves /\ t.work = s.work /\ t.committed = s.committed
SavedAt(s, r, t) == /\ Same(s, t) /\ t.work = s.work /\ t.committed = s.committed /\ s.count > 0
                    /\ t.saves = Append(s.saves, [name |-> r.name, work |-> s.work])
Closed(s, t) == /\ s.count > 0 /\ t.count = s.count - 1
                /\ s.count = 1 => t.work = {} /\ t.saves = <<>> /\ t.committed = s.committed \cup s.work
BackTo(s, r, t, i) == /\ i \in 1 .. Len(s.saves) /\ s.saves[i].name = r.name
                      /\ Same(s, t) /\ t.saves = SubSeq(s.saves, 1, i) /\ t.work = s.saves[i].work
                      /\ t.committed = s.committed
Undone(s, r, t) == IF s.count > 0 /\ s.name = r.name THEN t = Rollback(s)
                                                     ELSE \E i : BackTo(s, r, t, i)

LEMMA AnswerEffects ==
  ASSUME NEW s \in Sessions, NEW r \in Payloads, NEW a, Answer(s, r, a)
  PROVE  /\ a[3] => Failed(s, r, a[1])
         /\ ~a[3] => /\ r.op \in {"reset", "isolation"} => a[1] = s
                     /\ r.op = "exec" => Executed(s, r, a[1])
                     /\ r.op = "begin" => Opened(s, r, a[1])
                     /\ r.op = "save" => SavedAt(s, r, a[1])
                     /\ r.op = "commit" => Closed(s, a[1])
                     /\ r.op = "rollback" => Undone(s, r, a[1])
<1> DEFINE Effect(t, err) == /\ err => Failed(s, r, t)
                             /\ ~err => /\ r.op \in {"reset", "isolation"} => t = s
                                        /\ r.op = "exec" => Executed(s, r, t)
                                        /\ r.op = "begin" => Opened(s, r, t)
                                        /\ r.op = "save" => SavedAt(s, r, t)
                                        /\ r.op = "commit" => Closed(s, t)
                                        /\ r.op = "rollback" => Undone(s, r, t)
<1>1. /\ s.count \in Nat /\ s.saves \in Seq(Savepoints) /\ s.work \subseteq Names
  BY DEF Sessions
<1>2. MayFail(s, r) => Effect(s, TRUE)
  BY DEF Failed
<1>3. r.op \in {"reset", "isolation"} => Effect(s, FALSE)
  OBVIOUS
<1>4. r.op = "exec" => Effect(Rollback(s), TRUE)
  BY DEF Failed
<1>5. ASSUME NEW t, r.op = "exec", Worked(s, r, t) PROVE Effect(t, FALSE)
  <2>1. CASE s.count > 0
    <3>1. t = [s EXCEPT !.work = @ \cup {r.name}]
      BY <1>5, <2>1 DEF Worked
    <3>2. Executed(s, r, t)
      BY <1>1, <2>1, <3>1 DEF Executed, Same, Sessions
    <3> QED
      BY <1>5, <3>2
  <2>2. CASE s.count = 0
    <3>1. t = [s EXCEPT !.committed = @ \cup {r.name}]
      BY <1>5, <2>2 DEF Worked
    <3>2. Executed(s, r, t)
      BY <1>1, <2>2, <3>1 DEF Executed, Same, Sessions
    <3> QED
      BY <1>5, <3>2
  <2> QED
    BY <1>1, <2>1, <2>2
<1>6. ASSUME NEW t, r.op = "begin", Began(s, r, t) PROVE Effect(t, FALSE)
  <2>1. s.count = 0 /\ t = [[[s EXCEPT !.count = 1] EXCEPT !.id = r.name] EXCEPT !.name = r.name]
    BY <1>6 DEF Began
  <2>2. Opened(s, r, t)
    BY <1>1, <2>1 DEF Opened, Sessions
  <2> QED
    BY <1>6, <2>2
<1>7. r.op = "begin" /\ s.count # 0 => Effect([s EXCEPT !.count = @ + 1], FALSE)
  BY <1>1 DEF Opened, Sessions
<1>8. ASSUME NEW t, r.op = "save", Saved(s, r, t) PROVE Effect(t, FALSE)
  <2>1. /\ s.count > 0
        /\ t = [s EXCEPT !.saves = Append(s.saves, [name |-> r.name, work |-> s.work])]
    BY <1>1, <1>8 DEF Saved
  <2>2. SavedAt(s, r, t)
    <3> DEFINE saves == Append(s.saves, [name |-> r.name, work |-> s.work])
    <3>1. t = [s EXCEPT !.saves = saves]
      BY <2>1
    <3> HIDE DEF saves
    <3>2. t.saves = saves /\ Same(s, t) /\ t.work = s.work /\ t.committed = s.committed
      BY <3>1 DEF Same, Sessions
    <3> QED
      BY <2>1, <3>2 DEF saves, SavedAt
  <2> QED
    BY <1>8, <2>2
<1>9. r.op = "commit" /\ s.count > 1 => Effect([s EXCEPT !.count = @ - 1], FALSE)
  BY <1>1 DEF Closed, Sessions
<1>10. ASSUME NEW t, r.op = "commit", Committed(s, t) PROVE Effect(t, FALSE)
  <2>1. /\ Rollback(s) \in Sessions /\ Rollback(s).committed = s.committed
        /\ Rollback(s).count = 0 /\ Rollback(s).saves = <<>> /\ Rollback(s).work = {}
    BY RollbackType
  <2>2. Closed(s, t)
    BY <1>1, <1>10, <2>1 DEF Committed, Closed, Sessions
  <2> QED
    BY <1>10, <2>2
<1>11. r.op = "rollback" /\ s.count > 0 /\ s.name = r.name => Effect(Rollback(s), FALSE)
  BY DEF Undone
<1>12. ASSUME NEW t, r.op = "rollback", ~(s.count > 0 /\ s.name = r.name), Returned(s, r, t)
       PROVE  Effect(t, FALSE)
  <2>1. PICK i \in DOMAIN s.saves :
          /\ s.saves[i].name = r.name
          /\ t = [s EXCEPT !.saves = SubSeq(s.saves, 1, i), !.work = s.saves[i].work]
    BY <1>12 DEF Returned
  <2>2. i \in 1 .. Len(s.saves)
    BY <1>1
  <2>3. BackTo(s, r, t, i)
    <3> DEFINE saves == SubSeq(s.saves, 1, i)
               work == s.saves[i].work
    <3>1. t = [[s EXCEPT !.saves = saves] EXCEPT !.work = work]
      BY <2>1
    <3> HIDE DEF saves, work
    <3>2. t.saves = saves /\ t.work = work /\ Same(s, t) /\ t.committed = s.committed
      BY <3>1 DEF Same, Sessions
    <3> QED
      BY <2>1, <2>2, <3>2 DEF saves, work, BackTo
  <2> QED
    BY <1>12, <2>3 DEF Undone
<1> HIDE DEF Effect
<1>13. \A x, y, z : a = <<x, y, z>> /\ Effect(x, z) => Effect(a[1], a[3])
  OBVIOUS
<1>14. Effect(a[1], a[3])
  <2>1. CASE MayFail(s, r) /\ a = <<s, <<>>, TRUE>>
    BY <1>2, <1>13, <2>1
  <2>2. CASE r.op \in {"reset", "isolation"} /\ a = <<s, <<>>, FALSE>>
    BY <1>3, <1>13, <2>2
  <2>3. CASE \/ r.op = "exec" /\ a = <<Rollback(s), Without(s), TRUE>>
             \/ r.op = "exec" /\ \E t : Worked(s, r, t) /\ a = <<t, <<>>, FALSE>>
    BY <1>4, <1>5, <1>13, <2>3
  <2>4. CASE \/ r.op = "begin" /\ \E t : Began(s, r, t) /\ a = <<t, <<Env("begin", r.name)>>, FALSE>>
             \/ r.op = "begin" /\ s.count # 0 /\ a = <<[s EXCEPT !.count = @ + 1], <<>>, FALSE>>
    BY <1>6, <1>7, <1>13, <2>4
  <2>5. CASE r.op = "save" /\ \E t : Saved(s, r, t) /\ a = <<t, <<>>, FALSE>>
    BY <1>8, <1>13, <2>5
  <2>6. CASE \/ r.op = "commit" /\ s.count > 1 /\ a = <<[s EXCEPT !.count = @ - 1], <<>>, FALSE>>
             \/ r.op = "commit" /\ \E t : Committed(s, t) /\ a = <<t, <<Env("commit", 0)>>, FALSE>>
    BY <1>9, <1>10, <1>13, <2>6
  <2>7. CASE \/ /\ r.op = "rollback" /\ s.count > 0 /\ s.name = r.name
                /\ a = <<Rollback(s), Without(s), FALSE>>
             \/ /\ r.op = "rollback" /\ ~(s.count > 0 /\ s.name = r.name)
                /\ \E t : Returned(s, r, t) /\ a = <<t, <<>>, FALSE>>
    BY <1>11, <1>12, <1>13, <2>7
  <2> QED
    BY <2>1, <2>2, <2>3, <2>4, <2>5, <2>6, <2>7 DEF Answer
<1> QED
  BY <1>14 DEF Effect

-------------------------------------------------------------------------------
(* Every step keeps the shape.                                                   *)

LEMMA MakeShape ==
  ASSUME Shape, NEW op \in Ops, NEW name \in 0 .. MaxTransactions, NEW batch \in BOOLEAN,
         Make(op, name, batch), UNCHANGED <<user, server>>,
         op \in {"begin", "save", "commit", "rollback", "exec"} => frames # <<>> /\ name = Inner.name,
         op = "isolation" => frames # <<>>,
         op = "commit" => ~Inner.useSavepoint
  PROVE  Shape'
<1>1. /\ request' \in Payloads /\ request' # None
      /\ request'.op = op /\ request'.name = name /\ ~request'.executed
      /\ request'.tokens = <<>> /\ ~request'.err /\ ~request'.ignore /\ ~request'.late
  BY PayloadType DEF Shape, Make, Payload
<1>2. TypeOK'
  BY <1>1 DEF Shape, TypeOK, Make, user
<1>3. OneRequest'
  BY <1>1 DEF OneRequest, Going, Make
<1>4. OfInnermost'
  BY <1>1 DEF OfInnermost, Inner, user
<1>5. Session'
  BY DEF Shape, Session, Make
<1> QED
  BY <1>2, <1>3, <1>4, <1>5 DEF Shape

LEMMA TransactionShape ==
  ASSUME Shape, NEW b \in BOOLEAN, Transaction(b)
  PROVE  Shape'
<1> DEFINE op == IF inTransaction THEN "save" ELSE "begin"
           frame(name) == [name |-> name, useSavepoint |-> inTransaction, failed |-> FALSE]
<1>1. PICK name \in Names :
        /\ state = "LOGGED_IN" /\ state' = "SENT_CLIENT_REQUEST" /\ isSqlBatch' = Old
        /\ frames' = Append(frames, frame(name))
        /\ around' = [around EXCEPT ![name] = {name} \cup (IF frames = <<>> THEN {} ELSE around[Inner.name])]
        /\ outcome' = [outcome EXCEPT ![name] = "open"]
        /\ request' = [Payload(op, name) EXCEPT !.isolation = b]
        /\ UNCHANGED <<version, inTransaction, descriptors, depth, resetNext, did, upset, clouded, server>>
  BY DEF Transaction
<1>2. op \in Ops /\ op \in {"begin", "save"} /\ name \in 0 .. MaxTransactions
  BY DEF Ops, Control, Names
<1>3. /\ request' \in Payloads /\ request' # None
      /\ request'.op = op /\ request'.name = name /\ ~request'.executed
      /\ request'.tokens = <<>> /\ ~request'.err /\ ~request'.ignore /\ ~request'.late
  <2>1. /\ Payload(op, name) \in Payloads
        /\ Payload(op, name).op = op /\ Payload(op, name).name = name
        /\ ~Payload(op, name).executed /\ Payload(op, name).tokens = <<>> /\ ~Payload(op, name).err
        /\ ~Payload(op, name).ignore /\ ~Payload(op, name).late
    BY <1>2, PayloadType DEF Shape, Payload
  <2> HIDE DEF op
  <2> QED
    BY <1>1, <2>1, NoneIsNoPayload DEF Payloads
<1>4. /\ frames' \in Seq(Frames) /\ frames' # <<>> /\ Inner'.name = name
      /\ around' \in [Names -> SUBSET Names]
  <2>1. frame(name) \in Frames /\ frames \in Seq(Frames)
    BY DEF Shape, TypeOK, Frames
  <2>2. /\ frames' \in Seq(Frames) /\ Len(frames') = Len(frames) + 1
        /\ frames'[Len(frames) + 1] = frame(name)
    BY <1>1, <2>1, AppendProperties
  <2>3. Len(frames) \in Nat /\ frames' # <<>>
    BY <2>1, <2>2
  <2>4. frames # <<>> => Inner.name \in Names
    BY FrontOfFrames DEF Shape
  <2> QED
    BY <1>1, <2>2, <2>3, <2>4 DEF Shape, TypeOK, Inner
<1> HIDE DEF op, frame
<1>5. TypeOK'
  <2>1. Old \in BOOLEAN
    BY DEF Old
  <2> QED
    BY <1>1, <1>3, <1>4, <2>1 DEF Shape, TypeOK
<1>6. OneRequest' /\ OfInnermost'
  BY <1>1, <1>2, <1>3, <1>4 DEF OneRequest, Going, OfInnermost
<1>7. Session'
  BY <1>1 DEF Shape, Session
<1> QED
  BY <1>5, <1>6, <1>7 DEF Shape

\* Callbacks that end what was being done: no request is left.
LEMMA ToldShape ==
  ASSUME Shape, frames # <<>>, request = None, Told("failed") \/ Told("ok"),
         depth' \in Int, UNCHANGED <<version, state, inTransaction, descriptors, resetNext, isSqlBatch,
                                     request, around, did, upset, clouded, server>>
  PROVE  Shape'
<1>1. /\ frames' \in Seq(Frames)
      /\ outcome' \in [Names -> {"new", "open", "ok", "failed", "refused", "unknown"}]
  BY ToldType DEF Shape
<1>2. TypeOK'
  BY <1>1 DEF Shape, TypeOK
<1>3. OneRequest' /\ Session'
  BY DEF Shape, OneRequest, Going, Session
<1>4. OfInnermost'
  BY NoneIsNoPayload DEF OfInnermost
<1> QED
  BY <1>2, <1>3, <1>4 DEF Shape

LEMMA TxDoneShape ==
  ASSUME Shape, TxDoneErr \/ TxDoneOk
  PROVE  Shape'
<1>0. /\ frames # <<>> /\ request = None /\ Inner.name \in 0 .. MaxTransactions
      /\ Old \in BOOLEAN /\ depth \in Int
      /\ "rollback" \in Ops /\ "commit" \in Ops
  BY FrontOfFrames DEF Shape, TypeOK, TxDoneErr, TxDoneOk, Names, Old, Ops, Control
<1>1. CASE Make("rollback", Inner.name, Old) /\ UNCHANGED <<user, server>>
  BY <1>0, <1>1, MakeShape
<1>2. CASE ~Inner.useSavepoint /\ Make("commit", Inner.name, Old) /\ UNCHANGED <<user, server>>
  BY <1>0, <1>2, MakeShape
<1>3. CASE Told("failed") /\ UNCHANGED <<client, around, did, upset, clouded, server>>
  <2>1. depth' \in Int
    BY <1>0, <1>3 DEF client
  <2> QED
    BY <1>0, <1>3, <2>1, ToldShape DEF client
<1>4. CASE /\ Told("ok") /\ depth' = IF Old THEN depth - 1 ELSE depth
           /\ UNCHANGED <<version, state, inTransaction, descriptors, resetNext, isSqlBatch,
                          request, around, did, upset, clouded, server>>
  <2>1. depth' \in Int
    BY <1>0, <1>4
  <2> QED
    BY <1>0, <1>4, <2>1, ToldShape
<1>5. CASE Refuse("commit") /\ UNCHANGED server
  <2>1. /\ KeepCount("commit", inTransaction) /\ Completed("commit", TRUE, TRUE)
        /\ UNCHANGED <<version, state, descriptors, resetNext, isSqlBatch, request, server>>
    BY <1>5 DEF Refuse
  <2>2. depth' \in Int /\ inTransaction' \in BOOLEAN
    BY <2>1, CountType DEF Shape, TypeOK
  <2>3. /\ frames' \in Seq(Frames)
        /\ outcome' \in [Names -> {"new", "open", "ok", "failed", "refused", "unknown"}]
        /\ did' \subseteq Names
        /\ upset' \in BOOLEAN /\ UNCHANGED <<around, clouded>>
    BY <1>0, <2>1, CompletedType DEF Shape
  <2>4. TypeOK'
    BY <2>1, <2>2, <2>3 DEF Shape, TypeOK
  <2>5. OneRequest' /\ Session'
    BY <2>1 DEF Shape, OneRequest, Going, Session
  <2>6. OfInnermost'
    BY <1>0, <2>1, NoneIsNoPayload DEF OfInnermost
  <2> QED
    BY <2>4, <2>5, <2>6 DEF Shape
<1> QED
  BY <1>1, <1>2, <1>3, <1>4, <1>5 DEF TxDoneErr, TxDoneOk, user

LEMMA ExecShape ==
  ASSUME Shape, NEW b \in BOOLEAN, Exec(b)
  PROVE  Shape'
<1>1. /\ frames # <<>> /\ Inner.name \in 0 .. MaxTransactions /\ "exec" \in Ops
      /\ Make("exec", Inner.name, b) /\ UNCHANGED <<user, server>>
  BY FrontOfFrames DEF Shape, Exec, Names, Ops
<1> QED
  BY <1>1, MakeShape

LEMMA RefusedShape ==
  ASSUME Shape, TransactionRefused \/ ResetRefused
  PROVE  Shape'
<1>1. /\ \E op : KeepCount(op, inTransaction)
      /\ upset' \in BOOLEAN /\ clouded' \in BOOLEAN /\ resetNext' \in BOOLEAN
      /\ UNCHANGED <<version, state, descriptors, isSqlBatch, request, frames, around, outcome, did, server>>
  BY DEF TransactionRefused, ResetRefused, Shape, TypeOK
<1>2. depth' \in Int /\ inTransaction' \in BOOLEAN
  BY <1>1, CountType DEF Shape, TypeOK
<1>3. TypeOK'
  BY <1>1, <1>2 DEF Shape, TypeOK
<1> QED
  BY <1>1, <1>3 DEF Shape, OneRequest, Going, OfInnermost, Inner, Session

LEMMA ResetShape ==
  ASSUME Shape, Reset
  PROVE  Shape'
<1>1. /\ Payload("reset", 0) \in Payloads /\ "reset" \in Ops
      /\ Payload("reset", 0).op = "reset" /\ ~Payload("reset", 0).executed
      /\ Payload("reset", 0).tokens = <<>> /\ ~Payload("reset", 0).err
      /\ ~Payload("reset", 0).ignore /\ ~Payload("reset", 0).late
  <2>1. "reset" \in Ops /\ 0 \in 0 .. MaxTransactions
    BY TransactionsAssumption DEF Ops
  <2> QED
    BY <2>1, PayloadType DEF Shape, Payload
<1>2. /\ request' \in Payloads /\ request' # None
      /\ request'.op = "reset" /\ ~request'.executed
      /\ request'.tokens = <<>> /\ ~request'.err /\ ~request'.ignore /\ ~request'.late
  BY <1>1, NoneIsNoPayload DEF Reset, Payloads
<1>3. TypeOK'
  BY <1>2 DEF Shape, TypeOK, Reset
<1>4. OneRequest' /\ OfInnermost' /\ Session'
  BY <1>2 DEF Shape, OneRequest, Going, OfInnermost, Session, Reset
<1> QED
  BY <1>3, <1>4 DEF Shape

\* A request in flight is a payload, and changes of its progress leave it one.
LEMMA GoingType ==
  ASSUME Shape, Going
  PROVE  /\ request \in Payloads /\ request.op \in Ops /\ request.tokens \in Seq(Tokens)
         /\ state = "SENT_CLIENT_REQUEST"
         /\ [request EXCEPT !.finished = TRUE] \in Payloads
         /\ \A ignore, late \in BOOLEAN :
              [request EXCEPT !.canceled = TRUE, !.ignore = ignore, !.late = late] \in Payloads
         /\ request.finished \in BOOLEAN
         /\ request.tokens # <<>> => [request EXCEPT !.tokens = Tail(@)] \in Payloads
<1>1. request \in Payloads /\ state = "SENT_CLIENT_REQUEST"
  BY DEF Shape, TypeOK, OneRequest, Going
<1>2. request.tokens \in Seq(Tokens)
  BY <1>1 DEF Payloads
<1>3. request.tokens # <<>> => Tail(request.tokens) \in Seq(Tokens)
  BY <1>2
<1> QED
  BY <1>1, <1>2, <1>3 DEF Payloads

\* The fields that the steps of a request in flight leave alone.
KeepsAll(r, q) == /\ q.op = r.op /\ q.name = r.name /\ q.descriptor = r.descriptor /\ q.reset = r.reset
                  /\ q.isolation = r.isolation /\ q.executed = r.executed /\ q.err = r.err
KeepsCancel(r, q) == q.canceled = r.canceled /\ q.ignore = r.ignore /\ q.late = r.late

LEMMA ProgressFields ==
  ASSUME NEW r \in Payloads
  PROVE  /\ LET q == [r EXCEPT !.finished = TRUE] IN
               KeepsAll(r, q) /\ KeepsCancel(r, q) /\ q.finished /\ q.tokens = r.tokens
         /\ LET q == [r EXCEPT !.tokens = Tail(@)] IN
               KeepsAll(r, q) /\ KeepsCancel(r, q) /\ q.finished = r.finished /\ q.tokens = Tail(r.tokens)
<1>1. ASSUME NEW q, q = [r EXCEPT !.finished = TRUE]
      PROVE  KeepsAll(r, q) /\ KeepsCancel(r, q) /\ q.finished /\ q.tokens = r.tokens
  <2>1. KeepsAll(r, q)
    BY <1>1 DEF Payloads, KeepsAll
  <2>2. KeepsCancel(r, q) /\ q.finished /\ q.tokens = r.tokens
    BY <1>1 DEF Payloads, KeepsCancel
  <2> QED
    BY <2>1, <2>2
<1>2. ASSUME NEW t, NEW q, q = [r EXCEPT !.tokens = t]
      PROVE  KeepsAll(r, q) /\ KeepsCancel(r, q) /\ q.finished = r.finished /\ q.tokens = t
  <2>1. KeepsAll(r, q)
    BY <1>2 DEF Payloads, KeepsAll
  <2>2. KeepsCancel(r, q) /\ q.finished = r.finished /\ q.tokens = t
    BY <1>2 DEF Payloads, KeepsCancel
  <2> QED
    BY <2>1, <2>2
<1> QED
  BY <1>1, <1>2

LEMMA MessageFinishedShape ==
  ASSUME Shape, MessageFinished
  PROVE  Shape'
<1>1. /\ Going /\ request' = [request EXCEPT !.finished = TRUE] /\ request' \in Payloads
      /\ resetNext' = FALSE
      /\ UNCHANGED <<version, state, inTransaction, descriptors, depth, isSqlBatch, user, server>>
  BY GoingType DEF MessageFinished, Going
<1>2. /\ request' # None /\ request'.finished
      /\ request'.op = request.op /\ request'.name = request.name
      /\ request'.executed = request.executed /\ request'.tokens = request.tokens
      /\ request'.err = request.err /\ request'.canceled = request.canceled
      /\ request'.ignore = request.ignore /\ request'.late = request.late
  BY <1>1, GoingType, NoneIsNoPayload, ProgressFields DEF KeepsAll, KeepsCancel
<1>3. TypeOK'
  BY <1>1 DEF Shape, TypeOK, user
<1>4. OneRequest' /\ OfInnermost' /\ Session'
  BY <1>1, <1>2 DEF Shape, OneRequest, Going, OfInnermost, Inner, Session, user
<1> QED
  BY <1>3, <1>4 DEF Shape

\* A cancel of a finished message is an attention; of any other, it is ignored.
LEMMA CancelEffect ==
  ASSUME Shape, Cancel
  PROVE  /\ Going /\ Going' /\ request' \in Payloads
         /\ request'.op = request.op /\ request'.name = request.name
         /\ request'.reset = request.reset /\ request'.descriptor = request.descriptor
         /\ request'.executed = request.executed /\ request'.tokens = request.tokens
         /\ request'.err = request.err /\ request'.finished = request.finished
         /\ request'.canceled /\ (request'.ignore <=> ~request.finished)
         /\ request'.late => ~request.finished
<1>1. PICK late \in BOOLEAN :
        /\ request.finished => ~late
        /\ request' = [request EXCEPT !.canceled = TRUE, !.ignore = ~request.finished, !.late = late]
  <2> DEFINE q(late) == [request EXCEPT !.canceled = TRUE, !.ignore = ~request.finished, !.late = late]
  <2>1. \E late \in IF request.finished THEN {FALSE} ELSE BOOLEAN : request' = q(late)
    BY DEF Cancel
  <2> HIDE DEF q
  <2>2. \E late \in BOOLEAN : (request.finished => ~late) /\ request' = q(late)
    BY <2>1
  <2> QED
    BY <2>2 DEF q
<1>2. Going /\ request \in Payloads /\ (~request.finished) \in BOOLEAN
  BY GoingType DEF Cancel, Going
<1>3. request' \in Payloads
  BY <1>1, <1>2, GoingType
<1>4. request' # None
  BY <1>3, NoneIsNoPayload
<1> QED
  BY <1>1, <1>2, <1>3, <1>4 DEF Payloads, Going

LEMMA CancelShape ==
  ASSUME Shape, Cancel
  PROVE  Shape'
<1>1. /\ Going /\ request' \in Payloads
      /\ clouded' = (clouded \/ request.op \in Control) /\ upset' = (upset \/ ~request.finished)
      /\ UNCHANGED <<version, state, inTransaction, descriptors, depth, resetNext, isSqlBatch,
                     frames, around, outcome, did, server>>
  BY CancelEffect DEF Cancel
<1>2. /\ request' # None
      /\ request'.op = request.op /\ request'.name = request.name
      /\ request'.executed = request.executed /\ request'.tokens = request.tokens
      /\ request'.err = request.err /\ request'.finished = request.finished
      /\ request'.canceled /\ (request'.late => request'.ignore)
  BY CancelEffect DEF Going
<1>3. TypeOK'
  BY <1>1 DEF Shape, TypeOK
<1>4. OneRequest' /\ OfInnermost' /\ Session'
  BY <1>1, <1>2 DEF Shape, OneRequest, Going, OfInnermost, Inner, Session
<1> QED
  BY <1>3, <1>4 DEF Shape

LEMMA TokenShape ==
  ASSUME Shape, Token
  PROVE  /\ Shape'
         /\ Going' /\ request' = [request EXCEPT !.tokens = Tail(@)]
         /\ LET t == Head(request.tokens) IN
              /\ CurrentTransactionDescriptor' = IF t.kind = "begin" THEN t.value ELSE 0
              /\ inTransaction' = (t.kind = "begin")
<1> DEFINE t == Head(request.tokens)
<1>1. /\ Going /\ request.tokens # <<>> /\ request' = [request EXCEPT !.tokens = Tail(@)]
      /\ request' \in Payloads
      /\ descriptors' = IF t.kind = "begin" THEN Append(descriptors, t.value) ELSE <<descriptors[1]>>
      /\ inTransaction' = (t.kind = "begin")
      /\ frames' = IF t.kind # "rollback" THEN frames
                   ELSE [i \in DOMAIN frames |-> [frames[i] EXCEPT !.failed = TRUE]]
      /\ UNCHANGED <<version, state, depth, resetNext, isSqlBatch, around, outcome, did, upset, clouded, server>>
  BY GoingType DEF Token, Going
<1>2. /\ request' # None /\ Going' /\ request.executed
      /\ request'.op = request.op /\ request'.name = request.name
      /\ request'.executed = request.executed /\ request'.finished = request.finished
      /\ request'.err = request.err /\ request'.canceled = request.canceled
      /\ request'.ignore = request.ignore /\ request'.late = request.late
  <2>1. /\ request \in Payloads /\ KeepsAll(request, request') /\ KeepsCancel(request, request')
        /\ request'.finished = request.finished
    BY <1>1, GoingType, ProgressFields
  <2> QED
    BY <1>1, <2>1, NoneIsNoPayload DEF Shape, OneRequest, Going, KeepsAll, KeepsCancel
<1>3. t \in Tokens
  <2>1. request.tokens \in Seq(Tokens) /\ request.tokens # <<>>
    BY <1>1, GoingType
  <2> QED
    BY <2>1, HeadTailProperties
<1>4. /\ descriptors' \in Seq(0 .. MaxTransactions) /\ descriptors' # <<>> /\ descriptors'[1] = 0
      /\ CurrentTransactionDescriptor' = IF t.kind = "begin" THEN t.value ELSE 0
  <2>1. /\ descriptors \in Seq(0 .. MaxTransactions) /\ descriptors # <<>> /\ descriptors[1] = 0
        /\ t.value \in 0 .. MaxTransactions
    BY <1>3 DEF Shape, TypeOK, Session, Tokens
  <2>2. CASE t.kind = "begin"
    <3>1. descriptors' = Append(descriptors, t.value)
      BY <1>1, <2>2
    <3>2. /\ descriptors' \in Seq(0 .. MaxTransactions) /\ Len(descriptors') = Len(descriptors) + 1
          /\ descriptors'[1] = descriptors[1] /\ descriptors'[Len(descriptors')] = t.value
      <4> HIDE DEF t
      <4> QED
        BY <2>1, <3>1
    <3> QED
      BY <2>1, <2>2, <3>2 DEF CurrentTransactionDescriptor
  <2>3. CASE t.kind # "begin"
    <3>1. descriptors' = <<0>>
      BY <1>1, <2>1, <2>3
    <3> QED
      BY <2>3, <3>1, TransactionsAssumption DEF CurrentTransactionDescriptor
  <2> QED
    BY <2>2, <2>3
<1>5. /\ frames' \in Seq(Frames) /\ Len(frames') = Len(frames)
      /\ frames # <<>> => /\ frames' # <<>> /\ Inner'.name = Inner.name
                          /\ Inner'.useSavepoint = Inner.useSavepoint
  <2>1. CASE t.kind # "rollback"
    BY <1>1, <2>1 DEF Inner, Shape, TypeOK
  <2>2. CASE t.kind = "rollback"
    <3>1. frames' = [i \in 1 .. Len(frames) |-> [frames[i] EXCEPT !.failed = TRUE]]
      <4>1. DOMAIN frames = 1 .. Len(frames)
        BY DEF Shape, TypeOK
      <4> HIDE DEF t
      <4>2. frames' = [i \in DOMAIN frames |-> [frames[i] EXCEPT !.failed = TRUE]]
        BY <1>1, <2>2
      <4> QED
        BY <4>1, <4>2
    <3>2. \A i \in 1 .. Len(frames) :
             /\ [frames[i] EXCEPT !.failed = TRUE] \in Frames
             /\ [frames[i] EXCEPT !.failed = TRUE].name = frames[i].name
             /\ [frames[i] EXCEPT !.failed = TRUE].useSavepoint = frames[i].useSavepoint
      <4>1. \A f \in Frames : /\ [f EXCEPT !.failed = TRUE] \in Frames
                              /\ [f EXCEPT !.failed = TRUE].name = f.name
                              /\ [f EXCEPT !.failed = TRUE].useSavepoint = f.useSavepoint
        BY DEF Frames
      <4>2. \A i \in 1 .. Len(frames) : frames[i] \in Frames
        BY ElementOfSeq DEF Shape, TypeOK
      <4> QED
        BY <4>1, <4>2
    <3>3. Len(frames) \in Nat
      BY DEF Shape, TypeOK
    <3>4. frames' \in Seq(Frames) /\ Len(frames') = Len(frames)
      BY <3>1, <3>2, <3>3, IsASeq
    <3>5. frames # <<>> => Len(frames) \in 1 .. Len(frames) /\ frames' # <<>>
      BY <3>3, <3>4, FrontOfFrames DEF Shape
    <3> QED
      BY <3>1, <3>2, <3>4, <3>5 DEF Inner
  <2> QED
    BY <2>1, <2>2
<1> HIDE DEF t
<1>6. TypeOK'
  BY <1>1, <1>4, <1>5 DEF Shape, TypeOK
<1>7. OneRequest' /\ OfInnermost' /\ Session'
  BY <1>1, <1>2, <1>4, <1>5 DEF Shape, OneRequest, Going, OfInnermost, Session
<1>8. Shape'
  BY <1>6, <1>7 DEF Shape
<1> QED
  BY <1>1, <1>2, <1>4, <1>8 DEF t

\* What the server makes of the request: an answer to it in the session the
\* reset bit leaves, or nothing, if the message is to be ignored or carries a
\* descriptor that is not the session's.
ResetFirst == request.reset /\ ~request.ignore
Clean == IF ResetFirst THEN Rollback(server) ELSE server
Before == IF ResetFirst THEN Without(server) ELSE <<>>
Stale == request.ignore \/ (~Old /\ ~ResetFirst /\ request.descriptor # server.id)

LEMMA ExecuteEffect ==
  ASSUME Shape, Execute
  PROVE  /\ Going /\ Going' /\ ~request.executed /\ request.finished /\ request.tokens = <<>>
         /\ UNCHANGED <<version, state, inTransaction, descriptors, depth, resetNext, isSqlBatch, user>>
         /\ server' \in Sessions /\ SessionWhole(server')
         /\ Clean \in Sessions /\ SessionWhole(Clean)
         /\ request' \in Payloads /\ request'.executed /\ request'.finished
         /\ request'.op = request.op /\ request'.name = request.name
         /\ request'.reset = request.reset /\ request'.descriptor = request.descriptor
         /\ request'.canceled = request.canceled
         /\ request'.ignore = request.ignore /\ request'.late = request.late
         /\ ~Old => TokensTell(server, server', request'.tokens)
         /\ \E a : /\ \/ Stale /\ a = <<server, <<>>, TRUE>>
                      \/ ~Stale /\ Answer(Clean, request, a)
                   /\ server' = a[1] /\ request'.err = a[3]
                   /\ request'.tokens = IF Old THEN <<>> ELSE Before \o a[2]
<1>1. PICK a : /\ \/ Stale /\ a = <<server, <<>>, TRUE>>
                  \/ ~Stale /\ a \in Answers(Clean, request)
               /\ server' = a[1]
               /\ request' = [request EXCEPT !.executed = TRUE, !.err = a[3],
                                             !.tokens = IF Old THEN <<>> ELSE Before \o a[2]]
  BY DEF Execute, Clean, Before, ResetFirst, Stale
<1>2. /\ Going /\ ~request.executed /\ request.finished /\ request.tokens = <<>>
      /\ UNCHANGED <<version, state, inTransaction, descriptors, depth, resetNext, isSqlBatch, user>>
      /\ request \in Payloads /\ server \in Sessions /\ SessionWhole(server)
  BY GoingType DEF Execute, Going, Shape, OneRequest, Session, TypeOK
<1>3. Clean \in Sessions /\ SessionWhole(Clean) /\ Before \in Seq(Tokens) /\ Len(Before) <= 1
  <2>1. <<>> \in Seq(Tokens) /\ Len(<<>>) <= 1
    OBVIOUS
  <2> QED
    BY <1>2, <2>1, RollbackType DEF Clean, Before, SessionWhole
<1>4. ~Stale => Answer(Clean, request, a)
  BY <1>1, <1>2, <1>3, AnswersAre
<1>5. request.op \in {"begin", "exec"} => request.name \in Names
  BY FrontOfFrames DEF Shape, OfInnermost
<1>6. /\ a[1] \in Sessions /\ SessionWhole(a[1])
      /\ a[2] \in Seq(Tokens) /\ Len(a[2]) <= 1 /\ TokensTell(Clean, a[1], a[2])
      /\ a[3] \in BOOLEAN
  <2>1. CASE Stale
    <3>1. a = <<server, <<>>, TRUE>>
      BY <1>1, <2>1
    <3>2. a[1] = server /\ a[2] = <<>> /\ a[3] = TRUE
      BY <3>1
    <3>3. Clean = server
      BY <2>1 DEF Stale, Clean, ResetFirst
    <3>4. <<>> \in Seq(Tokens) /\ Len(<<>>) <= 1 /\ TokensTell(server, server, <<>>)
      BY DEF TokensTell
    <3> QED
      BY <1>2, <3>2, <3>3, <3>4, Zenon
  <2>2. CASE ~Stale
    BY <1>2, <1>3, <1>4, <1>5, <2>2, AnswerTells
  <2> QED
    BY <2>1, <2>2
<1>7. TokensTell(server, a[1], Before \o a[2])
  <2>0. server.count \in Nat
    BY <1>2 DEF Sessions
  <2>1. CASE a[2] # <<>>
    <3>1. \A q \in Seq(Tokens) : q # <<>> /\ Len(q) <= 1 => Len(q) = 1
      <4> SUFFICES ASSUME NEW q \in Seq(Tokens), q # <<>>, Len(q) <= 1
                   PROVE  Len(q) = 1
        OBVIOUS
      <4>1. Len(q) \in Nat \ {0}
        BY EmptySeq
      <4>2. \A k \in Nat \ {0} : k <= 1 => k = 1
        OBVIOUS
      <4> QED
        BY <4>1, <4>2, Zenon
    <3>2. \A p, q \in Seq(Tokens) : Len(q) = 1 => /\ p \o q # <<>>
                                                 /\ (p \o q)[Len(p \o q)] = q[Len(q)]
      <4> SUFFICES ASSUME NEW p \in Seq(Tokens), NEW q \in Seq(Tokens), Len(q) = 1
                   PROVE  p \o q # <<>> /\ (p \o q)[Len(p \o q)] = q[Len(q)]
        OBVIOUS
      <4>0. Len(p \o q) = Len(p) + Len(q)
        BY ConcatProperties
      <4>1. Len(p \o q) = Len(p) + 1 /\ Len(p) \in Nat
        BY <4>0, LenProperties
      <4>2. (p \o q)[Len(p) + 1] = q[1]
        BY <4>1, ConcatProperties
      <4> QED
        BY <4>1, <4>2
    <3>3. /\ Before \o a[2] # <<>>
          /\ (Before \o a[2])[Len(Before \o a[2])] = a[2][Len(a[2])]
      BY <1>3, <1>6, <2>1, <3>1, <3>2
    <3>4. /\ a[2][Len(a[2])].kind = "begin" <=> a[1].count > 0
          /\ a[1].id = IF a[2][Len(a[2])].kind = "begin" THEN a[2][Len(a[2])].value ELSE 0
      BY <1>6, <2>1 DEF TokensTell
    <3> QED
      BY <3>3, <3>4 DEF TokensTell
  <2>2. CASE a[2] = <<>>
    <3>1. Before \o a[2] = Before
      BY <1>3, <2>2
    <3>2. (a[1].count > 0 <=> Clean.count > 0) /\ a[1].id = Clean.id
      BY <1>6, <2>2 DEF TokensTell
    <3>3. CASE ~ResetFirst
      BY <3>1, <3>2, <3>3 DEF TokensTell, Clean, Before
    <3>4. CASE ResetFirst /\ server.count = 0
      <4>1. Before = <<>> /\ Clean.count = 0 /\ Clean.id = 0 /\ server.id = 0
        BY <1>2, <3>4, RollbackType DEF Clean, Before, SessionWhole
      <4> QED
        BY <3>1, <3>2, <3>4, <4>1 DEF TokensTell
    <3>5. CASE ResetFirst /\ server.count # 0
      <4>1. Before = <<Env("rollback", 0)>> /\ Clean.count = 0 /\ Clean.id = 0
        BY <1>2, <3>5, RollbackType DEF Clean, Before
      <4>2. Before # <<>> /\ Before[Len(Before)].kind = "rollback"
        BY <4>1 DEF Env
      <4> QED
        BY <3>1, <3>2, <4>1, <4>2 DEF TokensTell
    <3> QED
      BY <3>3, <3>4, <3>5
  <2> QED
    BY <2>1, <2>2
<1>8. /\ request' \in Payloads /\ request'.executed /\ request'.finished /\ Going'
      /\ request'.op = request.op /\ request'.name = request.name
      /\ request'.reset = request.reset /\ request'.descriptor = request.descriptor
      /\ request'.canceled = request.canceled /\ request'.err = a[3]
      /\ request'.ignore = request.ignore /\ request'.late = request.late
      /\ request'.tokens = IF Old THEN <<>> ELSE Before \o a[2]
  <2> DEFINE tokens == IF Old THEN <<>> ELSE Before \o a[2]
  <2>1. tokens \in Seq(Tokens)
    <3>1. <<>> \in Seq(Tokens)
      OBVIOUS
    <3>2. Before \o a[2] \in Seq(Tokens)
      BY <1>3, <1>6, ConcatProperties
    <3> QED
      BY <3>1, <3>2
  <2> HIDE DEF tokens
  <2>2. request' = [[[request EXCEPT !.executed = TRUE] EXCEPT !.err = a[3]] EXCEPT !.tokens = tokens]
    BY <1>1 DEF tokens
  <2>3. /\ request' \in Payloads /\ request'.executed /\ request'.finished
        /\ request'.op = request.op /\ request'.name = request.name
        /\ request'.reset = request.reset /\ request'.descriptor = request.descriptor
        /\ request'.canceled = request.canceled /\ request'.err = a[3]
        /\ request'.ignore = request.ignore /\ request'.late = request.late
        /\ request'.tokens = tokens
    BY <1>2, <1>6, <2>1, <2>2 DEF Payloads
  <2>4. Going'
    BY <2>3, NoneIsNoPayload DEF Going
  <2> QED
    BY <2>3, <2>4 DEF tokens
<1>9. ~Old => TokensTell(server, server', request'.tokens)
  BY <1>1, <1>7, <1>8
<1>10. server' = a[1]
  BY <1>1
<1>11. \E b : /\ \/ Stale /\ b = <<server, <<>>, TRUE>>
                 \/ ~Stale /\ Answer(Clean, request, b)
              /\ server' = b[1] /\ request'.err = b[3]
              /\ request'.tokens = IF Old THEN <<>> ELSE Before \o b[2]
  BY <1>1, <1>4, <1>8, <1>10
<1> QED
  BY <1>2, <1>3, <1>6, <1>8, <1>9, <1>10, <1>11

LEMMA ExecuteMeans ==
  ASSUME Shape, Execute
  PROVE  /\ Stale => server' = server /\ request'.err /\ request'.tokens = <<>>
         /\ ~Stale /\ request'.err => Failed(Clean, request, server')
         /\ ~Stale /\ ~request'.err =>
              /\ request.op \in {"reset", "isolation"} => server' = Clean
              /\ request.op = "exec" => Executed(Clean, request, server')
              /\ request.op = "begin" => Opened(Clean, request, server')
              /\ request.op = "save" => SavedAt(Clean, request, server')
              /\ request.op = "commit" => Closed(Clean, server')
              /\ request.op = "rollback" => Undone(Clean, request, server')
         /\ request.op = "reset" => server' = Clean
         /\ Stale => Clean = server
<1>1. PICK a : /\ \/ Stale /\ a = <<server, <<>>, TRUE>>
                  \/ ~Stale /\ Answer(Clean, request, a)
               /\ server' = a[1] /\ request'.err = a[3]
               /\ request'.tokens = IF Old THEN <<>> ELSE Before \o a[2]
  BY ExecuteEffect
<1>2. Clean \in Sessions /\ request \in Payloads
  BY ExecuteEffect, GoingType
<1>3. CASE Stale
  <2>1. a = <<server, <<>>, TRUE>>
    BY <1>1, <1>3
  <2>2. Before = <<>> /\ Clean = server
    BY <1>3 DEF Stale, Before, Clean, ResetFirst
  <2>3. <<>> \o <<>> = <<>>
    OBVIOUS
  <2>4. a[1] = server /\ a[2] = <<>> /\ a[3]
    BY <2>1
  <2> QED
    BY <1>1, <1>3, <2>2, <2>3, <2>4
<1>4. CASE ~Stale
  <2>1. /\ a[3] => Failed(Clean, request, a[1])
        /\ ~a[3] => /\ request.op \in {"reset", "isolation"} => a[1] = Clean
                    /\ request.op = "exec" => Executed(Clean, request, a[1])
                    /\ request.op = "begin" => Opened(Clean, request, a[1])
                    /\ request.op = "save" => SavedAt(Clean, request, a[1])
                    /\ request.op = "commit" => Closed(Clean, a[1])
                    /\ request.op = "rollback" => Undone(Clean, request, a[1])
    BY <1>1, <1>2, <1>4, AnswerEffects
  <2>2. request.op = "reset" => a[1] = Clean
    BY <2>1 DEF Failed
  <2>3. a[1] = server' /\ a[3] = request'.err
    BY <1>1
  <2> QED
    BY <1>4, <2>1, <2>2, <2>3
<1> QED
  BY <1>3, <1>4

LEMMA ExecuteShape ==
  ASSUME Shape, Execute
  PROVE  Shape'
<1>1. /\ Going /\ Going' /\ request.finished
      /\ UNCHANGED <<version, state, inTransaction, descriptors, depth, resetNext, isSqlBatch, user>>
      /\ server' \in Sessions /\ SessionWhole(server')
      /\ request' \in Payloads /\ request'.executed /\ request'.finished
      /\ request'.op = request.op /\ request'.name = request.name
      /\ request'.canceled = request.canceled
      /\ request'.ignore = request.ignore /\ request'.late = request.late
  BY ExecuteEffect
<1>2. TypeOK'
  BY <1>1 DEF Shape, TypeOK, user
<1>3. OneRequest' /\ OfInnermost' /\ Session'
  BY <1>1 DEF Shape, OneRequest, Going, OfInnermost, Inner, Session, user
<1> QED
  BY <1>2, <1>3 DEF Shape

\* The answer has arrived; a save that was asked for an isolation level goes on
\* with it.  Its callback hears of an error unless it was cancelled late; an
\* acknowledgement leaves inTransaction alone.
Err == ~request.late /\ (request.err \/ request.canceled)
Acknowledged == request.canceled /\ ~request.ignore
AfterIn == IF Acknowledged THEN inTransaction ELSE AfterAnswer(inTransaction, Err)
Isolates == request.op = "save" /\ ~Err /\ request.isolation

LEMMA AnsweredEffect ==
  ASSUME Shape, Answered
  PROVE  /\ Going /\ request.finished /\ request.tokens = <<>> /\ (request.executed \/ Acknowledged)
         /\ UNCHANGED <<version, descriptors, resetNext, server>>
         /\ KeepCount(request.op, AfterIn)
         /\ AfterIn \in BOOLEAN
         /\ Completed(request.op, Err, ~request.canceled)
         /\ Err \in BOOLEAN /\ request.err \in BOOLEAN /\ request.canceled \in BOOLEAN
         /\ ~Err /\ ~request.late => ~request.err /\ ~request.canceled
         /\ IF Isolates THEN /\ request' = Payload("isolation", 0) /\ Going'
                             /\ request' \in Payloads /\ request'.op = "isolation"
                             /\ ~request'.executed /\ request'.tokens = <<>> /\ ~request'.err
                             /\ ~request'.canceled /\ ~request'.ignore /\ ~request'.late
                             /\ state' = "SENT_CLIENT_REQUEST"
                             /\ UNCHANGED <<frames, outcome, did>> /\ frames # <<>>
                        ELSE request' = None /\ ~Going' /\ state' = "LOGGED_IN"
         /\ request.op # "reset" => frames # <<>>
<1>1. /\ Going /\ request.finished /\ request.tokens = <<>> /\ (request.executed \/ Acknowledged)
      /\ request \in Payloads
  BY GoingType DEF Answered, Going, Acknowledged
<1>2. /\ Err \in BOOLEAN /\ request.err \in BOOLEAN /\ request.canceled \in BOOLEAN /\ request.op \in Ops
      /\ inTransaction \in BOOLEAN /\ isSqlBatch \in BOOLEAN
      /\ ~Err /\ ~request.late => ~request.err /\ ~request.canceled
  BY <1>1 DEF Payloads, Shape, TypeOK, Err
<1>3. AfterIn \in BOOLEAN
  BY <1>2 DEF AfterIn, AfterAnswer
<1>4. /\ KeepCount(request.op, AfterIn)
      /\ Completed(request.op, Err, ~request.canceled)
      /\ request' = IF Isolates THEN Payload("isolation", 0) ELSE None
      /\ state' = IF Isolates THEN "SENT_CLIENT_REQUEST" ELSE "LOGGED_IN"
      /\ UNCHANGED <<version, descriptors, resetNext, server>>
  BY Zenon DEF Answered, Isolates, AfterIn, Acknowledged, Err
<1>5. "isolation" \in Ops /\ 0 \in 0 .. MaxTransactions
  BY TransactionsAssumption DEF Ops, Control
<1>6. request.op # "reset" => frames # <<>>
  BY <1>2 DEF Shape, OfInnermost, Ops, Control
<1>7. CASE Isolates
  <2>1. /\ request' = Payload("isolation", 0) /\ request' \in Payloads /\ request' # None
        /\ request'.op = "isolation" /\ ~request'.executed /\ request'.tokens = <<>> /\ ~request'.err
        /\ ~request'.canceled /\ ~request'.ignore /\ ~request'.late
    <3>1. request' = Payload("isolation", 0)
      BY <1>4, <1>7
    <3> QED
      BY <1>5, <3>1, PayloadType DEF Shape, Payload
  <2>2. /\ UNCHANGED <<frames, outcome, did>> /\ frames # <<>>
    BY <1>4, <1>6, <1>7 DEF Isolates, Completed
  <2> QED
    BY <1>1, <1>2, <1>3, <1>4, <1>6, <1>7, <2>1, <2>2 DEF Going
<1>8. CASE ~Isolates
  <2>1. request' = None /\ state' = "LOGGED_IN"
    BY <1>4, <1>8
  <2> QED
    BY <1>1, <1>2, <1>3, <1>4, <1>6, <1>8, <2>1 DEF Going
<1> QED
  BY <1>7, <1>8

LEMMA AnsweredShape ==
  ASSUME Shape, Answered
  PROVE  Shape'
<1>1. /\ Going /\ request.op \in Ops /\ Err \in BOOLEAN /\ request.canceled \in BOOLEAN
      /\ KeepCount(request.op, AfterIn)
      /\ AfterIn \in BOOLEAN
      /\ Completed(request.op, Err, ~request.canceled)
      /\ UNCHANGED <<version, descriptors, resetNext, server>>
      /\ request.op # "reset" => frames # <<>>
  BY AnsweredEffect, GoingType
<1>2. depth' \in Int /\ inTransaction' \in BOOLEAN
  BY <1>1, CountType DEF Shape
<1>3. /\ frames' \in Seq(Frames)
      /\ outcome' \in [Names -> {"new", "open", "ok", "failed", "refused", "unknown"}]
      /\ did' \subseteq Names
      /\ upset' \in BOOLEAN /\ UNCHANGED <<around, clouded>>
  BY <1>1, CompletedType DEF Shape
<1>4. IF Isolates THEN /\ Going' /\ request' \in Payloads /\ request'.op = "isolation"
                       /\ ~request'.executed /\ request'.tokens = <<>> /\ ~request'.err
                       /\ ~request'.ignore /\ ~request'.late
                       /\ state' = "SENT_CLIENT_REQUEST" /\ frames' # <<>>
                  ELSE request' = None /\ ~Going' /\ state' = "LOGGED_IN"
  BY AnsweredEffect
<1>5. isSqlBatch' \in BOOLEAN
  BY DEF Answered, Shape, TypeOK
<1>6. TypeOK'
  BY <1>1, <1>2, <1>3, <1>4, <1>5 DEF Shape, TypeOK
<1>7. OneRequest'
  BY <1>4 DEF OneRequest
<1>8. OfInnermost'
  BY <1>4, NoneIsNoPayload DEF OfInnermost
<1>9. Session'
  BY <1>1, <1>4 DEF Shape, Session
<1> QED
  BY <1>6, <1>7, <1>8, <1>9 DEF Shape

LEMMA LostShape ==
  ASSUME Shape, Lost
  PROVE  /\ Shape' /\ state' = "FINAL" /\ request' = None /\ server' = Rollback(server)
<1>1. /\ state # "FINAL" /\ state' = "FINAL" /\ request' = None /\ server' = Rollback(server)
      /\ UNCHANGED <<version, descriptors, resetNext, isSqlBatch>>
  BY DEF Lost
<1>2. server' \in Sessions /\ SessionWhole(server') /\ server'.count = 0
  BY <1>1, RollbackType DEF Shape, TypeOK, SessionWhole
<1>3. /\ frames' \in Seq(Frames) /\ depth' \in Int /\ inTransaction' \in BOOLEAN
      /\ outcome' \in [Names -> {"new", "open", "ok", "failed", "refused", "unknown"}]
      /\ did' \subseteq Names
      /\ upset' \in BOOLEAN /\ UNCHANGED <<around, clouded>>
  <2>1. CASE request = None
    BY <2>1 DEF Lost, user, Shape, TypeOK
  <2>2. CASE Going
    <3>1. /\ KeepCount(request.op, inTransaction) /\ Completed(request.op, TRUE, FALSE)
          /\ request.op \in Ops /\ inTransaction \in BOOLEAN
      BY <2>2, GoingType DEF Lost, Going, Shape, TypeOK
    <3>2. request.op # "reset" => frames # <<>>
      BY <3>1 DEF Shape, OfInnermost, Ops, Control
    <3> QED
      BY <3>1, <3>2, CountType, CompletedType DEF Shape
  <2> QED
    BY <2>1, <2>2 DEF Going
<1>4. TypeOK'
  BY <1>1, <1>2, <1>3 DEF Shape, TypeOK
<1>5. OneRequest' /\ OfInnermost' /\ Session'
  BY <1>1, <1>2, NoneIsNoPayload DEF Shape, OneRequest, Going, OfInnermost, Session
<1> QED
  BY <1>1, <1>4, <1>5 DEF Shape

LEMMA ShapeNext ==
  ASSUME Shape, [Next]_vars
  PROVE  Shape'
<1>1. CASE UNCHANGED vars
  BY <1>1 DEF Shape, TypeOK, OneRequest, Going, OfInnermost, Inner, Session, vars, client, user
<1> QED
  BY <1>1, TransactionShape, ExecShape, RefusedShape, TxDoneShape, ResetShape, MessageFinishedShape,
     CancelShape, ExecuteShape, TokenShape, AnsweredShape, LostShape DEF Next

LEMMA ShapeInit ==
  ASSUME Init
  PROVE  Shape
<1>1. TypeOK
  <2>1. <<0>> \in Seq(0 .. MaxTransactions) /\ <<0>> # <<>> /\ <<>> \in Seq(Frames)
    BY TransactionsAssumption
  <2>2. server \in Sessions
    BY TransactionsAssumption DEF Init, Sessions
  <2>3. /\ around \in [Names -> SUBSET Names] /\ did \subseteq Names
        /\ outcome \in [Names -> {"new", "open", "ok", "failed", "refused", "unknown"}]
    BY DEF Init
  <2>4. request \in Payloads \cup {None} /\ 0 \in Int
    BY DEF Init
  <2> QED
    BY <2>1, <2>2, <2>3, <2>4 DEF Init, TypeOK
<1> QED
  BY <1>1, NoneIsNoPayload DEF Init, Shape, OneRequest, Going, OfInnermost, Session, SessionWhole

-------------------------------------------------------------------------------
(* Calls of transaction() are nested, and each has a name of its own.           *)

NamesKept ==
  /\ Len(frames') = Len(frames)
  /\ \A i \in 1 .. Len(frames) : /\ frames'[i].name = frames[i].name
                                 /\ frames'[i].useSavepoint = frames[i].useSavepoint
  /\ UNCHANGED <<outcome, around>>

Results == {"ok", "failed", "refused", "unknown"}

Nested ==
  /\ \A i \in 1 .. Len(frames) :
       /\ outcome[frames[i].name] = "open"
       /\ around[frames[i].name] = {frames[j].name : j \in 1 .. i}
       /\ \A j \in 1 .. Len(frames) : frames[i].name = frames[j].name => i = j
  /\ \A n \in Names : /\ \A k \in around[n] : outcome[k] # "new"
                      /\ outcome[n] = "new" => around[n] = {}

LEMMA FramesThere ==
  ASSUME TypeOK
  PROVE  /\ Len(frames) \in Nat /\ DOMAIN frames = 1 .. Len(frames)
         /\ frames # <<>> <=> Len(frames) > 0
         /\ \A i \in 1 .. Len(frames) : frames[i] \in Frames /\ frames[i].name \in Names
<1>1. /\ Len(frames) \in Nat /\ DOMAIN frames = 1 .. Len(frames)
      /\ \A i \in 1 .. Len(frames) : frames[i] \in Frames
  BY LenProperties, ElementOfSeq DEF TypeOK
<1>2. frames # <<>> <=> Len(frames) > 0
  BY <1>1, EmptySeq DEF TypeOK
<1> QED
  BY <1>1, <1>2 DEF Frames

\* What a callback does to the frames.
LEMMA CompletedFrames ==
  ASSUME Shape, NEW op \in Ops, NEW err \in BOOLEAN, NEW sure \in BOOLEAN,
         op # "reset" => frames # <<>>, Completed(op, err, sure)
  PROVE  /\ upset' = (upset \/ err) /\ UNCHANGED <<around, clouded>>
         /\ op \in {"begin", "save"} /\ err => Told("refused")
         /\ op = "commit" => Told(IF ~err THEN "ok" ELSE IF sure THEN "failed" ELSE "unknown")
         /\ op = "rollback" => Told("failed")
         /\ op # "exec" => UNCHANGED did
         /\ ~(op \in {"begin", "save"} /\ err) /\ op \notin {"commit", "rollback"} => NamesKept
         /\ op = "exec" => did' = IF err \/ ~sure THEN did ELSE did \cup {Inner.name}
         /\ op = "exec" \/ (op = "isolation" /\ err) =>
              frames' = [frames EXCEPT ![Len(frames)] = [Inner EXCEPT !.failed = @ \/ err]]
         /\ op = "reset" \/ (op \in {"begin", "save", "isolation"} /\ ~err) => UNCHANGED frames
<1>1. upset' = (upset \/ err) /\ UNCHANGED <<around, clouded>>
  BY DEF Completed
<1>2. CASE op \in {"begin", "save"} /\ err
  BY <1>1, <1>2 DEF Completed
<1>3. CASE op \in {"commit", "rollback"}
  BY <1>1, <1>3 DEF Completed
<1>4. CASE op = "reset" \/ (op \in {"begin", "save", "isolation"} /\ ~err)
  <2>1. UNCHANGED <<frames, outcome, did>>
    BY <1>4 DEF Completed
  <2> QED
    BY <1>1, <1>4, <2>1 DEF NamesKept
<1>5. CASE op = "exec" \/ (op = "isolation" /\ err)
  <2>1. /\ frames' = [frames EXCEPT ![Len(frames)] = [Inner EXCEPT !.failed = @ \/ err]]
        /\ UNCHANGED outcome
        /\ did' = IF op = "isolation" \/ err \/ ~sure THEN did ELSE did \cup {Inner.name}
    <3>1. CASE op = "exec"
      BY <3>1 DEF Completed, Inner
    <3>2. CASE op = "isolation" /\ err
      <4>1. frames' = [frames EXCEPT ![Len(frames)].failed = TRUE] /\ UNCHANGED <<outcome, did>>
        BY <3>2 DEF Completed
      <4>2. TRUE = (Inner.failed \/ err) /\ op # "exec"
        BY <3>2, FrontOfFrames DEF Shape, Frames
      <4> QED
        BY <3>2, <4>1, <4>2 DEF Inner
    <3> QED
      BY <1>5, <3>1, <3>2
  <2>2. Inner \in Frames /\ Len(frames) \in 1 .. Len(frames) /\ frames \in Seq(Frames)
    BY <1>5, FrontOfFrames, FramesThere DEF Shape, TypeOK
  <2>3. NamesKept
    <3> DEFINE f == [Inner EXCEPT !.failed = @ \/ err]
    <3>1. f.name = Inner.name /\ f.useSavepoint = Inner.useSavepoint /\ f \in Frames
      BY <2>2 DEF Frames
    <3>2. Inner = frames[Len(frames)]
      BY DEF Inner
    <3> HIDE DEF f
    <3>3. frames' = [frames EXCEPT ![Len(frames)] = f]
      BY <2>1 DEF f
    <3>4. /\ Len(frames') = Len(frames)
          /\ \A i \in 1 .. Len(frames) : frames'[i] = IF i = Len(frames) THEN f ELSE frames[i]
      BY <2>2, <3>1, <3>3, ExceptSeq
    <3> QED
      BY <1>1, <2>1, <3>1, <3>2, <3>4 DEF NamesKept
  <2> QED
    BY <1>1, <1>5, <2>1, <2>3
<1> QED
  BY <1>2, <1>3, <1>4, <1>5 DEF Ops, Control

\* What any step does to them.
LEMMA FramesStep ==
  ASSUME Shape, [Next]_vars
  PROVE  \/ NamesKept
         \/ frames # <<>> /\ UNCHANGED around /\ \E result \in Results : Told(result)
         \/ \E b \in BOOLEAN : Transaction(b)
<1>1. CASE UNCHANGED <<frames, outcome, around>>
  BY <1>1 DEF NamesKept
<1>2. CASE Completed("commit", TRUE, TRUE) /\ frames # <<>>
  BY <1>2, CompletedFrames DEF Ops, Control, Results
<1>3. CASE Going /\ \E err, sure \in BOOLEAN : Completed(request.op, err, sure)
  <2>1. PICK err \in BOOLEAN, sure \in BOOLEAN : Completed(request.op, err, sure)
    BY <1>3
  <2>2. request.op \in Ops /\ (request.op # "reset" => frames # <<>>)
    BY <1>3, GoingType DEF Shape, OfInnermost, Ops, Control
  <2> QED
    BY <2>1, <2>2, CompletedFrames DEF Results
<1>4. CASE TxDoneErr \/ TxDoneOk
  BY <1>1, <1>2, <1>4 DEF TxDoneErr, TxDoneOk, Refuse, user, Results
<1>5. CASE Token
  <2>1. \/ frames' = frames
        \/ frames' = [i \in DOMAIN frames |-> [frames[i] EXCEPT !.failed = TRUE]]
    BY <1>5 DEF Token
  <2>2. UNCHANGED <<outcome, around>>
    BY <1>5 DEF Token
  <2>3. CASE frames' = [i \in DOMAIN frames |-> [frames[i] EXCEPT !.failed = TRUE]]
    <3>1. frames' = [i \in 1 .. Len(frames) |-> [frames[i] EXCEPT !.failed = TRUE]] /\ Len(frames) \in Nat
      BY <2>3, FramesThere DEF Shape
    <3>2. \A i \in 1 .. Len(frames) : frames'[i].name = frames[i].name
                                      /\ frames'[i].useSavepoint = frames[i].useSavepoint
      <4>1. \A f \in Frames : /\ [f EXCEPT !.failed = TRUE].name = f.name
                              /\ [f EXCEPT !.failed = TRUE].useSavepoint = f.useSavepoint
        BY DEF Frames
      <4> QED
        BY <3>1, <4>1, FramesThere DEF Shape
    <3>3. Len(frames') = Len(frames)
      <4>1. DOMAIN frames' = 1 .. Len(frames) /\ frames' \in Seq(Frames)
        BY <1>5, <3>1, TokenShape DEF Shape, TypeOK
      <4>2. DOMAIN frames' = 1 .. Len(frames') /\ Len(frames') \in Nat
        BY <4>1
      <4> QED
        BY <3>1, <4>1, <4>2
    <3> QED
      BY <2>2, <3>2, <3>3 DEF NamesKept
  <2> QED
    BY <1>1, <2>1, <2>2, <2>3
<1>6. CASE Answered
  BY <1>3, <1>6, AnsweredEffect
<1>7. CASE Lost
  <2>1. CASE Going
    BY <1>3, <1>7, <2>1 DEF Lost, Going
  <2>2. CASE ~Going
    BY <1>1, <1>7, <2>2 DEF Lost, Going, user
  <2> QED
    BY <2>1, <2>2
<1>8. CASE (\E b \in BOOLEAN : Exec(b)) \/ TransactionRefused \/ Reset \/ ResetRefused \/ MessageFinished \/ Cancel \/ Execute
  BY <1>1, <1>8 DEF Exec, TransactionRefused, Reset, ResetRefused, MessageFinished, Cancel, Execute, user
<1>9. CASE UNCHANGED vars
  BY <1>1, <1>9 DEF vars, user
<1> QED
  BY <1>4, <1>5, <1>6, <1>7, <1>8, <1>9 DEF Next

LEMMA ToldEffect ==
  ASSUME TypeOK, frames # <<>>, NEW result, Told(result)
  PROVE  /\ Len(frames') = Len(frames) - 1
         /\ \A i \in 1 .. Len(frames) - 1 : frames'[i] = frames[i]
         /\ Inner = frames[Len(frames)] /\ Inner.name \in Names
         /\ outcome'[Inner.name] = result
         /\ \A n \in Names : n # Inner.name => outcome'[n] = outcome[n]
  BY FrontOfFrames DEF TypeOK, Told, Inner

LEMMA TransactionFrames ==
  ASSUME Shape, NEW b \in BOOLEAN, Transaction(b)
  PROVE  \E name \in Names :
           /\ outcome[name] = "new" /\ outcome'[name] = "open"
           /\ \A n \in Names : n # name => outcome'[n] = outcome[n] /\ around'[n] = around[n]
           /\ around'[name] = {name} \cup (IF frames = <<>> THEN {} ELSE around[Inner.name])
           /\ frames' \in Seq(Frames) /\ Len(frames') = Len(frames) + 1
           /\ \A i \in 1 .. Len(frames) : frames'[i] = frames[i]
           /\ frames'[Len(frames) + 1].name = name
           /\ frames'[Len(frames) + 1].useSavepoint = inTransaction
           /\ ~frames'[Len(frames) + 1].failed
           /\ frames # <<>> => ~Inner.failed
           /\ state = "LOGGED_IN" /\ state' = "SENT_CLIENT_REQUEST"
           /\ request.op = "none" /\ request' # None /\ request' \in Payloads
           /\ request'.op = (IF inTransaction THEN "save" ELSE "begin") /\ request'.name = name
           /\ request'.reset = resetNext /\ request'.descriptor = CurrentTransactionDescriptor
           /\ ~request'.executed /\ ~request'.err /\ ~request'.canceled /\ ~request'.finished
           /\ request'.tokens = <<>> /\ ~request'.ignore
           /\ UNCHANGED <<version, inTransaction, descriptors, depth, resetNext, did, upset, clouded, server>>
<1> DEFINE op == IF inTransaction THEN "save" ELSE "begin"
           frame(name) == [name |-> name, useSavepoint |-> inTransaction, failed |-> FALSE]
<1>1. PICK name \in Names :
        /\ outcome[name] = "new" /\ state = "LOGGED_IN" /\ state' = "SENT_CLIENT_REQUEST"
        /\ frames # <<>> => ~Inner.failed
        /\ frames' = Append(frames, frame(name))
        /\ around' = [around EXCEPT ![name] = {name} \cup (IF frames = <<>> THEN {} ELSE around[Inner.name])]
        /\ outcome' = [outcome EXCEPT ![name] = "open"]
        /\ request' = [Payload(op, name) EXCEPT !.isolation = b]
        /\ UNCHANGED <<version, inTransaction, descriptors, depth, resetNext, did, upset, clouded, server>>
  BY DEF Transaction
<1>2. op \in Ops /\ name \in 0 .. MaxTransactions
  BY DEF Ops, Control, Names
<1>3. frame(name) \in Frames /\ frames \in Seq(Frames)
  BY DEF Shape, TypeOK, Frames
<1>4. /\ frames' \in Seq(Frames) /\ Len(frames') = Len(frames) + 1
      /\ \A i \in 1 .. Len(frames) : frames'[i] = frames[i]
      /\ frames'[Len(frames) + 1] = frame(name)
  BY <1>1, <1>3, AppendProperties
<1>5. /\ outcome'[name] = "open"
      /\ around'[name] = {name} \cup (IF frames = <<>> THEN {} ELSE around[Inner.name])
      /\ \A n \in Names : n # name => outcome'[n] = outcome[n] /\ around'[n] = around[n]
  BY <1>1 DEF Shape, TypeOK
<1>6. request = None
  BY <1>1 DEF Shape, OneRequest, Going
<1>7. /\ request' # None /\ request' \in Payloads /\ request'.op = op /\ request'.name = name
      /\ request'.reset = resetNext /\ request'.descriptor = CurrentTransactionDescriptor
      /\ ~request'.executed /\ ~request'.err /\ ~request'.canceled /\ ~request'.finished
      /\ request'.tokens = <<>> /\ ~request'.ignore
  <2>1. /\ Payload(op, name) \in Payloads
        /\ Payload(op, name).op = op /\ Payload(op, name).name = name
        /\ Payload(op, name).reset = resetNext
        /\ Payload(op, name).descriptor = CurrentTransactionDescriptor
        /\ ~Payload(op, name).executed /\ ~Payload(op, name).err
        /\ ~Payload(op, name).canceled /\ ~Payload(op, name).finished
        /\ Payload(op, name).tokens = <<>> /\ ~Payload(op, name).ignore
    BY <1>2, PayloadType DEF Shape, Payload
  <2> HIDE DEF op
  <2> QED
    BY <1>1, <2>1, NoneIsNoPayload DEF Payloads
<1>8. frame(name).name = name /\ frame(name).useSavepoint = inTransaction /\ ~frame(name).failed
  OBVIOUS
<1> HIDE DEF frame, op
<1>9. \/ op = "save" /\ inTransaction
      \/ op = "begin" /\ ~inTransaction
  BY DEF op
<1> QED
  BY <1>1, <1>4, <1>5, <1>6, <1>7, <1>8, <1>9, NoneIsNoPayload

LEMMA NestedNext ==
  ASSUME Shape, Nested, [Next]_vars
  PROVE  Nested'
<1>0. /\ Len(frames) \in Nat /\ (frames # <<>> <=> Len(frames) > 0)
      /\ \A i \in 1 .. Len(frames) : frames[i].name \in Names
      /\ around \in [Names -> SUBSET Names]
  BY FramesThere DEF Shape, TypeOK
<1>1. CASE NamesKept
  <2>1. \A i \in 1 .. Len(frames) : {frames'[j].name : j \in 1 .. i} = {frames[j].name : j \in 1 .. i}
    BY <1>0, <1>1 DEF NamesKept
  <2> QED
    BY <1>0, <1>1, <2>1 DEF Nested, NamesKept
<1>2. ASSUME frames # <<>>, UNCHANGED around, NEW result \in Results, Told(result)
      PROVE  Nested'
  <2>1. /\ Len(frames') = Len(frames) - 1
        /\ \A i \in 1 .. Len(frames) - 1 : frames'[i] = frames[i]
        /\ Inner = frames[Len(frames)] /\ Inner.name \in Names
        /\ outcome'[Inner.name] # "new"
        /\ \A n \in Names : n # Inner.name => outcome'[n] = outcome[n]
    BY <1>2, ToldEffect DEF Shape, Results
  <2>2. \A i \in 1 .. Len(frames) - 1 : {frames'[j].name : j \in 1 .. i} = {frames[j].name : j \in 1 .. i}
    BY <1>0, <2>1
  <2>3. \A i \in 1 .. Len(frames) - 1 : outcome'[frames[i].name] = "open"
    BY <1>0, <2>1 DEF Nested
  <2>4. \A n \in Names : /\ \A k \in around[n] : outcome'[k] # "new"
                         /\ outcome'[n] = "new" => around[n] = {}
    BY <1>0, <2>1 DEF Nested
  <2>5. \A i \in 1 .. Len(frames') :
          /\ outcome'[frames'[i].name] = "open"
          /\ around'[frames'[i].name] = {frames'[j].name : j \in 1 .. i}
          /\ \A j \in 1 .. Len(frames') : frames'[i].name = frames'[j].name => i = j
    <3> SUFFICES ASSUME NEW i \in 1 .. Len(frames')
                 PROVE  /\ outcome'[frames'[i].name] = "open"
                        /\ around'[frames'[i].name] = {frames'[j].name : j \in 1 .. i}
                        /\ \A j \in 1 .. Len(frames') : frames'[i].name = frames'[j].name => i = j
      OBVIOUS
    <3>1. /\ i \in 1 .. Len(frames) - 1 /\ i \in 1 .. Len(frames)
          /\ Len(frames') = Len(frames) - 1
      BY <1>0, <2>1
    <3> QED
      BY <1>0, <1>2, <2>1, <2>2, <2>3, <3>1, SMTT(30) DEF Nested
  <2>6. \A n \in Names : around'[n] = around[n]
    BY <1>2
  <2> QED
    BY <2>4, <2>5, <2>6 DEF Nested
<1>3. ASSUME NEW b \in BOOLEAN, Transaction(b)
      PROVE  Nested'
  <2>1. PICK name \in Names :
           /\ outcome[name] = "new" /\ outcome'[name] = "open"
           /\ \A n \in Names : n # name => outcome'[n] = outcome[n] /\ around'[n] = around[n]
           /\ around'[name] = {name} \cup (IF frames = <<>> THEN {} ELSE around[Inner.name])
           /\ Len(frames') = Len(frames) + 1
           /\ \A i \in 1 .. Len(frames) : frames'[i] = frames[i]
           /\ frames'[Len(frames) + 1].name = name
    BY <1>3, TransactionFrames
  <2>2. \A i \in 1 .. Len(frames) : frames[i].name # name
    BY <1>0, <2>1 DEF Nested
  <2>3. \A i \in 1 .. Len(frames) : {frames'[j].name : j \in 1 .. i} = {frames[j].name : j \in 1 .. i}
    BY <1>0, <2>1
  <2>4. around'[name] = {frames'[j].name : j \in 1 .. Len(frames')}
    <3>1. {frames'[j].name : j \in 1 .. Len(frames')} = {name} \cup {frames'[j].name : j \in 1 .. Len(frames)}
      BY <1>0, <2>1
    <3>2. CASE frames = <<>>
      BY <1>0, <2>1, <3>1, <3>2
    <3>3. CASE frames # <<>>
      <4>1. around[Inner.name] = {frames[j].name : j \in 1 .. Len(frames)}
        BY <1>0, <3>3 DEF Nested, Inner
      <4>2. {frames'[j].name : j \in 1 .. Len(frames)} = {frames[j].name : j \in 1 .. Len(frames)}
        BY <2>1
      <4> QED
        BY <2>1, <3>1, <3>3, <4>1, <4>2
    <3> QED
      BY <3>2, <3>3
  <2>5. \A n \in Names : n # name => name \notin around[n]
    BY <2>1 DEF Nested
  <2>6. \A n \in Names : \A k \in around'[n] : outcome'[k] # "new"
    <3>1. ASSUME NEW n \in Names, n # name PROVE \A k \in around'[n] : outcome'[k] # "new"
      <4>1. \A k \in around[n] : k \in Names /\ k # name /\ outcome[k] # "new"
        BY <1>0, <2>5, <3>1 DEF Nested
      <4> QED
        BY <2>1, <3>1, <4>1
    <3>2. \A k \in around'[name] : outcome'[k] # "new"
      <4>1. \A i \in 1 .. Len(frames) : outcome'[frames[i].name] = "open"
        BY <1>0, <2>1, <2>2 DEF Nested
      <4> QED
        BY <1>0, <2>1, <2>4, <4>1
    <3> QED
      BY <3>1, <3>2
  <2>7. \A n \in Names : outcome'[n] = "new" => around'[n] = {}
    BY <2>1 DEF Nested
  <2>8. \A i \in 1 .. Len(frames') :
          /\ outcome'[frames'[i].name] = "open"
          /\ around'[frames'[i].name] = {frames'[j].name : j \in 1 .. i}
          /\ \A j \in 1 .. Len(frames') : frames'[i].name = frames'[j].name => i = j
    <3> SUFFICES ASSUME NEW i \in 1 .. Len(frames')
                 PROVE  /\ outcome'[frames'[i].name] = "open"
                        /\ around'[frames'[i].name] = {frames'[j].name : j \in 1 .. i}
                        /\ \A j \in 1 .. Len(frames') : frames'[i].name = frames'[j].name => i = j
      OBVIOUS
    <3>1. CASE i = Len(frames')
      BY <1>0, <2>1, <2>2, <2>4, <3>1
    <3>2. CASE i # Len(frames')
      <4>1. i \in 1 .. Len(frames)
        BY <1>0, <2>1, <3>2
      <4> QED
        BY <1>0, <2>1, <2>2, <2>3, <4>1, SMTT(30) DEF Nested
    <3> QED
      BY <3>1, <3>2
  <2> QED
    BY <2>6, <2>7, <2>8 DEF Nested
<1> QED
  BY <1>1, <1>2, <1>3, FramesStep

LEMMA NestedInit ==
  ASSUME Init
  PROVE  Nested
<1>1. Len(frames) = 0 /\ around = [n \in Names |-> {}]
  BY DEF Init
<1> QED
  BY <1>1 DEF Nested

-------------------------------------------------------------------------------
(* What the client believes of the session, and the reset bit.                   *)

\* The tokens still to be read turn what the client believes into what the
\* server has; a request not executed carries the descriptor of the session.
Believed == [count |-> IF inTransaction THEN 1 ELSE 0, id |-> CurrentTransactionDescriptor]
Unread == IF Going THEN request.tokens ELSE <<>>

Believes ==
  ~Old /\ state # "FINAL" =>
    /\ TokensTell(Believed, server, Unread)
    /\ Going /\ ~request.executed => request.descriptor = server.id

\* A reset carries the bit, and leaves no transaction unless it was ignored;
\* nothing else carries the bit, unless a reset was refused.
Resets ==
  /\ request.op = "reset" => request.reset /\ (request.executed /\ ~request.ignore => server.count = 0)
  /\ state # "FINAL" /\ ~(upset /\ clouded) =>
       /\ resetNext => request.op = "reset" /\ ~request.finished
       /\ Going => (request.reset <=> request.op = "reset")

\* A step that makes a request.
Makes ==
  /\ request = None /\ Going' /\ ~request'.executed /\ ~request'.finished /\ request'.tokens = <<>>
  /\ request'.descriptor = CurrentTransactionDescriptor
  /\ ~request'.err /\ ~request'.canceled /\ ~request'.ignore
  /\ state = "LOGGED_IN" /\ state' = "SENT_CLIENT_REQUEST"
  /\ UNCHANGED <<version, inTransaction, descriptors, depth, server, clouded>>

\* Every step, by what it does to the request in flight.
LEMMA MakeMakes ==
  ASSUME Shape, NEW op \in Ops, NEW name \in 0 .. MaxTransactions, NEW batch \in BOOLEAN,
         Make(op, name, batch), UNCHANGED <<user, server>>
  PROVE  /\ Makes /\ request'.op = op /\ request'.name = name /\ request'.reset = resetNext
         /\ UNCHANGED <<resetNext, user>>
<1>1. state = "LOGGED_IN" /\ request = None
  BY DEF Shape, OneRequest, Going, Make
<1>2. request' # None
  BY PayloadType DEF Shape, Make
<1> QED
  BY <1>1, <1>2 DEF Make, Makes, Payload, Going, user

LEMMA ResetMakes ==
  ASSUME Shape, Reset
  PROVE  /\ Makes /\ request'.op = "reset" /\ request'.reset /\ resetNext'
         /\ upset' = (upset \/ depth # 0)
         /\ UNCHANGED <<frames, around, outcome, did, clouded>>
<1>1. state = "LOGGED_IN" /\ request = None
  BY DEF Shape, OneRequest, Going, Reset
<1>2. /\ request'.op = "reset" /\ request'.reset /\ request' # None
      /\ ~request'.executed /\ ~request'.finished /\ request'.tokens = <<>>
      /\ request'.descriptor = CurrentTransactionDescriptor
      /\ ~request'.err /\ ~request'.canceled /\ ~request'.ignore
  <2>1. /\ Payload("reset", 0).op = "reset"
        /\ ~Payload("reset", 0).executed /\ ~Payload("reset", 0).finished
        /\ Payload("reset", 0).tokens = <<>> /\ ~Payload("reset", 0).err
        /\ ~Payload("reset", 0).canceled /\ ~Payload("reset", 0).ignore
        /\ Payload("reset", 0).descriptor = CurrentTransactionDescriptor
        /\ Payload("reset", 0) \in Payloads
    <3>1. "reset" \in Ops /\ 0 \in 0 .. MaxTransactions
      BY TransactionsAssumption DEF Ops
    <3> QED
      BY <3>1, PayloadType DEF Shape, Payload
  <2> QED
    BY <2>1, NoneIsNoPayload DEF Reset, Payloads
<1> QED
  BY <1>1, <1>2 DEF Reset, Makes, Going

\* Requests in flight that go on, and steps without one.
Progresses ==
  /\ Going /\ Going'
  /\ request'.op = request.op /\ request'.name = request.name
  /\ request'.reset = request.reset /\ request'.descriptor = request.descriptor
  /\ request'.executed = request.executed /\ request'.err = request.err
  /\ request'.tokens = request.tokens
  /\ upset => upset'
  /\ UNCHANGED <<version, state, inTransaction, descriptors, depth, server, frames, around, outcome, did>>

LEMMA ProgressSteps ==
  ASSUME Shape, MessageFinished \/ Cancel
  PROVE  /\ Progresses
         /\ MessageFinished => /\ ~resetNext' /\ request'.finished /\ UNCHANGED <<upset, clouded>>
                               /\ request'.canceled = request.canceled
                               /\ request'.ignore = request.ignore
         /\ Cancel => /\ UNCHANGED resetNext /\ clouded' = (clouded \/ request.op \in Control)
                      /\ upset' = (upset \/ ~request.finished)
                      /\ request'.finished = request.finished /\ request'.canceled
                      /\ request'.ignore <=> ~request.finished
<1>1. CASE MessageFinished
  <2>1. /\ Going /\ request \in Payloads /\ request' \in Payloads
        /\ request' = [request EXCEPT !.finished = TRUE]
    BY <1>1, GoingType DEF MessageFinished, Going
  <2>2. /\ request'.op = request.op /\ request'.name = request.name
        /\ request'.reset = request.reset /\ request'.descriptor = request.descriptor
        /\ request'.executed = request.executed /\ request'.err = request.err
        /\ request'.tokens = request.tokens /\ request'.finished
        /\ request'.canceled = request.canceled /\ request'.ignore = request.ignore
    BY <2>1, ProgressFields DEF KeepsAll, KeepsCancel
  <2>3. Going' /\ ~Cancel
    <3>1. Going'
      BY <2>1, NoneIsNoPayload DEF Going
    <3>2. ~request.finished /\ request'.finished
      BY <1>1, <2>2 DEF MessageFinished
    <3>3. Cancel => request'.finished = request.finished
      BY CancelEffect
    <3> QED
      BY <3>1, <3>2, <3>3
  <2> QED
    BY <1>1, <2>1, <2>2, <2>3 DEF Progresses, MessageFinished, user
<1>2. CASE Cancel
  <2>1. /\ Going /\ Going'
        /\ request'.op = request.op /\ request'.name = request.name
        /\ request'.reset = request.reset /\ request'.descriptor = request.descriptor
        /\ request'.executed = request.executed /\ request'.err = request.err
        /\ request'.tokens = request.tokens
        /\ request'.finished = request.finished /\ request'.canceled
        /\ request'.ignore <=> ~request.finished
    BY <1>2, CancelEffect
  <2> QED
    BY <1>1, <1>2, <2>1 DEF Progresses, Cancel
<1> QED
  BY <1>1, <1>2

LEMMA TokenEffect ==
  ASSUME Shape, Token
  PROVE  /\ Going /\ Going' /\ request.executed /\ request.tokens # <<>>
         /\ request' = [request EXCEPT !.tokens = Tail(@)]
         /\ request'.op = request.op /\ request'.name = request.name /\ request'.reset = request.reset
         /\ request'.descriptor = request.descriptor /\ request'.finished = request.finished
         /\ request'.executed = request.executed /\ request'.err = request.err
         /\ request'.canceled = request.canceled
         /\ request'.ignore = request.ignore /\ request'.late = request.late
         /\ request'.tokens = Tail(request.tokens)
         /\ UNCHANGED <<version, state, depth, resetNext, around, outcome, did, upset, clouded, server>>
<1>1. /\ Going /\ Going' /\ request.tokens # <<>> /\ request \in Payloads
      /\ request' = [request EXCEPT !.tokens = Tail(@)]
      /\ UNCHANGED <<version, state, depth, resetNext, around, outcome, did, upset, clouded, server>>
  BY TokenShape, GoingType DEF Token, Going
<1> QED
  BY <1>1 DEF Shape, OneRequest, Payloads

LEMMA BelievesNext ==
  ASSUME Shape, Believes, [Next]_vars
  PROVE  Believes'
<1> SUFFICES ASSUME (~Old)', state' # "FINAL"
             PROVE  (/\ TokensTell(Believed, server, Unread)
                     /\ Going /\ ~request.executed => request.descriptor = server.id)'
  BY SMTT(30) DEF Believes
<1>0. ~Old /\ Shape' /\ UNCHANGED version
  BY ShapeNext DEF Old, Next, Transaction, Exec, Make, TransactionRefused, TxDoneErr, TxDoneOk, Refuse, Reset,
     ResetRefused, MessageFinished, Cancel, Execute, Token, Answered, Lost, vars, client
<1>1. ASSUME state # "FINAL", Going' <=> Going, UNCHANGED <<inTransaction, descriptors, server>>,
             Going => /\ request'.tokens = request.tokens /\ request'.executed = request.executed
                      /\ request'.descriptor = request.descriptor
      PROVE  (/\ TokensTell(Believed, server, Unread)
              /\ Going /\ ~request.executed => request.descriptor = server.id)'
  <2>1. UNCHANGED <<Believed, Unread>>
    BY <1>1 DEF Believed, CurrentTransactionDescriptor, Unread
  <2>2. TokensTell(Believed, server, Unread) /\ (Going /\ ~request.executed => request.descriptor = server.id)
    BY <1>0, <1>1 DEF Believes
  <2>3. TokensTell(Believed', server', Unread')
    BY <1>1, <2>1, <2>2
  <2> QED
    BY <1>1, <2>2, <2>3
<1>2. ASSUME state # "FINAL", Unread = <<>>, UNCHANGED <<inTransaction, descriptors, server>>,
             Going' => /\ request'.tokens = <<>> /\ ~request'.executed
                       /\ request'.descriptor = CurrentTransactionDescriptor
      PROVE  (/\ TokensTell(Believed, server, Unread)
              /\ Going /\ ~request.executed => request.descriptor = server.id)'
  <2>1. UNCHANGED <<Believed, Unread>>
    BY <1>2 DEF Believed, CurrentTransactionDescriptor, Unread
  <2>2. TokensTell(Believed, server, Unread)
    BY <1>0, <1>2 DEF Believes
  <2>3. server.id = CurrentTransactionDescriptor
    BY <1>2, <2>2 DEF TokensTell, Believed
  <2>4. TokensTell(Believed', server', Unread')
    BY <1>2, <2>1, <2>2
  <2> QED
    BY <1>2, <2>3, <2>4
<1>3. CASE Makes
  BY <1>2, <1>3 DEF Makes, Unread, Going
<1>4. CASE Progresses
  BY <1>1, <1>0, <1>4 DEF Progresses, Shape, OneRequest
<1>5. CASE \/ UNCHANGED vars
           \/ TransactionRefused \/ ResetRefused
           \/ UNCHANGED <<client, server>>
           \/ /\ request = None /\ request' = None
              /\ UNCHANGED <<inTransaction, descriptors, server, state>>
  <2>1. ASSUME NEW op, KeepCount(op, inTransaction) PROVE UNCHANGED inTransaction
    BY <1>0, <2>1 DEF KeepCount
  <2>2. UNCHANGED <<inTransaction, descriptors, server, state, request>>
    BY <1>5, <2>1 DEF TransactionRefused, ResetRefused, vars, client
  <2> QED
    BY <1>1, <2>2 DEF Going
<1>6. CASE Execute
  <2>1. /\ Going /\ Going' /\ request.tokens = <<>> /\ request'.executed
        /\ UNCHANGED <<inTransaction, descriptors, state>>
        /\ TokensTell(server, server', request'.tokens)
    BY <1>0, <1>6, ExecuteEffect
  <2>2. TokensTell(Believed, server, <<>>) /\ UNCHANGED Believed
    BY <1>0, <2>1 DEF Believes, Unread, Believed, CurrentTransactionDescriptor
  <2>3. TokensTell(Believed, server', request'.tokens)
    BY <2>1, <2>2 DEF TokensTell
  <2>4. TokensTell(Believed', server', Unread')
    BY <2>1, <2>2, <2>3 DEF Unread
  <2> QED
    BY <2>1, <2>4
<1>7. CASE Token
  <2> DEFINE t == Head(request.tokens)
             rest == Tail(request.tokens)
  <2>1. /\ Going /\ Going' /\ request.executed /\ request.tokens # <<>> /\ request'.tokens = rest
        /\ request'.executed /\ UNCHANGED <<server, state>> /\ request.tokens \in Seq(Tokens)
    BY <1>7, TokenEffect, GoingType
  <2>2. /\ CurrentTransactionDescriptor' = IF t.kind = "begin" THEN t.value ELSE 0
        /\ inTransaction' = (t.kind = "begin")
    BY <1>7, TokenShape
  <2>3. LET token == request.tokens[Len(request.tokens)] IN
          /\ token.kind = "begin" <=> server.count > 0
          /\ server.id = IF token.kind = "begin" THEN token.value ELSE 0
    BY <1>0, <2>1 DEF Believes, Unread, TokensTell
  <2>4. /\ rest = <<>> => t = request.tokens[Len(request.tokens)]
        /\ rest # <<>> => rest[Len(rest)] = request.tokens[Len(request.tokens)]
    <3>1. /\ Len(request.tokens) \in Nat /\ Len(request.tokens) > 0 /\ rest \in Seq(Tokens)
          /\ Len(rest) = Len(request.tokens) - 1 /\ t = request.tokens[1]
          /\ \A i \in 1 .. Len(request.tokens) - 1 : rest[i] = request.tokens[i + 1]
      BY <2>1, HeadTailProperties, EmptySeq, LenProperties
    <3>2. rest = <<>> => Len(rest) = 0
      BY EmptySeq
    <3>3. rest # <<>> => Len(rest) \in 1 .. Len(request.tokens) - 1
      BY <3>1, EmptySeq
    <3> QED
      BY <3>1, <3>2, <3>3
  <2>5. UNCHANGED server /\ Unread' = rest
    BY <2>1 DEF Unread
  <2>6. rest = <<>> => /\ server.count > 0 <=> Believed'.count > 0
                      /\ Believed'.id = CurrentTransactionDescriptor'
    <3>1. CASE rest = <<>>
      <4>1. t.kind = "begin" <=> server.count > 0
        BY <2>3, <2>4, <3>1
      <4>2. inTransaction' \in BOOLEAN
        BY <1>0 DEF Shape, TypeOK
      <4> HIDE DEF t
      <4>3. inTransaction' <=> server.count > 0
        BY <2>2, <4>1, Zenon
      <4>4. \A d : \A b \in BOOLEAN : LET s == [count |-> IF b THEN 1 ELSE 0, id |-> d] IN
              (s.count > 0 <=> b) /\ s.id = d
        OBVIOUS
      <4> QED
        BY <4>2, <4>3, <4>4, Zenon DEF Believed
    <3> QED
      BY <3>1
  <2>7. TokensTell(Believed', server, rest)
    <3>1. CASE rest = <<>>
      <4>1. server.id = IF t.kind = "begin" THEN t.value ELSE 0
        BY <2>3, <2>4, <3>1
      <4>2. server.id = Believed'.id
        BY <2>2, <2>6, <3>1, <4>1
      <4> QED
        BY <2>6, <3>1, <4>2 DEF TokensTell
    <3>2. CASE rest # <<>>
      BY <2>3, <2>4, <3>2 DEF TokensTell
    <3> QED
      BY <3>1, <3>2
  <2> HIDE DEF rest, t
  <2>8. TokensTell(Believed', server', Unread')
    BY <2>5, <2>7
  <2> QED
    BY <2>1, <2>8
<1>8. CASE Answered
  <2>1. /\ Going /\ request.tokens = <<>> /\ state = "SENT_CLIENT_REQUEST" /\ UNCHANGED <<descriptors, server>>
        /\ KeepCount(request.op, AfterIn)
        /\ Going' => request' = Payload("isolation", 0)
    BY <1>8, AnsweredEffect, GoingType
  <2>2. UNCHANGED inTransaction
    <3>1. inTransaction' = AfterIn
      BY <1>0, <2>1 DEF KeepCount
    <3>2. inTransaction \in BOOLEAN
      BY DEF Shape, TypeOK
    <3>3. AfterAnswer(inTransaction, Err) = inTransaction
      BY <1>0, <3>2, Zenon DEF AfterAnswer
    <3> QED
      BY <3>1, <3>3 DEF AfterIn
  <2>3. Going' => /\ request'.tokens = <<>> /\ ~request'.executed
                  /\ request'.descriptor = CurrentTransactionDescriptor
    BY <2>1 DEF Payload
  <2> QED
    BY <1>2, <2>1, <2>2, <2>3 DEF Unread
<1>9. CASE \E b \in BOOLEAN : Transaction(b) \/ Exec(b)
  <2>1. PICK b \in BOOLEAN : Transaction(b) \/ Exec(b)
    BY <1>9
  <2>2. CASE Transaction(b)
    <3>1. /\ request = None /\ request'.tokens = <<>> /\ ~request'.executed /\ state # "FINAL"
          /\ request'.descriptor = CurrentTransactionDescriptor
          /\ UNCHANGED <<inTransaction, descriptors, server>>
      BY <2>2, TransactionFrames DEF Shape, OneRequest, Going
    <3> QED
      BY <1>2, <3>1 DEF Unread, Going
  <2>3. CASE Exec(b)
    <3>1. Inner.name \in 0 .. MaxTransactions /\ "exec" \in Ops
      BY <2>3, FrontOfFrames DEF Exec, Shape, Names, Ops
    <3> QED
      BY <1>3, <2>3, <3>1, MakeMakes DEF Exec
  <2> QED
    BY <2>1, <2>2, <2>3
<1>10. CASE TxDoneErr \/ TxDoneOk
  <2>1. frames # <<>> /\ request = None
    BY <1>10 DEF TxDoneErr, TxDoneOk
  <2>2. Inner.name \in 0 .. MaxTransactions /\ {"commit", "rollback"} \subseteq Ops /\ Old \in BOOLEAN
    BY <2>1, FrontOfFrames DEF Shape, Names, Ops, Control, Old
  <2>3. CASE \E op \in {"commit", "rollback"} : Make(op, Inner.name, Old) /\ UNCHANGED <<user, server>>
    BY <1>3, <2>2, <2>3, MakeMakes
  <2>4. CASE Refuse("commit") /\ UNCHANGED server
    <3>1. KeepCount("commit", inTransaction) /\ UNCHANGED <<descriptors, server, state, request>>
      BY <2>4 DEF Refuse
    <3>2. UNCHANGED inTransaction
      BY <1>0, <3>1 DEF KeepCount
    <3> QED
      BY <1>5, <2>1, <3>1, <3>2
  <2>5. CASE UNCHANGED <<state, request, inTransaction, descriptors, server>>
    BY <1>5, <2>1, <2>5
  <2> QED
    BY <1>10, <2>3, <2>4, <2>5 DEF TxDoneErr, TxDoneOk, client
<1> QED
  BY <1>3, <1>4, <1>5, <1>6, <1>7, <1>8, <1>9, <1>10, ResetMakes, ProgressSteps, LostShape DEF Next

LEMMA ResetsNext ==
  ASSUME Shape, Resets, [Next]_vars
  PROVE  Resets'
<1> DEFINE Quiet == state # "FINAL" /\ ~(upset /\ clouded)
<1>1. ASSUME NEW op \in Ops \ {"reset"}, NEW name \in 0 .. MaxTransactions, NEW batch \in BOOLEAN,
             Make(op, name, batch), UNCHANGED <<user, server>>
      PROVE  Resets'
  <2>1. /\ Makes /\ request'.op = op /\ request'.reset = resetNext /\ UNCHANGED <<resetNext, user>>
    BY <1>1, MakeMakes
  <2>2. Quiet' => ~resetNext
    BY <2>1, NoneIsNoPayload DEF Makes, user, Resets
  <2> QED
    BY <1>1, <2>1, <2>2 DEF Resets
<1>2. CASE Reset
  <2>1. /\ Makes /\ request'.op = "reset" /\ request'.reset
    BY <1>2, ResetMakes
  <2> QED
    BY <2>1 DEF Resets, Makes
<1>3. CASE MessageFinished
  <2>1. Progresses /\ ~resetNext' /\ UNCHANGED clouded /\ request'.ignore = request.ignore
    BY <1>3, ProgressSteps
  <2> QED
    BY <2>1 DEF Resets, Progresses
<1>4. CASE Cancel
  <2>1. /\ Progresses /\ UNCHANGED resetNext /\ (clouded => clouded')
        /\ request'.finished = request.finished /\ (request'.ignore <=> ~request.finished)
    BY <1>4, ProgressSteps
  <2>2. ~request.ignore
    BY <1>4, <2>1 DEF Cancel, Shape, OneRequest, Progresses
  <2> QED
    BY <2>1, <2>2 DEF Resets, Progresses
<1>5. CASE Token
  <2>1. /\ Going /\ Going' /\ request'.op = request.op /\ request'.reset = request.reset
        /\ request'.finished = request.finished /\ request'.executed = request.executed
        /\ request'.ignore = request.ignore
        /\ UNCHANGED <<state, resetNext, upset, clouded, server>>
    BY <1>5, TokenEffect
  <2> QED
    BY <2>1 DEF Resets
<1>6. CASE Execute
  <2>1. /\ Going /\ Going' /\ request'.op = request.op /\ request'.reset = request.reset
        /\ request'.finished /\ request.finished /\ request'.ignore = request.ignore
        /\ UNCHANGED <<state, resetNext, user>> /\ server \in Sessions
    BY <1>6, ExecuteEffect DEF Shape, TypeOK
  <2>2. ASSUME request.op = "reset"
        PROVE  request.reset /\ (~request.ignore => server'.count = 0)
    <3>1. request.reset
      BY <2>2 DEF Resets
    <3>2. server' = Clean
      BY <1>6, <2>2, ExecuteMeans
    <3>3. ~request.ignore => Clean.count = 0
      BY <2>1, <3>1, RollbackType DEF Clean, ResetFirst
    <3> QED
      BY <3>1, <3>2, <3>3
  <2> QED
    BY <2>1, <2>2 DEF Resets, user
<1>7. CASE Answered
  <2>1. /\ Going /\ request.finished
        /\ request' = None \/ (request' = Payload("isolation", 0) /\ Going')
        /\ UNCHANGED <<resetNext, clouded>> /\ (upset => upset') /\ state # "FINAL"
    BY <1>7, AnsweredEffect, GoingType DEF Completed
  <2>2. Quiet' => ~resetNext'
    BY <2>1 DEF Resets
  <2>3. request'.op # "reset" /\ (Going' => (request'.reset <=> resetNext))
    BY <2>1, NoneIsNoPayload DEF Payload, Going
  <2> QED
    BY <2>1, <2>2, <2>3 DEF Resets
<1>8. CASE Lost
  <2>1. state' = "FINAL" /\ request'.op = "none"
    BY <1>8, LostShape, NoneIsNoPayload
  <2> QED
    BY <2>1 DEF Resets
<1>9. CASE ResetRefused
  BY <1>9 DEF ResetRefused, Resets
<1>10. CASE UNCHANGED <<request, resetNext, state, clouded, server>> /\ (upset => upset')
  BY <1>10 DEF Resets, Going
<1>11. CASE TransactionRefused \/ UNCHANGED vars
  BY <1>10, <1>11 DEF TransactionRefused, vars, client, user
<1>12. CASE \E b \in BOOLEAN : Transaction(b) \/ Exec(b)
  <2>1. PICK b \in BOOLEAN : Transaction(b) \/ Exec(b)
    BY <1>12
  <2>2. CASE Transaction(b)
    <3>1. /\ request.op = "none" /\ request'.op # "reset" /\ request'.reset = resetNext
          /\ state # "FINAL" /\ UNCHANGED <<resetNext, upset, clouded>>
      BY <2>2, TransactionFrames
    <3> QED
      BY <3>1 DEF Resets
  <2>3. CASE Exec(b)
    <3>1. Inner.name \in 0 .. MaxTransactions /\ "exec" \in Ops
      BY <2>3, FrontOfFrames DEF Exec, Shape, Names, Ops
    <3> QED
      BY <1>1, <2>3, <3>1 DEF Exec
  <2> QED
    BY <2>1, <2>2, <2>3
<1>13. CASE TxDoneErr \/ TxDoneOk
  <2>1. frames # <<>> /\ request = None
    BY <1>13 DEF TxDoneErr, TxDoneOk
  <2>2. Inner.name \in 0 .. MaxTransactions /\ {"commit", "rollback"} \subseteq Ops \ {"reset"} /\ Old \in BOOLEAN
    BY <2>1, FrontOfFrames DEF Shape, Names, Ops, Control, Old
  <2>3. CASE \E op \in {"commit", "rollback"} : Make(op, Inner.name, Old) /\ UNCHANGED <<user, server>>
    BY <1>1, <2>2, <2>3
  <2>4. CASE Refuse("commit") /\ UNCHANGED server
    BY <1>10, <2>4 DEF Refuse, Completed
  <2>5. CASE UNCHANGED <<request, resetNext, state, clouded, server, upset>>
    BY <1>10, <2>5
  <2> QED
    BY <1>13, <2>3, <2>4, <2>5 DEF TxDoneErr, TxDoneOk, client
<1> QED
  BY <1>2, <1>3, <1>4, <1>5, <1>6, <1>7, <1>8, <1>9, <1>11, <1>12, <1>13 DEF Next

-------------------------------------------------------------------------------
(* Before TDS 7.2: the depth counter, until something fails.                     *)

Opening == request.op \in {"begin", "save"}

OldCounts ==
  Old /\ ~upset /\ state # "FINAL" =>
    LET n == Len(frames)
        done == request.executed /\ ~request.err IN
    /\ depth = IF Opening THEN n - 1 ELSE n
    /\ inTransaction <=> depth > 0
    /\ \A i \in 1 .. n : frames[i].useSavepoint <=> i > 1
    /\ Going => request.tokens = <<>> /\ ~request.ignore
    /\ request.op = "begin" => n = 1 /\ server.count = IF done THEN 1 ELSE 0
    /\ request.op = "save" => n > 1
    /\ request.op = "reset" => n = 0
    /\ request.op \in {"commit", "rollback"} /\ done => server.count = IF n > 1 THEN 1 ELSE 0
    /\ request.op # "begin" /\ ~(request.op \in {"commit", "rollback"} /\ done) =>
         /\ n = 0 => server.count = 0
         /\ n > 0 /\ (Going => ~request.err) => server.count = 1
    /\ server.count > 0 => n > 0 /\ server.name = frames[1].name

LEMMA OldExecute ==
  ASSUME Shape, Nested, Resets, OldCounts, Old, ~upset, Execute
  PROVE  OldCounts'
<1> DEFINE n == Len(frames)
           done == request'.executed /\ ~request'.err
<1>0. /\ Going /\ Going' /\ ~request.executed /\ UNCHANGED <<state, inTransaction, depth, user>>
      /\ request'.executed /\ request'.tokens = <<>> /\ state # "FINAL"
      /\ request'.op = request.op /\ request'.name = request.name
      /\ request \in Payloads /\ request.op \in Ops /\ server \in Sessions /\ server.count \in Nat
      /\ n \in Nat /\ (n > 0 <=> frames # <<>>) /\ ~request.err
      /\ request'.ignore = request.ignore
  BY ExecuteEffect, GoingType, FramesThere DEF Shape, TypeOK, OneRequest, Sessions
<1>1. /\ depth = IF Opening THEN n - 1 ELSE n
      /\ inTransaction <=> depth > 0
      /\ \A i \in 1 .. n : frames[i].useSavepoint <=> i > 1
      /\ request.op = "begin" => n = 1 /\ server.count = 0
      /\ request.op = "save" => n > 1
      /\ request.op = "reset" => n = 0
      /\ request.op # "begin" => /\ n = 0 => server.count = 0
                                 /\ n > 0 => server.count = 1
      /\ server.count > 0 => n > 0 /\ server.name = frames[1].name
      /\ ~request.ignore
  BY <1>0 DEF OldCounts
<1>2. /\ ~Stale /\ (request.op # "reset" => Clean = server)
      /\ request'.err \in BOOLEAN
  BY <1>0, <1>1, ExecuteEffect DEF Clean, ResetFirst, Resets, Stale, Payloads
<1>3. /\ request'.err => Failed(Clean, request, server')
      /\ ~request'.err => /\ request.op \in {"reset", "isolation"} => server' = Clean
                          /\ request.op = "exec" => Executed(Clean, request, server')
                          /\ request.op = "begin" => Opened(Clean, request, server')
                          /\ request.op = "save" => SavedAt(Clean, request, server')
                          /\ request.op = "commit" => Closed(Clean, server')
                          /\ request.op = "rollback" => Undone(Clean, request, server')
      /\ request.op = "reset" => server' = Clean
  BY <1>2, ExecuteMeans
<1>4. /\ request.op \in {"begin", "save", "commit", "rollback", "exec"} =>
           n > 0 /\ request.name = frames[n].name
      /\ request.op = "commit" => ~frames[n].useSavepoint
  BY <1>0 DEF Shape, OfInnermost, Inner
<1>5. /\ request.op = "begin" => server'.count = IF done THEN 1 ELSE 0
      /\ request.op \in {"commit", "rollback"} /\ done => server'.count = IF n > 1 THEN 1 ELSE 0
      /\ request.op # "begin" /\ ~(request.op \in {"commit", "rollback"} /\ done) =>
           /\ n = 0 => server'.count = 0
           /\ n > 0 /\ ~request'.err => server'.count = 1
      /\ server'.count > 0 => n > 0 /\ server'.name = frames[1].name
  <2>1. CASE request.op = "reset"
    <3>1. server' = Clean /\ Clean.count = 0
      BY <1>0, <1>1, <1>3, <2>1, RollbackType DEF Clean, ResetFirst
    <3> QED
      BY <1>1, <2>1, <3>1
  <2>2. CASE request'.err /\ request.op # "reset"
    <3>1. server' = server \/ server' = Rollback(server)
      BY <1>2, <1>3, <2>2 DEF Failed
    <3>2. Rollback(server).count = 0
      BY <1>0, RollbackType
    <3>3. request.op \in {"begin", "commit", "rollback"} => server' = server \/ server'.count = 0
      BY <3>1, <3>2
    <3> QED
      BY <1>0, <1>1, <1>4, <2>2, <3>1, <3>2
  <2>3. CASE ~request'.err /\ request.op \in {"isolation", "exec", "save"}
    <3>1. server'.count = server.count /\ server'.name = server.name
      BY <1>2, <1>3, <2>3 DEF Executed, SavedAt, Same
    <3> QED
      BY <1>1, <2>3, <3>1
  <2>4. CASE ~request'.err /\ request.op = "begin"
    <3>1. server'.count = 1 /\ server'.name = request.name
      BY <1>1, <1>2, <1>3, <2>4 DEF Opened
    <3> QED
      BY <1>0, <1>1, <1>4, <2>4, <3>1
  <2>5. CASE ~request'.err /\ request.op = "commit"
    <3>1. n = 1
      <4>1. n \in 1 .. n /\ ~(n > 1)
        BY <1>0, <1>1, <1>4, <2>5
      <4>2. \A k \in Nat : k \in 1 .. k /\ ~(k > 1) => k = 1
        OBVIOUS
      <4> QED
        BY <1>0, <4>1, <4>2, Zenon
    <3>2. server'.count = 0
      BY <1>1, <1>2, <1>3, <2>5, <3>1 DEF Closed
    <3> QED
      BY <1>0, <2>5, <3>1, <3>2
  <2>6. CASE ~request'.err /\ request.op = "rollback"
    <3>1. server.count = 1 /\ n > 0 /\ server.name = frames[1].name /\ request.name = frames[n].name
      BY <1>1, <1>4, <2>6
    <3>2. server.name = request.name <=> n = 1
      <4>1. 1 \in 1 .. n /\ n \in 1 .. n
        BY <1>0, <3>1
      <4>2. frames[1].name = frames[n].name => 1 = n
        BY <4>1 DEF Nested
      <4> QED
        BY <3>1, <4>2
    <3>3. CASE n = 1
      <4>1. server' = Rollback(server) /\ Rollback(server).count = 0
        BY <1>0, <1>2, <1>3, <2>6, <3>1, <3>2, <3>3, RollbackType DEF Undone
      <4> QED
        BY <1>0, <2>6, <3>3, <4>1
    <3>4. CASE n # 1
      <4>1. server'.count = 1 /\ server'.name = server.name /\ n > 1
        BY <1>0, <1>2, <1>3, <2>6, <3>1, <3>2, <3>4 DEF Undone, BackTo, Same
      <4> QED
        BY <1>0, <2>6, <3>1, <4>1
    <3> QED
      BY <3>3, <3>4
  <2> QED
    BY <1>0, <1>2, <2>1, <2>2, <2>3, <2>4, <2>5, <2>6 DEF Ops, Control
<1>6. UNCHANGED frames
  BY <1>0 DEF user
<1> QED
  BY <1>0, <1>1, <1>5, <1>6 DEF OldCounts, Opening

LEMMA PairParts ==
  \A x, y : \A b \in BOOLEAN : /\ y = <<x, b>>[2] => (y <=> b)
                              /\ <<x, b>>[1] = x
  OBVIOUS

LEMMA OldCountsNext ==
  ASSUME Shape, Nested, Resets, OldCounts, [Next]_vars
  PROVE  OldCounts'
<1> SUFFICES ASSUME Old', ~upset', state' # "FINAL"
             PROVE  OldCounts'
  BY SMTT(30) DEF OldCounts
<1> DEFINE n == Len(frames)
           done == request.executed /\ ~request.err
<1>0. Old /\ Shape' /\ UNCHANGED version
  BY ShapeNext DEF Old, Next, Transaction, Exec, Make, TransactionRefused, TxDoneErr, TxDoneOk, Refuse, Reset,
     ResetRefused, MessageFinished, Cancel, Execute, Token, Answered, Lost, vars, client
<1>1. ASSUME ~upset, state # "FINAL"
      PROVE  /\ depth = IF Opening THEN n - 1 ELSE n
             /\ inTransaction <=> depth > 0
             /\ \A i \in 1 .. n : frames[i].useSavepoint <=> i > 1
             /\ Going => request.tokens = <<>> /\ ~request.ignore
             /\ request.op = "begin" => n = 1 /\ server.count = IF done THEN 1 ELSE 0
             /\ request.op = "save" => n > 1
             /\ request.op = "reset" => n = 0
             /\ request.op \in {"commit", "rollback"} /\ done => server.count = IF n > 1 THEN 1 ELSE 0
             /\ request.op # "begin" /\ ~(request.op \in {"commit", "rollback"} /\ done) =>
                  /\ n = 0 => server.count = 0
                  /\ n > 0 /\ (Going => ~request.err) => server.count = 1
             /\ server.count > 0 => n > 0 /\ server.name = frames[1].name
  BY <1>0, <1>1 DEF OldCounts
<1>2. /\ n \in Nat /\ (n > 0 <=> frames # <<>>) /\ depth \in Int /\ inTransaction \in BOOLEAN
      /\ (request.op = "none" <=> ~Going)
  <2>1. Going => request.op \in Ops
    BY GoingType
  <2>2. ~Going => request.op = "none"
    BY NoneIsNoPayload DEF Going
  <2> QED
    BY <2>1, <2>2, FramesThere, NoneIsNoPayload DEF Shape, TypeOK
<1>3. ASSUME NEW op \in {"commit", "rollback", "exec"}, NEW batch \in BOOLEAN,
             Make(op, Inner.name, batch), UNCHANGED <<user, server>>, frames # <<>>
      PROVE  OldCounts'
  <2>1. op \in Ops /\ Inner.name \in 0 .. MaxTransactions
    BY <1>3, FrontOfFrames DEF Shape, Names, Ops, Control
  <2>2. Makes /\ request'.op = op /\ UNCHANGED user
    BY <1>3, <2>1, MakeMakes
  <2>3. UNCHANGED <<upset, frames, depth, inTransaction, server>> /\ ~Going /\ state # "FINAL"
    BY <2>2 DEF user, Makes, Going
  <2> QED
    BY <1>1, <1>2, <1>3, <2>2, <2>3 DEF OldCounts, Opening, Makes
<1>4. CASE Reset
  <2>1. /\ Makes /\ request'.op = "reset" /\ UNCHANGED frames /\ ~upset /\ depth = 0 /\ ~Going
    BY <1>4, ResetMakes DEF Makes, Going
  <2>2. state # "FINAL" /\ UNCHANGED <<inTransaction, depth, server>>
    BY <2>1 DEF Makes
  <2> QED
    BY <1>1, <1>2, <2>1, <2>2 DEF OldCounts, Opening, Makes
<1>5. CASE MessageFinished \/ Cancel
  <2>1. Progresses /\ ~upset /\ (~request.ignore => ~request'.ignore)
    BY <1>5, ProgressSteps DEF Progresses
  <2> QED
    BY <1>0, <1>1, <2>1 DEF OldCounts, Opening, Progresses
<1>6. CASE Token
  BY <1>0, <1>1, <1>6, TokenEffect
<1>7. CASE Execute
  <2>1. ~upset
    BY <1>7, ExecuteEffect DEF user
  <2> QED
    BY <1>0, <1>7, <2>1, OldExecute
<1>8. CASE Answered
  <2>1. /\ Going /\ (request.executed \/ Acknowledged) /\ request.op \in Ops
        /\ UNCHANGED server /\ state # "FINAL"
        /\ KeepCount(request.op, AfterIn)
        /\ Completed(request.op, Err, ~request.canceled) /\ Err \in BOOLEAN /\ request.canceled \in BOOLEAN
        /\ ~Err /\ ~request.late => ~request.err /\ ~request.canceled
        /\ (request.op # "reset" => frames # <<>>)
        /\ IF Isolates THEN /\ request'.op = "isolation" /\ Going' /\ ~request'.err
                            /\ request'.tokens = <<>> /\ ~request'.ignore
                       ELSE request' = None /\ ~Going'
    BY <1>8, AnsweredEffect, GoingType
  <2>2. upset' = (upset \/ Err)
    BY <2>1, CompletedFrames
  <2>3. ~upset /\ ~Err /\ done /\ AfterIn = inTransaction
    <3>1. ~upset /\ ~Err
      BY <2>2
    <3>2. AfterAnswer(inTransaction, Err) = inTransaction
      BY <1>2, <3>1, Zenon DEF AfterAnswer
    <3>3. ~request.late
      BY <1>1, <2>1, <3>1 DEF Shape, OneRequest
    <3>4. done
      BY <2>1, <3>1, <3>3 DEF Acknowledged
    <3> QED
      BY <3>1, <3>2, <3>4 DEF AfterIn
  <2>4. /\ depth' = Count(request.op, inTransaction, depth)[1]
        /\ inTransaction' = Count(request.op, inTransaction, depth)[2]
    BY <1>0, <2>1, <2>3 DEF KeepCount
  <2>5. request'.op = IF Isolates THEN "isolation" ELSE "none"
    BY <2>1, NoneIsNoPayload
  <2>6. /\ request'.op \in {"none", "isolation"} /\ ~Opening'
        /\ Going' => ~request'.err /\ request'.tokens = <<>> /\ ~request'.ignore
    BY <2>1, <2>5 DEF Opening
  <2>7. CASE request.op \in {"commit", "rollback"}
    <3>1. frames # <<>> /\ \E result \in Results : Told(result)
      BY <2>1, <2>3, <2>7, CompletedFrames DEF Results
    <3>2. /\ Len(frames') = n - 1 /\ \A i \in 1 .. n - 1 : frames'[i] = frames[i]
      BY <3>1, ToldEffect DEF Shape
    <3>3. Count(request.op, inTransaction, depth) = <<depth - 1, inTransaction /\ depth - 1 # 0>>
      BY <2>7 DEF Count
    <3>4. depth' = depth - 1 /\ (inTransaction' <=> inTransaction /\ depth - 1 # 0)
      BY <2>4, <3>3, PairParts
    <3>5. depth = n /\ n > 0 /\ (inTransaction <=> n > 0) /\ server.count = IF n > 1 THEN 1 ELSE 0
      BY <1>1, <1>2, <2>1, <2>3, <2>7, <3>1 DEF Opening
    <3>6. depth' = n - 1 /\ (inTransaction' <=> depth' > 0)
      BY <1>2, <3>4, <3>5, SMTT(30)
    <3>7. server'.count > 0 => Len(frames') > 0 /\ server'.name = frames'[1].name
      BY <1>1, <1>2, <2>1, <2>3, <3>2, <3>5
    <3>8. /\ Len(frames') = 0 => server'.count = 0
          /\ Len(frames') > 0 => server'.count = 1
      BY <1>2, <2>1, <3>2, <3>5
    <3>9. \A i \in 1 .. Len(frames') : frames'[i].useSavepoint <=> i > 1
      BY <1>1, <1>2, <2>1, <2>3, <3>2
    <3> QED
      BY <2>6, <3>2, <3>6, <3>7, <3>8, <3>9 DEF OldCounts
  <2>8. CASE request.op \notin {"commit", "rollback"}
    <3>1. /\ Len(frames') = n
          /\ \A i \in 1 .. n : /\ frames'[i].name = frames[i].name
                               /\ frames'[i].useSavepoint = frames[i].useSavepoint
      BY <2>1, <2>3, <2>8, CompletedFrames DEF NamesKept
    <3>2. /\ n = 0 => server'.count = 0
          /\ n > 0 => server'.count = 1
          /\ server'.count > 0 => n > 0 /\ server'.name = frames'[1].name
      BY <1>1, <1>2, <2>1, <2>3, <2>8, <3>1
    <3>3. depth' = n /\ (inTransaction' <=> depth' > 0)
      <4>1. CASE request.op = "begin"
        <5>1. Count(request.op, inTransaction, depth) = <<depth + 1, inTransaction \/ depth + 1 = 1>>
          BY <4>1 DEF Count
        <5>2. depth' = depth + 1 /\ (inTransaction' <=> inTransaction \/ depth + 1 = 1)
          BY <2>4, <5>1, PairParts, ZenonT(40)
        <5> QED
          BY <1>1, <1>2, <2>1, <2>3, <4>1, <5>2 DEF Opening
      <4>2. CASE request.op = "save"
        <5>1. Count(request.op, inTransaction, depth) = <<depth + 1, inTransaction>>
          BY <4>2 DEF Count
        <5>2. depth' = depth + 1 /\ inTransaction' = inTransaction
          BY <2>4, <5>1
        <5> QED
          BY <1>1, <1>2, <2>1, <2>3, <4>2, <5>2 DEF Opening
      <4>3. CASE request.op = "reset"
        <5>1. Count(request.op, inTransaction, depth) = <<depth, FALSE>>
          BY <4>3 DEF Count
        <5>2. depth' = depth /\ inTransaction' = FALSE
          BY <2>4, <5>1
        <5> QED
          BY <1>1, <1>2, <2>1, <2>3, <4>3, <5>2 DEF Opening
      <4>4. CASE request.op \in {"exec", "isolation"}
        <5>1. Count(request.op, inTransaction, depth) = <<depth, inTransaction>>
          BY <4>4 DEF Count
        <5>2. depth' = depth /\ inTransaction' = inTransaction
          BY <2>4, <5>1
        <5> QED
          BY <1>1, <1>2, <2>1, <2>3, <4>4, <5>2 DEF Opening
      <4> QED
        BY <2>1, <2>8, <4>1, <4>2, <4>3, <4>4 DEF Ops, Control
    <3>4. \A i \in 1 .. Len(frames') : frames'[i].useSavepoint <=> i > 1
      BY <1>1, <2>1, <2>3, <3>1
    <3> QED
      BY <2>6, <3>1, <3>2, <3>3, <3>4 DEF OldCounts
  <2> QED
    BY <2>7, <2>8
<1>9. CASE TransactionRefused \/ ResetRefused
  BY <1>9 DEF TransactionRefused, ResetRefused
<1>10. CASE UNCHANGED vars
  <2>1. UNCHANGED <<upset, state, frames, depth, inTransaction, server, request>>
    BY <1>10 DEF vars, client, user
  <2> QED
    BY <1>1, <2>1 DEF OldCounts, Opening, Going
<1>11. CASE \E b \in BOOLEAN : Transaction(b) \/ Exec(b)
  <2>1. PICK b \in BOOLEAN : Transaction(b) \/ Exec(b)
    BY <1>11
  <2>2. CASE Transaction(b)
    <3>1. /\ Len(frames') = n + 1 /\ \A i \in 1 .. n : frames'[i] = frames[i]
          /\ frames'[n + 1].useSavepoint = inTransaction
          /\ request.op = "none" /\ state # "FINAL"
          /\ request'.op = (IF inTransaction THEN "save" ELSE "begin")
          /\ ~request'.executed /\ ~request'.err /\ request'.tokens = <<>> /\ ~request'.ignore
          /\ UNCHANGED <<inTransaction, depth, upset, server>>
      BY <2>2, TransactionFrames
    <3>2. depth = n /\ (inTransaction <=> n > 0)
      BY <1>1, <1>2, <3>1 DEF Opening
    <3>3. \A i \in 1 .. n + 1 : frames'[i].useSavepoint <=> i > 1
      BY <1>1, <1>2, <3>1, <3>2
    <3>4. /\ n > 0 => request'.op = "save" /\ server'.count = 1
          /\ n = 0 => request'.op = "begin" /\ server'.count = 0
      BY <1>1, <1>2, <3>1, <3>2
    <3>5. server'.count > 0 => n > 0 /\ server'.name = frames'[1].name
      BY <1>1, <1>2, <3>1
    <3> QED
      BY <1>2, <3>1, <3>2, <3>3, <3>4, <3>5 DEF OldCounts, Opening
  <2>3. CASE Exec(b)
    BY <1>3, <2>3 DEF Exec
  <2> QED
    BY <2>1, <2>2, <2>3
<1>12. CASE TxDoneErr
  <2>1. frames # <<>> /\ request = None /\ Old \in BOOLEAN
    BY <1>12 DEF TxDoneErr, Old
  <2>2. CASE Make("rollback", Inner.name, Old) /\ UNCHANGED <<user, server>>
    BY <1>3, <2>1, <2>2
  <2>3. CASE ~(inTransaction /\ state = "LOGGED_IN") /\ UNCHANGED <<client, upset>>
    <3>1. state = "LOGGED_IN"
      BY <1>12, <2>1, <2>3 DEF client, Shape, OneRequest, TypeOK, Going
    <3>2. depth > 0 /\ (inTransaction <=> depth > 0)
      BY <1>1, <1>2, <2>1, <2>3, <3>1 DEF Opening, Going
    <3> QED
      BY <2>3, <3>1, <3>2
  <2> QED
    BY <1>12, <2>2, <2>3 DEF TxDoneErr
<1>13. CASE TxDoneOk
  <2>1. frames # <<>> /\ request = None /\ Old \in BOOLEAN /\ request.op = "none"
    BY <1>2, <1>13 DEF TxDoneOk, Old, Going
  <2>2. CASE Make("commit", Inner.name, Old) /\ UNCHANGED <<user, server>>
    BY <1>3, <2>1, <2>2
  <2>3. CASE Refuse("commit")
    BY <2>3 DEF Refuse, Completed
  <2>4. CASE /\ Inner.useSavepoint /\ depth' = IF Old THEN depth - 1 ELSE depth
             /\ Told("ok") /\ UNCHANGED <<state, inTransaction, request, upset, server>>
    <3>1. /\ Len(frames') = n - 1 /\ \A i \in 1 .. n - 1 : frames'[i] = frames[i]
          /\ Inner = frames[n]
      BY <2>1, <2>4, ToldEffect DEF Shape
    <3>2. n > 1 /\ depth = n /\ inTransaction /\ server.count = 1 /\ server.name = frames[1].name
      BY <1>1, <1>2, <2>1, <2>4, <3>1 DEF Opening
    <3>3. depth' = n - 1 /\ inTransaction' /\ n - 1 > 0
      BY <1>0, <1>2, <2>4, <3>2
    <3>4. \A i \in 1 .. Len(frames') : frames'[i].useSavepoint <=> i > 1
      BY <1>1, <1>2, <2>4, <3>1
    <3>5. frames'[1] = frames[1] /\ Len(frames') > 0
      BY <1>2, <3>1, <3>2
    <3>6. request'.op = "none" /\ ~Going' /\ ~Opening'
      BY <2>1, <2>4 DEF Going, Opening
    <3> QED
      BY <2>4, <3>1, <3>2, <3>3, <3>4, <3>5, <3>6 DEF OldCounts
  <2> QED
    BY <1>13, <2>2, <2>3, <2>4 DEF TxDoneOk
<1>14. CASE Lost
  BY <1>14 DEF Lost
<1> QED
  BY <1>4, <1>5, <1>6, <1>7, <1>8, <1>9, <1>10, <1>11, <1>12, <1>13, <1>14 DEF Next

-------------------------------------------------------------------------------
SessionInv == Shape /\ Nested /\ Believes /\ Resets /\ OldCounts

LEMMA SessionInit ==
  ASSUME Init
  PROVE  SessionInv
<1>1. /\ ~Going /\ request.op = "none" /\ Len(frames) = 0 /\ CurrentTransactionDescriptor = 0
      /\ server.count = 0 /\ server.id = 0
  BY NoneIsNoPayload DEF Init, Going, CurrentTransactionDescriptor
<1>2. Believes
  BY <1>1 DEF Init, Believes, TokensTell, Believed, Unread
<1>3. Resets /\ OldCounts
  BY <1>1 DEF Init, Resets, OldCounts, Opening
<1> QED
  BY <1>2, <1>3, ShapeInit, NestedInit DEF SessionInv

LEMMA SessionNext ==
  ASSUME SessionInv, [Next]_vars
  PROVE  SessionInv'
  BY ShapeNext, NestedNext, BelievesNext, ResetsNext, OldCountsNext DEF SessionInv

(* In every behaviour the request, the frames, the beliefs, the reset bit and   *)
(* the depth counter stand as SessionInv says (connection.ts:2921-3076).         *)
THEOREM SessionInvariant == Spec => []SessionInv
<1>1. Init => SessionInv
  BY SessionInit
<1>2. SessionInv /\ [Next]_vars => SessionInv'
  BY SessionNext
<1> QED
  BY <1>1, <1>2, PTL DEF Spec

(* The types of Transactions, for every number of calls of transaction().       *)
THEOREM TransactionTypes == Spec => []TypeOK
<1>1. SessionInv => TypeOK
  BY DEF SessionInv, Shape
<1> QED
  BY <1>1, SessionInvariant, PTL

LEMMA SessionInvAgrees == SessionInv => SessionAgrees
<1> SUFFICES ASSUME SessionInv, state = "LOGGED_IN"
             PROVE  SessionAgrees
  BY DEF SessionAgrees
<1>1. /\ ~Going /\ request.op = "none" /\ Unread = <<>> /\ inTransaction \in BOOLEAN
      /\ Len(frames) \in Nat /\ server.count \in Nat
  BY NoneIsNoPayload, FramesThere DEF SessionInv, Shape, OneRequest, Going, TypeOK, Unread, Sessions
<1>2. ~Old => (inTransaction <=> server.count > 0) /\ CurrentTransactionDescriptor = server.id
  <2>1. ~Old => TokensTell(Believed, server, <<>>)
    BY <1>1 DEF SessionInv, Believes
  <2>2. (Believed.count > 0 <=> inTransaction) /\ Believed.id = CurrentTransactionDescriptor
    BY <1>1 DEF Believed
  <2> QED
    BY <2>1, <2>2 DEF TokensTell
<1>3. Old /\ ~upset => /\ inTransaction <=> server.count > 0
                       /\ server.count > 0 => depth = Len(frames)
  BY <1>1 DEF SessionInv, OldCounts, Opening
<1> QED
  BY <1>2, <1>3 DEF SessionAgrees

(* With no request in flight the client's view of the transaction is the        *)
(* server's: inTransaction and the descriptor since TDS 7.2, whatever failed or *)
(* was cancelled; the depth counter before it, until a request fails or is      *)
(* cancelled before it is sent (token/handler.ts:427-442, connection.ts:2811).   *)
THEOREM ClientAgreesWithServer == Spec => []SessionAgrees
  BY SessionInvAgrees, SessionInvariant, PTL

LEMMA ResetStep ==
  ASSUME SessionInv, [Next]_vars
  PROVE  /\ request # None /\ request.op = "reset" /\ request'.op = "none" /\ state' = "LOGGED_IN"
              /\ ~request.err /\ ~request.canceled => server.count = 0 /\ (~Old => ~inTransaction')
         /\ request.op = "none" /\ request'.op # "none" /\ ~clouded => (request'.reset <=> request'.op = "reset")
<1>1. SessionInv'
  BY SessionNext
<1>2. ASSUME request # None, request.op = "reset", request'.op = "none", state' = "LOGGED_IN",
             ~request.err, ~request.canceled
      PROVE  server.count = 0 /\ (~Old => ~inTransaction')
  <2>1. Going /\ ~Going' /\ UNCHANGED version
    <3>1. Going /\ ~Going'
      BY <1>1, <1>2 DEF SessionInv, Shape, OneRequest, Going
    <3>2. UNCHANGED version
      BY DEF Next, Transaction, Exec, Make, TransactionRefused, TxDoneErr, TxDoneOk, Refuse, Reset,
         ResetRefused, MessageFinished, Cancel, Execute, Token, Answered, Lost, vars, client
    <3> QED
      BY <3>1, <3>2
  <2>2. Answered
    <3>1. UNCHANGED vars => UNCHANGED request
      BY DEF vars, client
    <3>2. (\E b \in BOOLEAN : Transaction(b) \/ Exec(b)) => state = "LOGGED_IN"
      BY DEF Transaction, Exec, Make
    <3>3. state # "LOGGED_IN"
      BY <2>1 DEF SessionInv, Shape, OneRequest
    <3>4. TransactionRefused \/ ResetRefused => UNCHANGED request
      BY DEF TransactionRefused, ResetRefused
    <3>5. TxDoneErr \/ TxDoneOk => ~Going
      BY DEF TxDoneErr, TxDoneOk, Going
    <3>6. Reset => state = "LOGGED_IN"
      BY DEF Reset
    <3>7. MessageFinished \/ Cancel \/ Execute \/ Token => Going'
      BY ProgressSteps, ExecuteEffect, TokenEffect DEF SessionInv, Progresses
    <3>8. Lost => state' # "LOGGED_IN"
      BY DEF Lost
    <3> QED
      BY <1>2, <2>1, <3>1, <3>2, <3>3, <3>4, <3>5, <3>6, <3>7, <3>8 DEF Next, Going
  <2>3. server.count = 0 /\ UNCHANGED server
    <3>1. request.executed /\ ~request.ignore
      BY <1>2, <2>1, <2>2, AnsweredEffect DEF SessionInv, Shape, OneRequest, Acknowledged
    <3> QED
      BY <1>2, <2>2, <3>1, AnsweredEffect DEF SessionInv, Resets
  <2>4. ~Old => ~inTransaction'
    <3>1. SessionAgrees'
      BY <1>1, SessionInvAgrees, PTL
    <3> QED
      BY <1>2, <2>1, <2>3, <3>1 DEF SessionAgrees, Old
  <2> QED
    BY <2>3, <2>4
<1>3. ASSUME request.op = "none", request'.op # "none", ~clouded
      PROVE  request'.reset <=> request'.op = "reset"
  <2>1. ~Going /\ Going' /\ state # "FINAL"
    <3>1. ~Going
      BY <1>3, GoingType, NoneIsNoPayload DEF SessionInv
    <3>2. Going'
      BY <1>3, NoneIsNoPayload DEF Going
    <3>3. state' # "FINAL" /\ (state = "FINAL" => state' = "FINAL")
      <4>1. state' # "FINAL"
        BY <1>1, <3>2 DEF SessionInv, Shape, OneRequest
      <4>2. state = "FINAL" => Progresses \/ Going \/ state' = "FINAL"
        BY ProgressSteps, ExecuteEffect, TokenEffect, AnsweredEffect
        DEF SessionInv, Next, Transaction, Exec, Make, TransactionRefused, TxDoneErr, TxDoneOk, Refuse, Reset,
           ResetRefused, Lost, vars, client
      <4> QED
        BY <3>1, <4>1, <4>2 DEF Progresses
    <3> QED
      BY <3>1, <3>2, <3>3
  <2>2. ~(upset' /\ clouded') /\ state' # "FINAL"
    <3>1. UNCHANGED clouded
      <4>1. ResetRefused => state # "LOGGED_IN" /\ UNCHANGED request
        BY DEF ResetRefused
      <4>2. Cancel => Going
        BY DEF Cancel, Going
      <4>3. ~ResetRefused /\ ~Cancel => UNCHANGED clouded
        BY DEF Next, Transaction, Exec, Make, TransactionRefused, TxDoneErr, TxDoneOk, Refuse, Reset,
           MessageFinished, Execute, Token, Answered, Lost, Completed, vars, user
      <4> QED
        BY <1>3, <2>1, <4>1, <4>2, <4>3
    <3>2. state' # "FINAL"
      BY <1>1, <2>1 DEF SessionInv, Shape, OneRequest
    <3> QED
      BY <1>3, <3>1, <3>2
  <2> QED
    BY <1>1, <2>1, <2>2 DEF SessionInv, Resets
<1> QED
  BY <1>2, <1>3

(* reset() resets, and nothing else does: a reset answered without an error     *)
(* left the server without a transaction, and, unless a reset was refused, the  *)
(* reset bit travels with a reset only (connection.ts:3021-3029, 3067-3076).     *)
THEOREM ResetsDoReset == Spec => ResetResets
<1>1. SessionInv /\ [Next]_vars =>
        [/\ request # None /\ request.op = "reset" /\ request'.op = "none" /\ state' = "LOGGED_IN"
              /\ ~request.err /\ ~request.canceled => server.count = 0 /\ (~Old => ~inTransaction')
         /\ request.op = "none" /\ request'.op # "none" /\ ~clouded => (request'.reset <=> request'.op = "reset")]_vars
  BY ResetStep
<1> QED
  BY <1>1, SessionInvariant, PTL DEF Spec, ResetResets

-------------------------------------------------------------------------------
(* All or nothing. Sure of the outcome is who has cancelled no begin, save,      *)
(* commit or rollback, since TDS 7.2.                                            *)

Sure == ~Old /\ ~clouded
RollbackComes == Going /\ \E i \in 1 .. Len(request.tokens) : request.tokens[i].kind = "rollback"

\* The outermost transaction() began the transaction, the others are savepoints.
Levels == \A i \in 1 .. Len(frames) : frames[i].useSavepoint <=> i > 1

\* What a request finds and leaves at the server.
Orderly ==
  /\ request.op \in Control => ~request.canceled
  /\ request.op = "begin" =>
       Len(frames) = 1 /\ server.count = IF request.executed /\ ~request.err THEN 1 ELSE 0
  /\ request.op = "save" =>
       /\ Len(frames) > 1
       /\ ~request.executed => \A n \in server.work : request.name \notin around[n]
  /\ request.op = "exec" => /\ ~request.executed => server.count = 1
                            /\ request.executed /\ ~request.err => request.name \in server.work
  /\ request.op = "commit" => /\ ~Inner.failed /\ ~RollbackComes
                              /\ server.count = IF request.executed THEN 0 ELSE 1
                              /\ ~request.err
  /\ request.op = "rollback" =>
       /\ server.count = IF request.executed /\ Len(frames) = 1 THEN 0 ELSE 1
       /\ request.executed => ~request.err /\ \A n \in server.work : request.name \notin around[n]

Counted ==
  state # "FINAL" => /\ server.count \in {0, 1}
                     /\ server.count = 1 => frames # <<>> /\ server.name = frames[1].name

\* Each open savepoint is there, those around it before it; the work done since
\* was done within it, and the work before it was not.
SaveOf(name, k) == \E i \in 1 .. k : server.saves[i].name = name
Pending(b) == b = Len(frames) /\ request.op = "save" /\ (request.err \/ ~request.executed)
Since(b, i) == /\ \A a \in 2 .. b - 1 : SaveOf(frames[a].name, i - 1)
               /\ \A n \in server.work \ server.saves[i].work : frames[b].name \in around[n]
Save(i) == /\ server.saves[i].name \in Names /\ outcome[server.saves[i].name] # "new"
           /\ server.saves[i].work \subseteq server.work
           /\ \A n \in server.saves[i].work : server.saves[i].name \notin around[n]
           /\ \A j \in 1 .. i : server.saves[j].work \subseteq server.saves[i].work

Savepointed ==
  server.count > 0 =>
    /\ \A b \in 2 .. Len(frames) : SaveOf(frames[b].name, Len(server.saves)) \/ Pending(b)
    /\ \A b \in 2 .. Len(frames), i \in 1 .. Len(server.saves) :
         server.saves[i].name = frames[b].name => Since(b, i)
    /\ \A i \in 1 .. Len(server.saves) : Save(i)

\* Where the transaction is gone, the user has heard of it or is about to.
Heard ==
  state # "FINAL" /\ frames # <<>> /\ server.count = 0 =>
    \/ request.op = "begin" \/ Sent("commit") \/ Sent("rollback") \/ RollbackComes
    \/ \A i \in 1 .. Len(frames) : frames[i].failed

\* Work in effect is of the transaction that is open; none is of one that failed.
InEffect ==
  /\ \A n \in server.work : frames # <<>> /\ frames[1].name \in around[n]
  /\ \A n \in server.work \cup server.committed :
       outcome[n] # "new" /\ \A k \in around[n] : outcome[k] # "failed"
  /\ \A n \in server.committed :
       (\E i \in 1 .. Len(frames) : frames[i].name \in around[n]) => Sent("commit")

\* What was done is in effect, or will not be told to have ended well.
Doomed(n) ==
  \/ \E k \in around[n] : outcome[k] \in {"failed", "refused", "unknown"}
  \/ \E i \in 1 .. Len(frames) : frames[i].failed /\ frames[i].name \in around[n]
  \/ Sent("rollback") /\ request.name \in around[n]
  \/ frames # <<>> /\ frames[1].name \in around[n] /\ (state = "FINAL" \/ RollbackComes)

Accounted ==
  \A n \in did : /\ outcome[n] # "new"
                 /\ n \in server.work \/ n \in server.committed \/ Doomed(n)

Whole == Levels /\ Orderly /\ Counted /\ Savepointed /\ Heard /\ InEffect /\ Accounted
Atomic == Sure => Whole

LEMMA AnswerTokens ==
  ASSUME NEW s \in Sessions, NEW r \in Payloads, NEW a, Answer(s, r, a)
  PROVE  /\ r.op = "commit" => a[2] = <<>> \/ a[2] = <<Env("commit", 0)>>
         /\ r.op = "exec" /\ a[3] => a[1] = s \/ a[2] = Without(s)
         /\ r.op = "reset" => a[2] = <<>>
<1> DEFINE Right(t, tokens, err) ==
             /\ r.op = "commit" => tokens = <<>> \/ tokens = <<Env("commit", 0)>>
             /\ r.op = "exec" /\ err => t = s \/ tokens = Without(s)
             /\ r.op = "reset" => tokens = <<>>
<1>1. \A x, y, z : a = <<x, y, z>> => a[1] = x /\ a[2] = y /\ a[3] = z
  OBVIOUS
<1>2. \E x, y, z : a = <<x, y, z>> /\ Right(x, y, z)
  <2>1. CASE a = <<s, <<>>, TRUE>> \/ a = <<s, <<>>, FALSE>>
    BY <2>1
  <2>2. CASE r.op = "exec" /\ a = <<Rollback(s), Without(s), TRUE>>
    BY <2>2
  <2>3. CASE r.op \in {"exec", "begin", "save", "rollback"} /\ \E t, tokens : a = <<t, tokens, FALSE>>
    BY <2>3
  <2>4. CASE r.op = "commit" /\ \E t : a = <<t, <<>>, FALSE>> \/ a = <<t, <<Env("commit", 0)>>, FALSE>>
    BY <2>4
  <2>5. \/ a = <<s, <<>>, TRUE>> \/ a = <<s, <<>>, FALSE>>
        \/ r.op = "exec" /\ a = <<Rollback(s), Without(s), TRUE>>
        \/ r.op \in {"exec", "begin", "save", "rollback"} /\ \E t, tokens : a = <<t, tokens, FALSE>>
        \/ r.op = "commit" /\ \E t : a = <<t, <<>>, FALSE>> \/ a = <<t, <<Env("commit", 0)>>, FALSE>>
    BY DEF Answer
  <2> QED
    BY <2>1, <2>2, <2>3, <2>4, <2>5
<1> HIDE DEF Right
<1>3. Right(a[1], a[2], a[3])
  BY <1>1, <1>2
<1> QED
  BY <1>3 DEF Right

LEMMA ExecuteTokens ==
  ASSUME Shape, Execute, ~Old, ~Stale, request.reset <=> request.op = "reset"
  PROVE  /\ request.op = "commit" => ~RollbackComes'
         /\ request.op \in {"exec", "reset"} /\ server.count # 0 /\ server'.count = 0 => RollbackComes'
<1>1. PICK a : /\ Answer(Clean, request, a)
               /\ server' = a[1] /\ request'.err = a[3] /\ request'.tokens = Before \o a[2]
  BY ExecuteEffect
<1>2. /\ Clean \in Sessions /\ request \in Payloads /\ Going' /\ server \in Sessions /\ server'.count \in Nat
      /\ request'.err \in BOOLEAN
  BY ExecuteEffect, GoingType DEF Shape, TypeOK, Sessions, Payloads
<1>3. /\ request.op = "commit" => a[2] = <<>> \/ a[2] = <<Env("commit", 0)>>
      /\ request.op = "exec" /\ a[3] => a[1] = Clean \/ a[2] = Without(Clean)
      /\ request.op = "reset" => a[2] = <<>>
  BY <1>1, <1>2, AnswerTokens
<1>4. /\ request.op # "reset" => Before = <<>> /\ Clean = server
      /\ request.op = "reset" => Before = Without(server)
  BY DEF Before, Clean, ResetFirst, Stale
<1>5. \A k, v : /\ <<>> \o <<Env(k, v)>> = <<Env(k, v)>> /\ <<Env(k, v)>> \o <<>> = <<Env(k, v)>>
                /\ Len(<<Env(k, v)>>) = 1 /\ <<Env(k, v)>>[1].kind = k
  BY DEF Env
<1>6. ASSUME request.op = "commit"
      PROVE  ~RollbackComes'
  <2>1. request'.tokens = <<>> \/ request'.tokens = <<Env("commit", 0)>>
    <3>1. <<>> \o <<>> = <<>>
      OBVIOUS
    <3> QED
      BY <1>1, <1>3, <1>4, <1>5, <1>6, <3>1
  <2>2. CASE request'.tokens = <<>>
    <3>1. Len(request'.tokens) = 0
      BY <2>2
    <3> QED
      BY <3>1 DEF RollbackComes
  <2>3. CASE request'.tokens = <<Env("commit", 0)>>
    <3>1. Len(request'.tokens) = 1 /\ request'.tokens[1].kind = "commit"
      BY <1>5, <2>3
    <3> QED
      BY <3>1 DEF RollbackComes
  <2> QED
    BY <2>1, <2>2, <2>3
<1>7. ASSUME request.op \in {"exec", "reset"}, server.count # 0, server'.count = 0
      PROVE  RollbackComes'
  <2>1. Without(server) = <<Env("rollback", 0)>>
    BY <1>2, <1>7, RollbackType
  <2>2. request'.tokens = <<Env("rollback", 0)>>
    <3> DEFINE rb == <<Env("rollback", 0)>>
    <3>0. <<>> \o rb = rb /\ rb \o <<>> = rb /\ Without(server) = rb
      BY <1>5, <2>1
    <3> HIDE DEF rb
    <3>1. CASE request.op = "reset"
      <4>1. Before = rb /\ a[2] = <<>>
        BY <1>3, <1>4, <3>0, <3>1
      <4> QED
        BY <1>1, <3>0, <4>1 DEF rb
    <3>2. CASE request.op = "exec"
      <4>1. request'.err
        <5>1. ~request'.err => Executed(Clean, request, server')
          BY <3>2, ExecuteMeans
        <5> QED
          BY <1>4, <1>7, <3>2, <5>1 DEF Executed, Same
      <4>2. a[1] # Clean
        BY <1>1, <1>4, <1>7, <3>2
      <4>3. Before = <<>> /\ a[2] = rb
        BY <1>1, <1>3, <1>4, <3>0, <3>2, <4>1, <4>2
      <4> QED
        BY <1>1, <3>0, <4>3 DEF rb
    <3> QED
      BY <1>7, <3>1, <3>2
  <2>3. Len(request'.tokens) = 1 /\ request'.tokens[1].kind = "rollback"
    BY <1>5, <2>2
  <2>4. 1 \in 1 .. Len(request'.tokens)
    BY <2>3
  <2> QED
    BY <1>2, <2>3, <2>4 DEF RollbackComes
<1> QED
  BY <1>6, <1>7

LEMMA Basics ==
  ASSUME Shape
  PROVE  /\ Len(frames) \in Nat /\ (frames # <<>> <=> Len(frames) > 0)
         /\ \A i \in 1 .. Len(frames) : frames[i] \in Frames /\ frames[i].name \in Names
         /\ around \in [Names -> SUBSET Names] /\ did \subseteq Names
         /\ outcome \in [Names -> {"new", "open", "ok", "failed", "refused", "unknown"}]
         /\ server \in Sessions /\ server.count \in Nat /\ server.work \subseteq Names
         /\ server.committed \subseteq Names /\ server.saves \in Seq(Savepoints)
         /\ Len(server.saves) \in Nat
         /\ SessionWhole(server)
         /\ server.count = 0 => server.work = {} /\ server.saves = <<>>
         /\ (Going <=> request.op # "none") /\ (Going => request.op \in Ops)
         /\ Inner = frames[Len(frames)]
<1>1. Going => request.op \in Ops
  BY GoingType
<1>2. ~Going => request.op = "none"
  BY NoneIsNoPayload DEF Going
<1>3. server \in Sessions /\ SessionWhole(server)
  BY DEF Shape, TypeOK, Session
<1>4. server.saves \in Seq(Savepoints)
  BY <1>3 DEF Sessions
<1>5. Len(server.saves) \in Nat
  BY <1>4, LenProperties
<1> QED
  BY <1>1, <1>2, <1>3, <1>4, <1>5, FramesThere, NoneIsNoPayload
  DEF Shape, TypeOK, Sessions, SessionWhole, Inner

\* done is told of the innermost transaction(), which leaves the frames.
LEMMA ToldWhole ==
  ASSUME Shape, Nested, Whole, Shape', frames # <<>>, NEW result \in Results, Told(result),
         request' = None, UNCHANGED <<around, did>>,
         \/ UNCHANGED server
         \/ server' = Rollback(server) /\ state' = "FINAL" /\ result # "ok",
         state = "FINAL" => state' = "FINAL",
         Len(frames) = 1 => server'.count = 0,
         state' # "FINAL" /\ Len(frames) > 1 /\ server'.count = 0 => \A i \in 1 .. Len(frames) : frames[i].failed,
         result = "failed" => \A n \in server'.work \cup server.committed : Inner.name \notin around[n],
         result = "ok" => ~Inner.failed /\ ~Sent("rollback") /\ (Len(frames) = 1 => state' # "FINAL"),
         RollbackComes => state' = "FINAL" /\ result # "ok",
         Sent("commit") => Len(frames) = 1
  PROVE  Whole'
<1> DEFINE n == Len(frames)
<1>1. /\ n \in Nat /\ n > 0 /\ Len(frames') = n - 1 /\ (frames' # <<>> <=> n - 1 > 0)
      /\ \A i \in 1 .. n - 1 : frames'[i] = frames[i]
      /\ \A i \in 1 .. n : frames[i] \in Frames /\ frames[i].name \in Names
      /\ Inner = frames[n]
  <2>1. Len(frames') \in Nat /\ (frames' # <<>> <=> Len(frames') > 0)
    BY FramesThere DEF Shape
  <2> QED
    BY <2>1, Basics, ToldEffect DEF Shape
<1>2. /\ outcome'[Inner.name] = result /\ result # "new" /\ result # "open"
      /\ \A k \in Names : k # Inner.name => outcome'[k] = outcome[k]
      /\ outcome[Inner.name] = "open"
  BY <1>1, ToldEffect DEF Shape, Results, Nested
<1>3. /\ request'.op = "none" /\ ~Going' /\ ~RollbackComes'
  BY NoneIsNoPayload DEF Going, RollbackComes
<1>4. /\ server'.work \subseteq server.work /\ server'.committed = server.committed
      /\ server.work \subseteq Names /\ server.committed \subseteq Names
      /\ server'.count # 0 => UNCHANGED server
      /\ server'.count = 0 => server'.work = {}
  <2>1. /\ Rollback(server).work = {} /\ Rollback(server).committed = server.committed
        /\ Rollback(server).count = 0
    BY Basics, RollbackType
  <2> QED
    BY <2>1, Basics DEF Shape, Session, SessionWhole
<1>5. Levels'
  BY <1>1 DEF Whole, Levels
<1>6. Orderly'
  BY <1>3 DEF Orderly, Control
<1>7. Counted'
  <2> SUFFICES ASSUME state' # "FINAL"
               PROVE  /\ server'.count \in {0, 1}
                      /\ server'.count = 1 => frames' # <<>> /\ server'.name = frames'[1].name
    BY DEF Counted
  <2>1. UNCHANGED server /\ state # "FINAL"
    OBVIOUS
  <2>2. server.count = 1 => n > 1 /\ server.name = frames[1].name /\ frames'[1] = frames[1]
    BY <1>1, <2>1 DEF Whole, Counted
  <2> QED
    BY <1>1, <2>1, <2>2 DEF Whole, Counted
<1>8. Savepointed'
  <2> SUFFICES ASSUME server'.count > 0
               PROVE  /\ \A b \in 2 .. n - 1 : SaveOf(frames[b].name, Len(server.saves))
                      /\ \A b \in 2 .. n - 1, i \in 1 .. Len(server.saves) :
                            server.saves[i].name = frames[b].name => Since(b, i)'
                      /\ \A i \in 1 .. Len(server.saves) : Save(i)'
    <3>1. server'.count > 0 => UNCHANGED server
      BY <1>4
    <3> QED
      BY <1>1, <3>1 DEF Savepointed, SaveOf
  <2>1. UNCHANGED server /\ server.count > 0
    BY <1>4
  <2>2. /\ \A b \in 2 .. n : SaveOf(frames[b].name, Len(server.saves)) \/ Pending(b)
        /\ \A b \in 2 .. n, i \in 1 .. Len(server.saves) : server.saves[i].name = frames[b].name => Since(b, i)
        /\ \A i \in 1 .. Len(server.saves) : Save(i)
    BY <2>1 DEF Whole, Savepointed
  <2>3. \A b \in 2 .. n - 1 : b \in 2 .. n /\ b # n
    BY <1>1
  <2>4. \A b \in 2 .. n - 1 : SaveOf(frames[b].name, Len(server.saves))
    BY <2>2, <2>3 DEF Pending
  <2>5. ASSUME NEW b \in 2 .. n - 1, NEW i \in 1 .. Len(server.saves), Since(b, i)
        PROVE  Since(b, i)'
    <3>1. n - 1 \in Int /\ b \in 1 .. n - 1
      BY <1>1
    <3>2. \A a \in 2 .. b - 1 : a \in 1 .. n - 1
      BY <3>1
    <3>3. frames'[b] = frames[b] /\ \A a \in 2 .. b - 1 : frames'[a] = frames[a]
      BY <1>1, <3>1, <3>2
    <3> QED
      BY <2>1, <2>5, <3>3 DEF Since, SaveOf
  <2>6. ASSUME NEW i \in 1 .. Len(server.saves), Save(i)
        PROVE  Save(i)'
    BY <1>2, <2>1, <2>6 DEF Save
  <2> QED
    BY <2>2, <2>3, <2>4, <2>5, <2>6
<1>9. Heard'
  BY <1>1, <1>3 DEF Heard
<1>10. InEffect'
  <2>1. \A m \in server'.work : frames' # <<>> /\ frames'[1].name \in around'[m]
    <3> SUFFICES ASSUME NEW m \in server'.work
                 PROVE  frames' # <<>> /\ frames'[1].name \in around[m]
      OBVIOUS
    <3>1. n > 1 /\ frames[1].name \in around[m]
      BY <1>1, <1>4 DEF Whole, InEffect
    <3> QED
      BY <1>1, <3>1
  <2>2. \A m \in server'.work \cup server'.committed :
           outcome'[m] # "new" /\ \A k \in around'[m] : outcome'[k] # "failed"
    <3> SUFFICES ASSUME NEW m \in server'.work \cup server'.committed
                 PROVE  outcome'[m] # "new" /\ \A k \in around[m] : outcome'[k] # "failed"
      OBVIOUS
    <3>1. m \in server.work \cup server.committed /\ m \in Names /\ \A k \in around[m] : k \in Names
      BY <1>4, Basics
    <3>2. outcome[m] # "new" /\ \A k \in around[m] : outcome[k] # "failed"
      BY <3>1 DEF Whole, InEffect
    <3>3. result = "failed" => Inner.name \notin around[m]
      BY <1>4
    <3> QED
      BY <1>2, <3>1, <3>2, <3>3
  <2>3. \A m \in server'.committed :
           (\E i \in 1 .. Len(frames') : frames'[i].name \in around'[m]) => FALSE
    <3> SUFFICES ASSUME NEW m \in server.committed, NEW i \in 1 .. n - 1, frames'[i].name \in around[m]
                 PROVE  FALSE
      BY <1>1, <1>4
    <3>1. i \in 1 .. n /\ frames'[i] = frames[i] /\ n > 1
      BY <1>1
    <3>2. Sent("commit")
      BY <3>1 DEF Whole, InEffect
    <3>3. n = 1
      BY <3>2
    <3> QED
      BY <3>1, <3>3
  <2> QED
    BY <2>1, <2>2, <2>3 DEF InEffect
<1>11. Accounted'
  <2> SUFFICES ASSUME NEW m \in did
               PROVE  /\ outcome'[m] # "new"
                      /\ m \in server'.work \/ m \in server'.committed \/ Doomed(m)'
    BY DEF Accounted
  <2>1. /\ m \in Names /\ outcome[m] # "new" /\ (\A k \in around[m] : k \in Names)
        /\ m \in server.work \/ m \in server.committed \/ Doomed(m)
    BY Basics DEF Whole, Accounted
  <2>2. outcome'[m] # "new"
    BY <1>2, <2>1
  <2>3. CASE result # "ok" /\ Inner.name \in around[m]
    <3>1. \E k \in around'[m] : outcome'[k] \in {"failed", "refused", "unknown"}
      BY <1>2, <2>3 DEF Results
    <3> QED
      BY <2>2, <3>1 DEF Doomed
  <2>4. ASSUME frames[1].name \in around[m], state' = "FINAL"
        PROVE  Doomed(m)'
    <3>1. CASE n = 1
      <4>1. result # "ok" /\ Inner.name \in around[m]
        BY <1>1, <2>4, <3>1
      <4>2. \E k \in around'[m] : outcome'[k] \in {"failed", "refused", "unknown"}
        BY <1>2, <4>1 DEF Results
      <4> QED
        BY <4>2 DEF Doomed
    <3>2. CASE n # 1
      <4>1. frames' # <<>> /\ frames'[1] = frames[1]
        BY <1>1, <3>2
      <4> QED
        BY <2>4, <4>1 DEF Doomed
    <3> QED
      BY <3>1, <3>2
  <2>5. CASE m \in server.work
    <3>1. CASE UNCHANGED server
      BY <2>2, <2>5, <3>1
    <3>2. CASE state' = "FINAL"
      BY <2>2, <2>4, <2>5, <3>2 DEF Whole, InEffect
    <3> QED
      BY <3>1, <3>2
  <2>6. CASE m \in server.committed
    BY <1>4, <2>2, <2>6
  <2>7. CASE \E k \in around[m] : outcome[k] \in {"failed", "refused", "unknown"}
    <3>1. PICK k \in around[m] : outcome[k] \in {"failed", "refused", "unknown"}
      BY <2>7
    <3>2. outcome'[k] \in {"failed", "refused", "unknown"}
      BY <1>2, <2>1, <3>1
    <3> QED
      BY <2>2, <3>2 DEF Doomed
  <2>8. CASE \E i \in 1 .. n : frames[i].failed /\ frames[i].name \in around[m]
    <3>1. PICK i \in 1 .. n : frames[i].failed /\ frames[i].name \in around[m]
      BY <2>8
    <3>2. CASE i = n
      BY <1>1, <2>3, <3>1, <3>2
    <3>3. CASE i # n
      <4>1. i \in 1 .. Len(frames') /\ frames'[i] = frames[i]
        BY <1>1, <3>3
      <4> QED
        BY <2>2, <3>1, <4>1 DEF Doomed
    <3> QED
      BY <3>2, <3>3
  <2>9. CASE Sent("rollback") /\ request.name \in around[m]
    <3>1. request.name = Inner.name
      BY <2>9 DEF Sent, Shape, OfInnermost
    <3> QED
      BY <2>3, <2>9, <3>1
  <2>10. CASE frames[1].name \in around[m] /\ (state = "FINAL" \/ RollbackComes)
    BY <2>2, <2>4, <2>10
  <2> QED
    BY <2>1, <2>5, <2>6, <2>7, <2>8, <2>9, <2>10 DEF Doomed
<1> QED
  BY <1>5, <1>6, <1>7, <1>8, <1>9, <1>10, <1>11 DEF Whole

\* A callback that ends no transaction().
LEMMA KeptWhole ==
  ASSUME Shape, Nested, Whole, Shape', NamesKept, state # "FINAL",
         \A i \in 1 .. Len(frames) : frames[i].failed => frames'[i].failed,
         request' = None \/ (request'.op = "isolation" /\ ~request'.canceled /\ ~request'.executed),
         did' = did \/ \E m \in server'.work : did' = did \cup {m},
         \/ UNCHANGED server
         \/ server' = Rollback(server) /\ state' = "FINAL",
         request.op \notin {"commit", "rollback"},
         state' # "FINAL" => /\ ~RollbackComes
                             /\ request.op = "save" => request.executed /\ ~request.err
                             /\ request.op = "begin" => server.count = 1
  PROVE  Whole'
<1> DEFINE n == Len(frames)
<1>1. /\ n \in Nat /\ (frames # <<>> <=> n > 0) /\ (frames' # <<>> <=> n > 0) /\ Len(frames') = n
      /\ \A i \in 1 .. n : /\ frames'[i].name = frames[i].name
                           /\ frames'[i].useSavepoint = frames[i].useSavepoint
                           /\ frames[i].failed => frames'[i].failed
      /\ UNCHANGED <<outcome, around>>
  BY FramesThere DEF NamesKept, Shape
<1>2. /\ request'.op = "none" \/ (request'.op = "isolation" /\ ~request'.executed)
      /\ request'.op = "isolation" => ~request'.canceled
      /\ ~Sent("commit") /\ ~Sent("rollback")
  BY NoneIsNoPayload DEF Sent
<1>3. /\ server'.work \subseteq server.work /\ server'.committed = server.committed
      /\ server.work \subseteq Names /\ server.committed \subseteq Names
      /\ server'.count # 0 => UNCHANGED server /\ state' # "FINAL"
      /\ server.count = 0 => server.work = {}
      /\ state = "FINAL" => server.count = 0
  <2>1. /\ Rollback(server).work = {} /\ Rollback(server).committed = server.committed
        /\ Rollback(server).count = 0
    BY Basics, RollbackType
  <2> QED
    BY <2>1, Basics DEF Shape, Session
<1>4. Levels'
  BY <1>1 DEF Whole, Levels
<1>5. Orderly'
  BY <1>2 DEF Orderly, Control
<1>6. Counted'
  BY <1>1, <1>3 DEF Whole, Counted
<1>7. Savepointed'
  <2> SUFFICES ASSUME server'.count > 0
               PROVE  /\ \A b \in 2 .. n : SaveOf(frames[b].name, Len(server.saves))
                      /\ \A b \in 2 .. n, i \in 1 .. Len(server.saves) :
                            server.saves[i].name = frames[b].name => Since(b, i)'
                      /\ \A i \in 1 .. Len(server.saves) : Save(i)'
    <3>1. server'.count > 0 => UNCHANGED server
      BY <1>3
    <3>2. \A b \in 2 .. n : frames'[b].name = frames[b].name
      BY <1>1
    <3> QED
      BY <1>1, <3>1, <3>2 DEF Savepointed, SaveOf
  <2>1. UNCHANGED server /\ server.count > 0 /\ state' # "FINAL"
    BY <1>3
  <2>2. /\ \A b \in 2 .. n : SaveOf(frames[b].name, Len(server.saves)) \/ Pending(b)
        /\ \A b \in 2 .. n, i \in 1 .. Len(server.saves) : server.saves[i].name = frames[b].name => Since(b, i)
        /\ \A i \in 1 .. Len(server.saves) : Save(i)
    BY <2>1 DEF Whole, Savepointed
  <2>3. \A b : ~Pending(b)
    BY <2>1 DEF Pending
  <2>4. ASSUME NEW b \in 2 .. n, NEW i \in 1 .. Len(server.saves), Since(b, i)
        PROVE  Since(b, i)'
    <3>1. b \in 1 .. n /\ \A a \in 2 .. b - 1 : a \in 1 .. n
      BY <1>1
    <3>2. frames'[b].name = frames[b].name /\ \A a \in 2 .. b - 1 : frames'[a].name = frames[a].name
      BY <1>1, <3>1
    <3> QED
      BY <1>1, <2>1, <2>4, <3>2 DEF Since, SaveOf
  <2>5. ASSUME NEW i \in 1 .. Len(server.saves), Save(i)
        PROVE  Save(i)'
    BY <1>1, <2>1, <2>5 DEF Save
  <2> QED
    BY <2>2, <2>3, <2>4, <2>5
<1>8. Heard'
  <2> SUFFICES ASSUME state' # "FINAL", frames' # <<>>, server'.count = 0
               PROVE  \A i \in 1 .. Len(frames') : frames'[i].failed
    BY DEF Heard
  <2>1. UNCHANGED server
    OBVIOUS
  <2>2. \A i \in 1 .. n : frames[i].failed
    <3>1. request.op # "begin" /\ ~RollbackComes /\ frames # <<>> /\ server.count = 0
      BY <1>1, <2>1
    <3> QED
      BY <1>2, <3>1 DEF Whole, Heard
  <2> QED
    BY <1>1, <2>2
<1>9. InEffect'
  <2>1. \A m \in server'.work : frames' # <<>> /\ frames'[1].name \in around'[m]
    <3>1. \A m \in server.work : frames # <<>> /\ frames[1].name \in around[m]
      BY DEF Whole, InEffect
    <3>2. frames # <<>> => frames'[1].name = frames[1].name
      BY <1>1
    <3> QED
      BY <1>1, <1>3, <3>1, <3>2
  <2>2. \A m \in server'.work \cup server'.committed :
           outcome'[m] # "new" /\ \A k \in around'[m] : outcome'[k] # "failed"
    BY <1>1, <1>3 DEF Whole, InEffect
  <2>3. \A m \in server'.committed : \A i \in 1 .. Len(frames') : frames'[i].name \notin around'[m]
    BY <1>1, <1>2, <1>3 DEF Whole, InEffect
  <2> QED
    BY <2>1, <2>2, <2>3 DEF InEffect
<1>10. Accounted'
  <2>1. ASSUME NEW m \in did
        PROVE  /\ outcome'[m] # "new"
               /\ m \in server'.work \/ m \in server'.committed \/ Doomed(m)'
    <3>1. /\ outcome[m] # "new"
          /\ m \in server.work \/ m \in server.committed \/ Doomed(m)
      BY <2>1 DEF Whole, Accounted
    <3>2. ASSUME frames # <<>>, frames[1].name \in around[m], state' = "FINAL"
          PROVE  Doomed(m)'
      BY <1>1, <3>2 DEF Doomed
    <3>3. CASE m \in server.work
      <4>1. frames # <<>> /\ frames[1].name \in around[m]
        BY <3>3 DEF Whole, InEffect
      <4> QED
        BY <1>1, <3>1, <3>2, <3>3, <4>1
    <3>4. CASE m \in server.committed
      BY <1>1, <1>3, <3>1, <3>4
    <3>5. CASE Doomed(m)
      <4>1. CASE \E k \in around[m] : outcome[k] \in {"failed", "refused", "unknown"}
        BY <1>1, <3>1, <4>1 DEF Doomed
      <4>2. CASE \E i \in 1 .. n : frames[i].failed /\ frames[i].name \in around[m]
        BY <1>1, <3>1, <4>2 DEF Doomed
      <4>3. CASE frames # <<>> /\ frames[1].name \in around[m] /\ RollbackComes
        BY <1>1, <3>1, <3>2, <4>3
      <4> QED
        BY <1>2, <3>5, <4>1, <4>2, <4>3 DEF Doomed
    <3> QED
      BY <3>1, <3>3, <3>4, <3>5
  <2>2. ASSUME NEW m \in server'.work
        PROVE  outcome'[m] # "new"
    BY <1>1, <1>3 DEF Whole, InEffect
  <2>3. \A m \in did' : m \in did \/ m \in server'.work
    OBVIOUS
  <2> QED
    BY <2>1, <2>2, <2>3 DEF Accounted
<1> QED
  BY <1>4, <1>5, <1>6, <1>7, <1>8, <1>9, <1>10 DEF Whole

\* Steps that change nothing of this.
LEMMA SameWhole ==
  ASSUME Whole, UNCHANGED <<frames, around, outcome, did, server, state>>,
         request'.op = request.op, request'.name = request.name, Going' <=> Going,
         request'.executed = request.executed, request'.err = request.err,
         request'.tokens = request.tokens,
         request'.op \in Control => ~request'.canceled
  PROVE  Whole'
<1>1. (RollbackComes' <=> RollbackComes) /\ \A op : Sent(op)' <=> Sent(op)
  BY DEF RollbackComes, Sent
<1>2. Levels' /\ Counted'
  BY DEF Whole, Levels, Counted
<1>3. Orderly'
  BY <1>1 DEF Whole, Orderly, Inner
<1>4. Savepointed'
  <2>1. /\ \A b : Pending(b)' <=> Pending(b)
        /\ \A b, i : Since(b, i)' <=> Since(b, i)
        /\ \A i : Save(i)' <=> Save(i)
        /\ \A name, k : SaveOf(name, k)' <=> SaveOf(name, k)
    BY DEF Pending, Since, Save, SaveOf
  <2> QED
    BY <2>1 DEF Whole, Savepointed
<1>5. Heard' /\ InEffect'
  BY <1>1 DEF Whole, Heard, InEffect
<1>6. Accounted'
  <2>1. \A m : Doomed(m)' <=> Doomed(m)
    BY <1>1 DEF Doomed
  <2> QED
    BY <2>1 DEF Whole, Accounted
<1> QED
  BY <1>2, <1>3, <1>4, <1>5, <1>6 DEF Whole

\* With no request in flight and nothing failed, the transaction is still there.
LEMMA StillOpen ==
  ASSUME Shape, Whole, state = "LOGGED_IN", request = None, frames # <<>>, ~Inner.failed
  PROVE  server.count = 1
<1>1. Len(frames) \in 1 .. Len(frames) /\ Inner = frames[Len(frames)]
  BY Basics
<1>2. request.op = "none" /\ ~RollbackComes
  BY NoneIsNoPayload DEF RollbackComes, Going
<1>3. ~ \A i \in 1 .. Len(frames) : frames[i].failed
  BY <1>1
<1>4. server.count # 0
  BY <1>2, <1>3 DEF Whole, Heard, Sent
<1> QED
  BY <1>4 DEF Whole, Counted

\* A request is made for the innermost transaction().
LEMMA MakeWhole ==
  ASSUME Shape, Whole, Shape', Makes, UNCHANGED <<frames, around, outcome, did>>,
         request'.op \in {"exec", "commit", "rollback", "reset"},
         request'.op \in {"exec", "commit", "rollback"} => server.count = 1,
         request'.op = "commit" => ~Inner.failed
  PROVE  Whole'
<1>1. /\ request.op = "none" /\ ~RollbackComes /\ ~RollbackComes' /\ state # "FINAL" /\ state' # "FINAL"
      /\ ~request'.executed /\ ~request'.err /\ ~request'.canceled /\ UNCHANGED server
      /\ \A op : ~Sent(op)'
      /\ \A b : ~Pending(b)
  <2>1. request.op = "none" /\ ~Going /\ Len(request'.tokens) = 0
    BY NoneIsNoPayload DEF Makes, Going
  <2> QED
    BY <2>1 DEF Makes, Sent, Pending, RollbackComes
<1>2. Levels' /\ Counted'
  BY <1>1 DEF Whole, Levels, Counted
<1>3. Orderly'
  BY <1>1 DEF Orderly, Inner
<1>4. Savepointed'
  <2>1. /\ \A b, i : Since(b, i)' <=> Since(b, i)
        /\ \A i : Save(i)' <=> Save(i)
        /\ \A name, k : SaveOf(name, k)' <=> SaveOf(name, k)
    BY <1>1 DEF Since, Save, SaveOf
  <2> QED
    BY <1>1, <2>1 DEF Whole, Savepointed
<1>5. Heard'
  BY <1>1 DEF Whole, Heard, Sent
<1>6. InEffect'
  BY <1>1 DEF Whole, InEffect, Sent
<1>7. Accounted'
  <2>1. \A m : Doomed(m) => Doomed(m)'
    BY <1>1 DEF Doomed, Sent
  <2> QED
    BY <1>1, <2>1 DEF Whole, Accounted
<1> QED
  BY <1>2, <1>3, <1>4, <1>5, <1>6, <1>7 DEF Whole

\* A call of transaction(): its name is new, and so is nothing's around it.
LEMMA TransactionWhole ==
  ASSUME SessionInv, Sure, Whole, Shape', NEW isolation \in BOOLEAN, Transaction(isolation)
  PROVE  Whole'
<1> DEFINE n == Len(frames)
<1>1. PICK name \in Names :
        /\ outcome[name] = "new" /\ outcome'[name] = "open"
        /\ \A m \in Names : m # name => outcome'[m] = outcome[m] /\ around'[m] = around[m]
        /\ frames' \in Seq(Frames) /\ Len(frames') = n + 1
        /\ \A i \in 1 .. n : frames'[i] = frames[i]
        /\ frames'[n + 1].name = name
        /\ frames'[n + 1].useSavepoint = inTransaction
        /\ frames # <<>> => ~Inner.failed
        /\ state = "LOGGED_IN" /\ state' = "SENT_CLIENT_REQUEST"
        /\ request.op = "none"
        /\ request'.op = (IF inTransaction THEN "save" ELSE "begin") /\ request'.name = name
        /\ ~request'.executed /\ ~request'.err /\ ~request'.canceled
        /\ request'.tokens = <<>>
        /\ UNCHANGED <<did, server>>
  BY TransactionFrames DEF SessionInv
<1>2. /\ n \in Nat /\ (frames # <<>> <=> n > 0)
      /\ server.work \subseteq Names /\ server.committed \subseteq Names /\ did \subseteq Names
      /\ \A m \in Names : around[m] \subseteq Names
      /\ inTransaction \in BOOLEAN
      /\ request = None
  BY <1>1, Basics DEF SessionInv, Shape, TypeOK, Going
<1>3. /\ frames' # <<>> /\ Len(frames') \in Nat
  BY <1>1, FramesThere DEF Shape
<1>4. /\ ~RollbackComes /\ ~RollbackComes' /\ state # "FINAL" /\ state' # "FINAL"
      /\ \A op : op # "none" => ~Sent(op) /\ ~Sent(op)'
      /\ \A b : ~Pending(b)
  <2>1. ~Going /\ Len(request'.tokens) = 0
    BY <1>1, <1>2 DEF Going
  <2> QED
    BY <1>1, <2>1 DEF Sent, Pending, RollbackComes
<1>5. /\ inTransaction <=> n > 0
      /\ server.count = IF n > 0 THEN 1 ELSE 0
  <2>1. inTransaction <=> server.count > 0
    BY <1>1, SessionInvAgrees DEF SessionAgrees, Sure
  <2>2. n > 0 => server.count = 1
    BY <1>1, <1>2, StillOpen DEF SessionInv
  <2>3. n = 0 => server.count = 0
    BY <1>2, <1>4 DEF Whole, Counted
  <2> QED
    BY <1>2, <2>1, <2>2, <2>3
<1>6. \A m \in Names : /\ outcome[m] # "new" => m # name
                       /\ name \notin around[m]
                       /\ \A k \in around[m] : k \in Names /\ k # name
  BY <1>1, <1>2 DEF SessionInv, Nested
<1>7. /\ \A m \in Names : outcome[m] # "new" => /\ outcome'[m] = outcome[m] /\ around'[m] = around[m]
                                                /\ \A k \in around[m] : outcome'[k] = outcome[k]
      /\ \A m \in server.work \cup server.committed \cup did : m \in Names /\ outcome[m] # "new"
  BY <1>1, <1>2, <1>6 DEF Whole, InEffect, Accounted
<1>8. Levels'
  <2> SUFFICES ASSUME NEW i \in 1 .. n + 1
               PROVE  frames'[i].useSavepoint <=> i > 1
    BY <1>1 DEF Levels
  <2>1. CASE i \in 1 .. n
    BY <1>1, <2>1 DEF Whole, Levels
  <2>2. CASE i = n + 1
    <3>1. i > 1 <=> n > 0
      BY <1>2, <2>2
    <3> QED
      BY <1>1, <1>5, <2>2, <3>1
  <2> QED
    BY <1>2, <2>1, <2>2
<1>9. Orderly'
  <2>1. CASE n > 0
    <3>1. request'.op = "save"
      BY <1>1, <1>5, <2>1
    <3>2. n + 1 > 1
      BY <1>2, <2>1
    <3> QED
      BY <1>1, <1>6, <1>7, <3>1, <3>2 DEF Orderly, Control
  <2>2. CASE n = 0
    <3>1. request'.op = "begin" /\ server.count = 0
      BY <1>1, <1>2, <1>5, <2>2
    <3> QED
      BY <1>1, <2>2, <3>1 DEF Orderly, Control
  <2> QED
    BY <1>2, <2>1, <2>2
<1>10. Counted'
  <2>1. n > 0 => frames'[1] = frames[1]
    BY <1>1, <1>2
  <2> QED
    BY <1>1, <1>2, <1>3, <1>4, <1>5, <2>1 DEF Whole, Counted
<1>11. Savepointed'
  <2> SUFFICES ASSUME server.count > 0
               PROVE  /\ \A b \in 2 .. n + 1 : SaveOf(frames'[b].name, Len(server.saves)) \/ Pending(b)'
                      /\ \A b \in 2 .. n + 1, i \in 1 .. Len(server.saves) :
                            server.saves[i].name = frames'[b].name => Since(b, i)'
                      /\ \A i \in 1 .. Len(server.saves) : Save(i)'
    BY <1>1 DEF Savepointed, SaveOf
  <2>1. n > 0 /\ request'.op = "save"
    BY <1>1, <1>2, <1>5
  <2>2. /\ \A b \in 2 .. n : SaveOf(frames[b].name, Len(server.saves))
        /\ \A b \in 2 .. n, i \in 1 .. Len(server.saves) : server.saves[i].name = frames[b].name => Since(b, i)
        /\ \A i \in 1 .. Len(server.saves) : Save(i)
    BY <1>4 DEF Whole, Savepointed
  <2>3. \A b \in 2 .. n + 1 : b \in 2 .. n \/ b = n + 1
    BY <1>2
  <2>4. \A b \in 2 .. n : b \in 1 .. n /\ frames'[b] = frames[b]
    BY <1>1, <1>2
  <2>5. \A b : b = n + 1 => Pending(b)'
    BY <1>1, <2>1 DEF Pending
  <2>6. ASSUME NEW i \in 1 .. Len(server.saves)
        PROVE  Save(i)' /\ server.saves[i].name # name
    <3>1. /\ server.saves[i].name \in Names /\ outcome[server.saves[i].name] # "new"
          /\ server.saves[i].work \subseteq server.work
          /\ \A m \in server.saves[i].work : server.saves[i].name \notin around[m]
          /\ \A j \in 1 .. i : server.saves[j].work \subseteq server.saves[i].work
      BY <2>2 DEF Save
    <3>2. \A m \in server.saves[i].work : around'[m] = around[m]
      BY <1>7, <3>1
    <3> QED
      BY <1>1, <3>1, <3>2 DEF Save
  <2>7. ASSUME NEW b \in 2 .. n, NEW i \in 1 .. Len(server.saves), Since(b, i)
        PROVE  Since(b, i)'
    <3>1. frames'[b] = frames[b] /\ \A a \in 2 .. b - 1 : frames'[a] = frames[a]
      BY <1>1, <1>2
    <3>2. \A m \in server.work : around'[m] = around[m]
      BY <1>7
    <3> QED
      BY <1>1, <2>7, <3>1, <3>2 DEF Since, SaveOf
  <2>8. \A b \in 2 .. n + 1 : SaveOf(frames'[b].name, Len(server.saves)) \/ Pending(b)'
    BY <2>2, <2>3, <2>4, <2>5
  <2>9. ASSUME NEW b \in 2 .. n + 1, NEW i \in 1 .. Len(server.saves), server.saves[i].name = frames'[b].name
        PROVE  Since(b, i)'
    <3>1. b # n + 1
      BY <1>1, <2>6, <2>9
    <3>2. b \in 2 .. n /\ server.saves[i].name = frames[b].name
      BY <2>3, <2>4, <2>9, <3>1
    <3> QED
      BY <2>2, <2>7, <3>2
  <2> QED
    BY <2>6, <2>8, <2>9
<1>12. Heard'
  BY <1>1, <1>2, <1>5 DEF Heard
<1>13. InEffect'
  <2>1. \A m \in server.work : frames' # <<>> /\ frames'[1].name \in around'[m]
    <3> SUFFICES ASSUME NEW m \in server.work
                 PROVE  frames' # <<>> /\ frames'[1].name \in around'[m]
      OBVIOUS
    <3>1. n > 0 /\ frames[1].name \in around[m]
      BY <1>2 DEF Whole, InEffect
    <3>2. frames'[1] = frames[1]
      BY <1>1, <1>2, <3>1
    <3> QED
      BY <1>3, <1>7, <3>1, <3>2
  <2>2. \A m \in server.work \cup server.committed : outcome'[m] # "new" /\ \A k \in around'[m] : outcome'[k] # "failed"
    BY <1>7 DEF Whole, InEffect
  <2>3. \A m \in server.committed : \A i \in 1 .. n + 1 : frames'[i].name \notin around'[m]
    <3> SUFFICES ASSUME NEW m \in server.committed, NEW i \in 1 .. n + 1
                 PROVE  frames'[i].name \notin around'[m]
      OBVIOUS
    <3>1. CASE i \in 1 .. n
      BY <1>1, <1>4, <1>7, <3>1 DEF Whole, InEffect
    <3>2. CASE i = n + 1
      BY <1>1, <1>6, <1>7, <3>2
    <3> QED
      BY <1>2, <3>1, <3>2
  <2> QED
    BY <1>1, <2>1, <2>2, <2>3 DEF InEffect
<1>14. Accounted'
  <2> SUFFICES ASSUME NEW m \in did
               PROVE  outcome'[m] # "new" /\ (m \in server.work \/ m \in server.committed \/ Doomed(m)')
    BY <1>1 DEF Accounted
  <2>1. /\ m \in Names /\ outcome[m] # "new" /\ outcome'[m] = outcome[m] /\ around'[m] = around[m]
        /\ \A k \in around[m] : outcome'[k] = outcome[k]
    BY <1>7
  <2>2. m \in server.work \/ m \in server.committed \/ Doomed(m)
    BY DEF Whole, Accounted
  <2>3. CASE \E k \in around[m] : outcome[k] \in {"failed", "refused", "unknown"}
    BY <2>1, <2>3 DEF Doomed
  <2>4. CASE \E i \in 1 .. n : frames[i].failed /\ frames[i].name \in around[m]
    <3>1. PICK i \in 1 .. n : frames[i].failed /\ frames[i].name \in around[m]
      BY <2>4
    <3>2. i \in 1 .. Len(frames') /\ frames'[i] = frames[i]
      BY <1>1, <1>2
    <3> QED
      BY <2>1, <3>1, <3>2 DEF Doomed
  <2> QED
    BY <1>4, <2>1, <2>2, <2>3, <2>4 DEF Doomed
<1> QED
  BY <1>8, <1>9, <1>10, <1>11, <1>12, <1>13, <1>14 DEF Whole

\* The server has executed the request, with the descriptor of its session and
\* without a reset nobody asked for.
Ran ==
  /\ UNCHANGED <<state, frames, around, outcome, did>>
  /\ state # "FINAL" /\ ~RollbackComes /\ ~request.executed /\ request'.executed
  /\ request.op \in Ops /\ request'.op = request.op /\ request'.name = request.name
  /\ request'.canceled = request.canceled /\ request'.err \in BOOLEAN

LEMMA ExecuteRan ==
  ASSUME SessionInv, Sure, Execute
  PROVE  /\ Ran /\ ~Old /\ (request.reset <=> request.op = "reset")
         /\ ~request.ignore => /\ ~Stale
                              /\ Clean = IF request.op = "reset" THEN Rollback(server) ELSE server
         /\ request.ignore => request.canceled
<1>1. Shape /\ Believes /\ Resets /\ ~Old /\ ~clouded
  BY DEF SessionInv, Sure
<1>2. /\ Going /\ Going' /\ ~request.executed /\ request.tokens = <<>>
      /\ UNCHANGED <<state, user>>
      /\ request' \in Payloads /\ request'.executed
      /\ request'.op = request.op /\ request'.name = request.name
      /\ request'.canceled = request.canceled
  BY <1>1, ExecuteEffect
<1>3. /\ state # "FINAL" /\ request.op \in Ops /\ request'.err \in BOOLEAN
  BY <1>1, <1>2, GoingType DEF Payloads
<1>4. request.reset <=> request.op = "reset"
  BY <1>1, <1>2, <1>3 DEF Resets
<1>5. /\ ~request.ignore => ~Stale
      /\ request.ignore => request.canceled
  BY <1>1, <1>2, <1>3 DEF Believes, Stale, Shape, OneRequest
<1>6. ~RollbackComes
  <2>1. Len(request.tokens) = 0
    BY <1>2
  <2> QED
    BY <2>1 DEF RollbackComes
<1> QED
  BY <1>1, <1>2, <1>3, <1>4, <1>5, <1>6 DEF Ran, user, Clean, ResetFirst

\* A request that leaves the session alone.
LEMMA ExecuteNothing ==
  ASSUME Shape, Whole, Ran, UNCHANGED server,
         request.op \in {"isolation", "reset", "begin", "save", "exec"},
         request.op \in {"begin", "save", "exec"} => request'.err
  PROVE  Whole'
<1>1. /\ \A op \in {"commit", "rollback"} : ~Sent(op) /\ ~Sent(op)'
      /\ \A b : Pending(b) => Pending(b)'
  BY DEF Ran, Sent, Pending
<1>2. Levels' /\ Counted'
  BY DEF Whole, Levels, Counted, Ran
<1>3. Orderly'
  BY DEF Whole, Orderly, Ran
<1>4. Savepointed'
  <2>1. /\ \A b, i : Since(b, i)' <=> Since(b, i)
        /\ \A i : Save(i)' <=> Save(i)
        /\ \A name, k : SaveOf(name, k)' <=> SaveOf(name, k)
    BY DEF Ran, Since, Save, SaveOf
  <2> QED
    BY <1>1, <2>1 DEF Ran, Whole, Savepointed
<1>5. Heard'
  BY <1>1 DEF Whole, Heard, Ran
<1>6. InEffect'
  BY <1>1 DEF Whole, InEffect, Ran
<1>7. Accounted'
  <2>1. \A m : Doomed(m) => Doomed(m)'
    BY <1>1 DEF Doomed, Ran
  <2> QED
    BY <2>1 DEF Whole, Accounted, Ran
<1> QED
  BY <1>2, <1>3, <1>4, <1>5, <1>6, <1>7 DEF Whole

\* A request that rolls the transaction back.
LEMMA ExecuteRollsBack ==
  ASSUME Shape, Whole, Ran, server' = Rollback(server),
         \/ /\ request.op \in {"exec", "reset"} /\ (request.op = "exec" => request'.err)
            /\ server.count # 0 => RollbackComes'
         \/ request.op = "rollback" /\ Len(frames) = 1 /\ ~request'.err
  PROVE  Whole'
<1>1. /\ server'.count = 0 /\ server'.work = {} /\ server'.committed = server.committed
      /\ server.count = 0 => server.work = {}
      /\ frames # <<>> <=> Len(frames) > 0
      /\ Inner = frames[Len(frames)]
  BY Basics, RollbackType
<1>2. /\ ~Sent("commit") /\ ~Sent("commit")' /\ ~Sent("rollback")
      /\ request.op = "rollback" => Sent("rollback")' /\ request'.name = frames[1].name /\ frames # <<>>
  BY <1>1 DEF Ran, Sent, Shape, OfInnermost
<1>3. Levels' /\ Counted'
  BY <1>1 DEF Whole, Levels, Counted, Ran
<1>4. Orderly'
  BY <1>1 DEF Whole, Orderly, Ran
<1>5. Savepointed'
  BY <1>1 DEF Savepointed
<1>6. Heard'
  <2>1. CASE server.count = 0
    <3>1. state # "FINAL" /\ frames # <<>> => \A i \in 1 .. Len(frames) : frames[i].failed
      BY <1>2, <2>1 DEF Whole, Heard, Ran
    <3> QED
      BY <3>1 DEF Heard, Ran
  <2>2. CASE server.count # 0
    BY <1>2, <2>2 DEF Heard
  <2> QED
    BY <2>1, <2>2
<1>7. InEffect'
  BY <1>1, <1>2 DEF Whole, InEffect, Ran
<1>8. Accounted'
  <2> SUFFICES ASSUME NEW m \in did
               PROVE  outcome[m] # "new" /\ (m \in server.committed \/ Doomed(m)')
    BY <1>1 DEF Accounted, Ran
  <2>1. /\ outcome[m] # "new"
        /\ m \in server.work \/ m \in server.committed \/ Doomed(m)
    BY DEF Whole, Accounted
  <2>2. ASSUME m \in server.work
        PROVE  Doomed(m)'
    <3>1. frames # <<>> /\ frames[1].name \in around[m] /\ server.count # 0
      BY <1>1, <2>2 DEF Whole, InEffect
    <3>2. RollbackComes' \/ (Sent("rollback")' /\ request'.name \in around[m])
      BY <1>2, <3>1
    <3> QED
      BY <3>1, <3>2 DEF Doomed, Ran
  <2>3. Doomed(m) => Doomed(m)'
    BY <1>2 DEF Doomed, Ran
  <2> QED
    BY <2>1, <2>2, <2>3
<1> QED
  BY <1>3, <1>4, <1>5, <1>6, <1>7, <1>8 DEF Whole

\* A statement that succeeds, in the innermost transaction().
LEMMA ExecuteWorks ==
  ASSUME Shape, Nested, Whole, Ran, request.op = "exec", Executed(server, request, server')
  PROVE  Whole'
<1> DEFINE n == Len(frames)
           name == request.name
<1>1. /\ n \in Nat /\ frames # <<>> /\ n > 0 /\ name = frames[n].name /\ name \in Names
      /\ \A i \in 1 .. n : frames[i].name \in around[name]
      /\ outcome[name] = "open" /\ \A k \in around[name] : outcome[k] = "open"
  <2>1. /\ n \in Nat /\ frames # <<>> /\ n > 0 /\ name = frames[n].name /\ name \in Names
    BY Basics DEF Shape, OfInnermost
  <2>2. n \in 1 .. n
    BY <2>1
  <2>3. \A i \in 1 .. n : /\ outcome[frames[i].name] = "open"
                          /\ around[frames[i].name] = {frames[j].name : j \in 1 .. i}
    BY DEF Nested
  <2>4. around[name] = {frames[j].name : j \in 1 .. n}
    BY <2>1, <2>2, <2>3
  <2> HIDE DEF n
  <2> QED
    BY <2>1, <2>2, <2>3, <2>4
<1>2. /\ server.count = 1 /\ server'.count = 1 /\ server'.name = server.name /\ server'.saves = server.saves
      /\ server'.work = server.work \cup {name} /\ server'.committed = server.committed
  <2>1. server.count = 1
    BY DEF Whole, Orderly, Ran
  <2> QED
    BY <2>1 DEF Executed, Same
<1>3. /\ \A op \in {"commit", "rollback"} : ~Sent(op) /\ ~Sent(op)'
      /\ \A b : ~Pending(b)
      /\ request'.op = "exec" /\ request'.name = name
      /\ UNCHANGED <<state, frames, around, outcome, did>> /\ state # "FINAL" /\ ~RollbackComes
  BY DEF Ran, Sent, Pending
<1>4. Levels' /\ Counted'
  BY <1>2, <1>3 DEF Whole, Levels, Counted
<1>5. Orderly'
  BY <1>2, <1>3 DEF Orderly, Control, Ran
<1>6. Savepointed'
  <2>1. /\ \A b \in 2 .. n : SaveOf(frames[b].name, Len(server.saves))
        /\ \A b \in 2 .. n, i \in 1 .. Len(server.saves) : server.saves[i].name = frames[b].name => Since(b, i)
        /\ \A i \in 1 .. Len(server.saves) : Save(i)
    BY <1>2, <1>3 DEF Whole, Savepointed
  <2>2. \A k, l : SaveOf(k, l)' <=> SaveOf(k, l)
    BY <1>2 DEF SaveOf
  <2>3. ASSUME NEW b \in 2 .. n, NEW i, Since(b, i)
        PROVE  Since(b, i)'
    <3>1. frames[b].name \in around[name]
      BY <1>1
    <3> QED
      BY <1>2, <1>3, <2>2, <2>3, <3>1 DEF Since
  <2>4. ASSUME NEW i, Save(i)
        PROVE  Save(i)'
    BY <1>2, <1>3, <2>4 DEF Save
  <2>5. \A b \in 2 .. n : SaveOf(frames[b].name, Len(server.saves))'
    BY <1>2, <1>3, <2>1, <2>2
  <2> QED
    BY <1>2, <1>3, <2>1, <2>3, <2>4, <2>5 DEF Savepointed
<1>7. Heard'
  BY <1>2 DEF Heard
<1>8. InEffect'
  <2>1. 1 \in 1 .. n
    BY <1>1
  <2> QED
    BY <1>1, <1>2, <1>3, <2>1 DEF Whole, InEffect
<1>9. Accounted'
  <2>1. \A m : Doomed(m) => Doomed(m)'
    BY <1>3 DEF Doomed
  <2> QED
    BY <1>2, <1>3, <2>1 DEF Whole, Accounted
<1> QED
  BY <1>4, <1>5, <1>6, <1>7, <1>8, <1>9 DEF Whole

\* The outermost transaction() begins its transaction.
LEMMA ExecuteBegins ==
  ASSUME Shape, Nested, Whole, Ran, request.op = "begin", ~request'.err, Opened(server, request, server')
  PROVE  Whole'
<1>1. /\ Len(frames) = 1 /\ frames # <<>> /\ request.name = frames[1].name
      /\ server.count = 0 /\ server.saves = <<>> /\ Len(server.saves) = 0
      /\ server'.count = 1 /\ server'.name = frames[1].name
      /\ server'.saves = server.saves /\ server'.work = server.work /\ server'.committed = server.committed
  <2>1. /\ Len(frames) = 1 /\ server.count = 0
        /\ frames # <<>> /\ request.name = frames[Len(frames)].name
    BY DEF Whole, Orderly, Ran, Shape, OfInnermost, Inner
  <2>2. server.saves = <<>> /\ Len(<<>>) = 0
    BY <2>1, Basics
  <2> QED
    BY <2>1, <2>2 DEF Opened
<1>2. /\ \A op \in {"commit", "rollback"} : ~Sent(op) /\ ~Sent(op)'
      /\ request'.op = "begin"
      /\ UNCHANGED <<state, frames, around, outcome, did>> /\ state # "FINAL" /\ ~RollbackComes
  BY DEF Ran, Sent
<1>3. Levels' /\ Counted' /\ Orderly' /\ Heard' /\ InEffect'
  <2>1. Levels' /\ Counted'
    BY <1>1, <1>2 DEF Whole, Levels, Counted
  <2>2. Orderly'
    BY <1>1, <1>2 DEF Whole, Orderly, Control, Ran
  <2>3. Heard' /\ InEffect'
    BY <1>1, <1>2 DEF Whole, Heard, InEffect
  <2> QED
    BY <2>1, <2>2, <2>3
<1>4. Savepointed'
  <2>1. 2 .. 1 = {} /\ 1 .. 0 = {}
    OBVIOUS
  <2>2. Len(frames') = 1 /\ Len(server'.saves) = 0
    BY <1>1, <1>2
  <2> QED
    BY <2>1, <2>2, Zenon DEF Savepointed
<1>5. Accounted'
  <2>1. \A m : Doomed(m) => Doomed(m)'
    BY <1>2 DEF Doomed
  <2> QED
    BY <1>1, <1>2, <2>1 DEF Whole, Accounted
<1> QED
  BY <1>3, <1>4, <1>5 DEF Whole

\* A nested transaction() commits nothing itself: commit is of the outermost.
LEMMA ExecuteCommits ==
  ASSUME Shape, Nested, Whole, Ran, request.op = "commit", ~request'.err, ~RollbackComes',
         Closed(server, server')
  PROVE  Whole'
<1>1. /\ server.count = 1 /\ server'.count = 0 /\ server'.work = {} /\ server'.saves = <<>>
      /\ server'.committed = server.committed \cup server.work
      /\ request'.op = "commit" /\ request'.executed /\ ~Inner.failed
  BY DEF Whole, Orderly, Ran, Closed
<1>2. /\ ~Sent("rollback") /\ ~Sent("rollback")' /\ Sent("commit")'
      /\ UNCHANGED <<state, frames, around, outcome, did>> /\ state # "FINAL" /\ ~RollbackComes
  BY <1>1 DEF Ran, Sent
<1>3. Levels' /\ Counted' /\ Orderly'
  BY <1>1, <1>2 DEF Whole, Levels, Counted, Orderly, Inner, Ran, Control
<1>4. Savepointed' /\ Heard'
  BY <1>1, <1>2 DEF Savepointed, Heard
<1>5. InEffect'
  BY <1>1, <1>2 DEF Whole, InEffect
<1>6. Accounted'
  <2>1. \A m : Doomed(m) => Doomed(m)'
    BY <1>2 DEF Doomed
  <2> QED
    BY <1>1, <1>2, <2>1 DEF Whole, Accounted
<1> QED
  BY <1>3, <1>4, <1>5, <1>6 DEF Whole

\* A nested transaction() gets its savepoint: what is undone by going back to it
\* is what will be done from now on.
LEMMA ExecuteSaves ==
  ASSUME Shape, Nested, Whole, Ran, Shape', request.op = "save", ~request'.err,
         SavedAt(server, request, server')
  PROVE  Whole'
<1> DEFINE n == Len(frames)
           l == Len(server.saves)
           name == request.name
<1>1. /\ n \in Nat /\ frames # <<>> /\ n > 1 /\ name = frames[n].name /\ name \in Names
      /\ outcome[name] = "open" /\ l \in Nat /\ server.saves \in Seq(Savepoints)
      /\ \A b \in 2 .. n : frames[b].name = name => b = n
  <2>1. /\ n \in Nat /\ frames # <<>> /\ n > 1 /\ name = frames[n].name /\ name \in Names
        /\ l \in Nat /\ server.saves \in Seq(Savepoints)
    <3>1. n > 1
      BY DEF Whole, Orderly
    <3> QED
      BY <3>1, Basics DEF Shape, OfInnermost
  <2>2. n \in 1 .. n /\ \A b \in 2 .. n : b \in 1 .. n
    BY <2>1
  <2>3. outcome[frames[n].name] = "open" /\ \A b \in 1 .. n : frames[b].name = frames[n].name => b = n
    BY <2>2 DEF Nested
  <2> QED
    BY <2>1, <2>2, <2>3
<1>2. /\ server.count > 0 /\ server'.count = server.count /\ server'.name = server.name
      /\ server'.work = server.work /\ server'.committed = server.committed
      /\ server'.saves = Append(server.saves, [name |-> name, work |-> server.work])
  BY DEF SavedAt, Same
<1>3. /\ Len(server'.saves) = l + 1
      /\ \A i \in 1 .. l : server'.saves[i] = server.saves[i]
      /\ server'.saves[l + 1].name = name /\ server'.saves[l + 1].work = server.work
  <2> DEFINE e == [name |-> name, work |-> server.work]
  <2>1. e.name = name /\ e.work = server.work
    OBVIOUS
  <2> HIDE DEF e
  <2>2. \A q : q \in Seq(Savepoints) => /\ Len(Append(q, e)) = Len(q) + 1
                                       /\ \A i \in 1 .. Len(q) : Append(q, e)[i] = q[i]
                                       /\ Append(q, e)[Len(q) + 1] = e
    OBVIOUS
  <2>3. server'.saves = Append(server.saves, e)
    BY <1>2 DEF e
  <2> QED
    BY <1>1, <2>1, <2>2, <2>3
<1>4. /\ \A op \in {"commit", "rollback"} : ~Sent(op) /\ ~Sent(op)'
      /\ \A b : Pending(b) => b = n
      /\ request'.op = "save" /\ request'.executed
      /\ UNCHANGED <<state, frames, around, outcome, did>> /\ state # "FINAL" /\ ~RollbackComes
      /\ \A m \in server.work : name \notin around[m]
  BY DEF Ran, Sent, Pending, Whole, Orderly
<1>5. Levels' /\ Counted' /\ Orderly' /\ Heard' /\ InEffect'
  <2>1. Levels' /\ Counted'
    BY <1>2, <1>4 DEF Whole, Levels, Counted
  <2>2. Orderly'
    BY <1>1, <1>2, <1>4 DEF Whole, Orderly, Control, Ran
  <2>3. Heard' /\ InEffect'
    BY <1>2, <1>4 DEF Whole, Heard, InEffect
  <2> QED
    BY <2>1, <2>2, <2>3
<1>6. Savepointed'
  <2>1. /\ \A b \in 2 .. n : SaveOf(frames[b].name, l) \/ Pending(b)
        /\ \A b \in 2 .. n, i \in 1 .. l : server.saves[i].name = frames[b].name => Since(b, i)
        /\ \A i \in 1 .. l : Save(i)
    BY <1>2 DEF Whole, Savepointed
  <2>2. \A i \in 1 .. l + 1 : i \in 1 .. l \/ i = l + 1
    BY <1>1
  <2>3. \A k : \A j \in 0 .. l : SaveOf(k, j) => SaveOf(k, j)'
    <3> SUFFICES ASSUME NEW k, NEW j \in 0 .. l, NEW i \in 1 .. j, server.saves[i].name = k
                 PROVE  SaveOf(k, j)'
      BY DEF SaveOf
    <3>1. i \in 1 .. l
      BY <1>1
    <3> QED
      BY <1>3, <3>1 DEF SaveOf
  <2>4. \A b \in 2 .. n : SaveOf(frames[b].name, Len(server.saves))'
    <3> SUFFICES ASSUME NEW b \in 2 .. n
                 PROVE  \E i \in 1 .. l + 1 : server'.saves[i].name = frames[b].name
      BY <1>3, <1>4 DEF SaveOf
    <3>1. CASE b = n
      BY <1>1, <1>3, <3>1
    <3>2. CASE b # n
      <4>1. PICK i \in 1 .. l : server.saves[i].name = frames[b].name
        BY <1>4, <2>1, <3>2 DEF SaveOf
      <4>2. i \in 1 .. l + 1
        BY <1>1
      <4> QED
        BY <1>3, <4>1, <4>2
    <3> QED
      BY <3>1, <3>2
  <2>5. ASSUME NEW b \in 2 .. n, NEW i \in 1 .. l + 1, server'.saves[i].name = frames'[b].name
        PROVE  Since(b, i)'
    <3>1. CASE i \in 1 .. l
      <4>1. Since(b, i) /\ server'.saves[i] = server.saves[i]
        BY <1>3, <1>4, <2>1, <2>5, <3>1
      <4>2. i - 1 \in 0 .. l
        BY <1>1, <3>1
      <4> QED
        BY <1>2, <1>4, <2>3, <4>1, <4>2 DEF Since
    <3>2. CASE i = l + 1
      <4>1. b = n
        BY <1>1, <1>3, <1>4, <2>5, <3>2
      <4>2. i - 1 = l /\ l \in 0 .. l
        BY <1>1, <3>2
      <4>3. \A a \in 2 .. b - 1 : SaveOf(frames[a].name, l)
        <5>1. \A a \in 2 .. b - 1 : a \in 2 .. n /\ a # n
          BY <1>1, <4>1
        <5> QED
          BY <1>4, <2>1, <5>1
      <4>4. \A a \in 2 .. b - 1 : SaveOf(frames[a].name, i - 1)'
        <5> SUFFICES ASSUME NEW a \in 2 .. b - 1
                     PROVE  \E j \in 1 .. i - 1 : server'.saves[j].name = frames[a].name
          BY <1>4 DEF SaveOf
        <5>1. PICK j \in 1 .. l : server.saves[j].name = frames[a].name
          BY <4>3 DEF SaveOf
        <5> QED
          BY <1>3, <4>2, <5>1
      <4>5. server'.work \ server'.saves[i].work = {}
        BY <1>2, <1>3, <3>2
      <4> QED
        BY <4>4, <4>5 DEF Since
    <3> QED
      BY <2>2, <3>1, <3>2
  <2>6. ASSUME NEW i \in 1 .. l + 1
        PROVE  Save(i)'
    <3>1. CASE i \in 1 .. l
      <4>1. /\ server.saves[i].name \in Names /\ outcome[server.saves[i].name] # "new"
            /\ server.saves[i].work \subseteq server.work
            /\ \A m \in server.saves[i].work : server.saves[i].name \notin around[m]
            /\ \A j \in 1 .. i : server.saves[j].work \subseteq server.saves[i].work
        BY <2>1, <3>1 DEF Save
      <4>2. \A j \in 1 .. i : j \in 1 .. l
        BY <1>1, <3>1
      <4> QED
        BY <1>2, <1>3, <1>4, <3>1, <4>1, <4>2 DEF Save
    <3>2. CASE i = l + 1
      <4>1. \A j \in 1 .. l + 1 : server'.saves[j].work \subseteq server.work
        BY <1>3, <2>1, <2>2 DEF Save
      <4> QED
        BY <1>1, <1>2, <1>3, <1>4, <3>2, <4>1 DEF Save
    <3> QED
      BY <2>2, <3>1, <3>2
  <2> QED
    BY <1>2, <1>3, <1>4, <2>4, <2>5, <2>6 DEF Savepointed
<1>7. Accounted'
  <2>1. \A m : Doomed(m) => Doomed(m)'
    BY <1>4 DEF Doomed
  <2> QED
    BY <1>2, <1>4, <2>1 DEF Whole, Accounted
<1> QED
  BY <1>5, <1>6, <1>7 DEF Whole

\* A nested transaction() that failed goes back to its savepoint, which undoes
\* what was done in it and nothing else.
LEMMA ExecuteReturns ==
  ASSUME Shape, Nested, Whole, Ran, request.op = "rollback", Len(frames) > 1, ~request'.err,
         NEW i, BackTo(server, request, server', i)
  PROVE  Whole'
<1> DEFINE n == Len(frames)
           l == Len(server.saves)
           name == request.name
<1>1. /\ n \in Nat /\ frames # <<>> /\ n > 1 /\ name = frames[n].name /\ name \in Names
      /\ l \in Nat /\ server.saves \in Seq(Savepoints) /\ i \in 1 .. l
      /\ server.saves[i].name = name
  BY Basics DEF Shape, OfInnermost, BackTo
<1>2. /\ server.count = 1 /\ server'.count = 1 /\ server'.name = server.name
      /\ server'.work = server.saves[i].work /\ server'.committed = server.committed
      /\ server'.saves = SubSeq(server.saves, 1, i)
  <2>1. server.count = 1
    BY DEF Whole, Orderly, Ran
  <2> QED
    BY <2>1 DEF BackTo, Same
<1>3. Len(server'.saves) = i /\ \A j \in 1 .. i : server'.saves[j] = server.saves[j]
  <2>1. \A q : q \in Seq(Savepoints) /\ i \in 1 .. Len(q) =>
          Len(SubSeq(q, 1, i)) = i /\ \A j \in 1 .. i : SubSeq(q, 1, i)[j] = q[j]
    BY <1>1
  <2> QED
    BY <1>1, <1>2, <2>1
<1>4. /\ ~Sent("commit") /\ ~Sent("commit")' /\ ~Sent("rollback") /\ Sent("rollback")'
      /\ \A b : ~Pending(b)
      /\ request'.op = "rollback" /\ request'.name = name
      /\ UNCHANGED <<state, frames, around, outcome, did>> /\ state # "FINAL" /\ ~RollbackComes
  BY DEF Ran, Sent, Pending
<1>5. /\ \A b \in 2 .. n : SaveOf(frames[b].name, l)
      /\ \A b \in 2 .. n, j \in 1 .. l : server.saves[j].name = frames[b].name => Since(b, j)
      /\ \A j \in 1 .. l : Save(j)
  BY <1>2, <1>4 DEF Whole, Savepointed
<1>6. /\ Since(n, i)
      /\ server'.work \subseteq server.work /\ \A m \in server'.work : name \notin around[m]
      /\ \A m \in server.work \ server'.work : name \in around[m]
      /\ \A j \in 1 .. i : server.saves[j].work \subseteq server'.work
      /\ \A j \in 1 .. i : j \in 1 .. l
  <2>1. n \in 2 .. n /\ \A j \in 1 .. i : j \in 1 .. l
    BY <1>1
  <2>2. Since(n, i) /\ Save(i)
    BY <1>1, <1>5, <2>1
  <2> QED
    BY <1>1, <1>2, <2>1, <2>2 DEF Since, Save
<1>7. Levels' /\ Counted' /\ Orderly' /\ Heard' /\ InEffect'
  <2>1. Levels' /\ Counted'
    BY <1>2, <1>4 DEF Whole, Levels, Counted
  <2>2. Orderly'
    BY <1>1, <1>2, <1>4, <1>6 DEF Whole, Orderly, Control, Ran
  <2>3. Heard' /\ InEffect'
    BY <1>2, <1>4, <1>6 DEF Whole, Heard, InEffect
  <2> QED
    BY <2>1, <2>2, <2>3
<1>8. Savepointed'
  <2>1. \A k : \A j \in 0 .. i : SaveOf(k, j) => SaveOf(k, j)'
    <3> SUFFICES ASSUME NEW k, NEW j \in 0 .. i, NEW h \in 1 .. j, server.saves[h].name = k
                 PROVE  SaveOf(k, j)'
      BY DEF SaveOf
    <3>1. h \in 1 .. i
      BY <1>1
    <3> QED
      BY <1>3, <3>1 DEF SaveOf
  <2>2. \A b \in 2 .. n : SaveOf(frames[b].name, i)'
    <3> SUFFICES ASSUME NEW b \in 2 .. n
                 PROVE  \E j \in 1 .. i : server'.saves[j].name = frames[b].name
      BY <1>4 DEF SaveOf
    <3>1. CASE b = n
      BY <1>1, <1>3, <3>1
    <3>2. CASE b # n
      <4>1. b \in 2 .. n - 1
        BY <1>1, <3>2
      <4>2. PICK j \in 1 .. i - 1 : server.saves[j].name = frames[b].name
        BY <1>6, <4>1 DEF Since, SaveOf
      <4>3. j \in 1 .. i
        BY <1>1
      <4> QED
        BY <1>3, <4>2, <4>3
    <3> QED
      BY <3>1, <3>2
  <2>3. ASSUME NEW b \in 2 .. n, NEW j \in 1 .. i, server'.saves[j].name = frames'[b].name
        PROVE  Since(b, j)'
    <3>1. Since(b, j) /\ server'.saves[j] = server.saves[j]
      BY <1>3, <1>4, <1>5, <1>6, <2>3
    <3>2. j - 1 \in 0 .. i
      BY <1>1
    <3> QED
      BY <1>4, <1>6, <2>1, <3>1, <3>2 DEF Since
  <2>4. ASSUME NEW j \in 1 .. i
        PROVE  Save(j)'
    <3>1. /\ server.saves[j].name \in Names /\ outcome[server.saves[j].name] # "new"
          /\ \A m \in server.saves[j].work : server.saves[j].name \notin around[m]
          /\ \A h \in 1 .. j : server.saves[h].work \subseteq server.saves[j].work
      BY <1>5, <1>6 DEF Save
    <3>2. \A h \in 1 .. j : h \in 1 .. i
      BY <1>1
    <3> QED
      BY <1>3, <1>4, <1>6, <3>1, <3>2 DEF Save
  <2> QED
    BY <1>3, <1>4, <2>2, <2>3, <2>4 DEF Savepointed
<1>9. Accounted'
  <2> SUFFICES ASSUME NEW m \in did
               PROVE  outcome[m] # "new" /\ (m \in server'.work \/ m \in server'.committed \/ Doomed(m)')
    BY <1>4 DEF Accounted
  <2>1. outcome[m] # "new" /\ (m \in server.work \/ m \in server.committed \/ Doomed(m))
    BY DEF Whole, Accounted
  <2>2. Doomed(m) => Doomed(m)'
    BY <1>4 DEF Doomed
  <2>3. m \in server.work /\ m \notin server'.work => Doomed(m)'
    BY <1>4, <1>6 DEF Doomed
  <2> QED
    BY <1>2, <2>1, <2>2, <2>3
<1> QED
  BY <1>7, <1>8, <1>9 DEF Whole

LEMMA ExecuteWhole ==
  ASSUME SessionInv, Sure, Whole, Shape', Execute
  PROVE  Whole'
<1>0. CASE request.ignore
  <2>1. Ran /\ request.canceled /\ Shape
    BY <1>0, ExecuteRan DEF SessionInv
  <2>2. UNCHANGED server /\ request'.err
    BY <1>0, <2>1, ExecuteMeans DEF Stale
  <2>3. request.op \in {"isolation", "reset", "exec"}
    <3>1. request.op \notin {"begin", "save", "commit", "rollback"}
      BY <2>1 DEF Whole, Orderly, Control
    <3> QED
      BY <2>1, <3>1 DEF Ran, Ops, Control
  <2> QED
    BY <2>1, <2>2, <2>3, ExecuteNothing
<1> SUFFICES ASSUME ~request.ignore
             PROVE  Whole'
  BY <1>0
<1>1. /\ Ran /\ ~Old /\ ~Stale /\ (request.reset <=> request.op = "reset")
      /\ Clean = (IF request.op = "reset" THEN Rollback(server) ELSE server)
      /\ Shape /\ Nested
  BY ExecuteRan DEF SessionInv
<1>2. /\ request'.err => Failed(Clean, request, server')
      /\ ~request'.err => /\ request.op = "isolation" => server' = Clean
                          /\ request.op = "exec" => Executed(Clean, request, server')
                          /\ request.op = "begin" => Opened(Clean, request, server')
                          /\ request.op = "save" => SavedAt(Clean, request, server')
                          /\ request.op = "commit" => Closed(Clean, server')
                          /\ request.op = "rollback" => Undone(Clean, request, server')
      /\ request.op = "reset" => server' = Clean
  BY <1>1, ExecuteMeans
<1>3. /\ request.op = "commit" => ~RollbackComes'
      /\ request.op \in {"exec", "reset"} /\ server.count # 0 /\ server'.count = 0 => RollbackComes'
  BY <1>1, ExecuteTokens
<1>4. Rollback(server).count = 0
  BY <1>1, Basics, RollbackType
<1>5. CASE request.op = "reset"
  BY <1>1, <1>2, <1>3, <1>4, <1>5, ExecuteRollsBack
<1>6. CASE request.op = "isolation"
  <2>1. server' = server
    BY <1>1, <1>2, <1>6 DEF Failed, Ran
  <2> QED
    BY <1>1, <1>6, <2>1, ExecuteNothing
<1>7. CASE request.op = "exec"
  <2>1. CASE ~request'.err
    BY <1>1, <1>2, <1>7, <2>1, ExecuteWorks
  <2>2. CASE request'.err /\ server' = server
    BY <1>1, <1>7, <2>2, ExecuteNothing
  <2>3. CASE request'.err /\ server' = Rollback(server)
    BY <1>1, <1>3, <1>4, <1>7, <2>3, ExecuteRollsBack
  <2> QED
    BY <1>1, <1>2, <1>7, <2>1, <2>2, <2>3 DEF Failed
<1>8. CASE request.op \in {"begin", "save"}
  <2>1. CASE request'.err
    <3>1. server' = server
      BY <1>1, <1>2, <1>8, <2>1 DEF Failed
    <3> QED
      BY <1>1, <1>8, <2>1, <3>1, ExecuteNothing
  <2>2. CASE ~request'.err
    BY <1>1, <1>2, <1>8, <2>2, ExecuteBegins, ExecuteSaves
  <2> QED
    BY <2>1, <2>2
<1>9. CASE request.op = "commit"
  <2>1. server.count = 1
    BY <1>1, <1>9 DEF Whole, Orderly, Ran
  <2>2. ~request'.err
    BY <1>1, <1>2, <1>9, <2>1 DEF Failed, MayFail
  <2> QED
    BY <1>1, <1>2, <1>3, <1>9, <2>2, ExecuteCommits
<1>10. CASE request.op = "rollback"
  <2>1. /\ server.count = 1 /\ server.name = frames[1].name /\ request.name = frames[Len(frames)].name
        /\ Len(frames) \in Nat /\ Len(frames) > 0
        /\ DOMAIN server.saves = 1 .. Len(server.saves)
    <3>1. server.count = 1 /\ server.name = frames[1].name
      BY <1>1, <1>10 DEF Whole, Orderly, Counted, Ran
    <3> QED
      BY <1>1, <1>10, <3>1, Basics DEF Shape, OfInnermost
  <2>2. CASE Len(frames) = 1
    <3>1. server.count > 0 /\ server.name = request.name
      BY <2>1, <2>2
    <3>2. ~request'.err
      BY <1>1, <1>2, <1>10, <3>1 DEF Failed, MayFail
    <3>3. server' = Rollback(server)
      BY <1>1, <1>2, <1>10, <3>1, <3>2 DEF Undone
    <3> QED
      BY <1>1, <1>10, <2>2, <3>2, <3>3, ExecuteRollsBack
  <2>3. CASE Len(frames) > 1
    <3>1. server.name # request.name
      <4>1. 1 \in 1 .. Len(frames) /\ Len(frames) \in 1 .. Len(frames) /\ 1 # Len(frames)
        BY <2>1, <2>3
      <4>2. \A i, j \in 1 .. Len(frames) : frames[i].name = frames[j].name => i = j
        BY <1>1 DEF Nested
      <4> QED
        BY <2>1, <4>1, <4>2
    <3>2. \E i \in DOMAIN server.saves : server.saves[i].name = request.name
      <4>1. Len(frames) \in 2 .. Len(frames) /\ ~Pending(Len(frames)) /\ server.count > 0
        BY <1>10, <2>1, <2>3 DEF Pending
      <4>2. SaveOf(frames[Len(frames)].name, Len(server.saves))
        BY <4>1 DEF Whole, Savepointed
      <4> QED
        BY <2>1, <4>2 DEF SaveOf
    <3>3. ~request'.err
      BY <1>1, <1>2, <1>10, <3>2 DEF Failed, MayFail
    <3>4. \E i : BackTo(server, request, server', i)
      BY <1>1, <1>2, <1>10, <3>1, <3>3 DEF Undone
    <3> QED
      BY <1>1, <1>10, <2>3, <3>3, <3>4, ExecuteReturns
  <2>4. Len(frames) = 1 \/ Len(frames) > 1
    <3>1. \A k \in Nat : k > 0 => k = 1 \/ k > 1
      OBVIOUS
    <3> QED
      BY <2>1, <3>1, Zenon
  <2> QED
    BY <2>2, <2>3, <2>4, Zenon
<1> QED
  BY <1>1, <1>5, <1>6, <1>7, <1>8, <1>9, <1>10 DEF Ran, Ops, Control

\* A token is read. The user hears of a rollback.
LEMMA TokenWhole ==
  ASSUME Shape, Whole, Shape', Token
  PROVE  Whole'
<1> DEFINE t == Head(request.tokens)
           n == Len(frames)
<1>1. /\ Going /\ Going' /\ request.executed /\ request'.executed
      /\ request.tokens # <<>> /\ request.tokens \in Seq(Tokens)
      /\ request'.tokens = Tail(request.tokens)
      /\ request'.op = request.op /\ request'.name = request.name /\ request'.err = request.err
      /\ request'.canceled = request.canceled
      /\ UNCHANGED <<state, around, outcome, did, server>> /\ state # "FINAL"
  BY TokenEffect, GoingType
<1>2. frames' = IF t.kind # "rollback" THEN frames
                ELSE [i \in DOMAIN frames |-> [frames[i] EXCEPT !.failed = TRUE]]
  BY DEF Token
<1>3. /\ n \in Nat /\ DOMAIN frames = 1 .. n /\ (frames # <<>> <=> n > 0)
      /\ \A i \in 1 .. n : frames[i] \in Frames
      /\ Len(frames') \in Nat /\ DOMAIN frames' = 1 .. Len(frames') /\ (frames' # <<>> <=> Len(frames') > 0)
  BY FramesThere DEF Shape
<1>4. /\ Len(frames') = n
      /\ \A i \in 1 .. n : /\ frames'[i].name = frames[i].name
                           /\ frames'[i].useSavepoint = frames[i].useSavepoint
                           /\ frames[i].failed => frames'[i].failed
      /\ t.kind = "rollback" => \A i \in 1 .. n : frames'[i].failed
      /\ t.kind # "rollback" => frames' = frames
  <2>1. CASE t.kind # "rollback"
    BY <1>2, <2>1
  <2>2. CASE t.kind = "rollback"
    <3>1. DOMAIN frames' = 1 .. n /\ \A i \in 1 .. n : frames'[i] = [frames[i] EXCEPT !.failed = TRUE]
      BY <1>2, <1>3, <2>2
    <3>2. \A f \in Frames : /\ [f EXCEPT !.failed = TRUE].name = f.name
                            /\ [f EXCEPT !.failed = TRUE].useSavepoint = f.useSavepoint
                            /\ [f EXCEPT !.failed = TRUE].failed
      BY SMTT(30) DEF Frames
    <3>3. Len(frames') = n
      <4>1. \A k, l \in Nat : 1 .. k = 1 .. l => k = l
        <5> SUFFICES ASSUME NEW k \in Nat, NEW l \in Nat, 1 .. k = 1 .. l
                     PROVE  ~(k < l) /\ ~(l < k)
          OBVIOUS
        <5>1. k < l => l \in 1 .. l /\ l \notin 1 .. k
          OBVIOUS
        <5>2. l < k => k \in 1 .. k /\ k \notin 1 .. l
          OBVIOUS
        <5> QED
          BY <5>1, <5>2
      <4> QED
        BY <1>3, <3>1, <4>1
    <3>4. ASSUME NEW i \in 1 .. n
          PROVE  /\ frames'[i].name = frames[i].name
                 /\ frames'[i].useSavepoint = frames[i].useSavepoint
                 /\ frames'[i].failed
      <4>1. frames'[i] = [frames[i] EXCEPT !.failed = TRUE] /\ frames[i] \in Frames
        BY <1>3, <3>1
      <4> QED
        BY <3>2, <4>1
    <3> HIDE DEF t
    <3> QED
      BY <2>2, <3>3, <3>4
  <2> QED
    BY <2>1, <2>2
<1>5. /\ RollbackComes' => RollbackComes
      /\ RollbackComes => RollbackComes' \/ t.kind = "rollback"
  <2>1. /\ Len(request'.tokens) = Len(request.tokens) - 1 /\ Len(request.tokens) \in Nat
        /\ t = request.tokens[1]
        /\ \A i \in 1 .. Len(request.tokens) - 1 : request'.tokens[i] = request.tokens[i + 1]
    <3>1. \A q : q \in Seq(Tokens) /\ q # <<>> =>
            /\ Len(Tail(q)) = Len(q) - 1 /\ Len(q) \in Nat /\ Head(q) = q[1]
            /\ \A i \in 1 .. Len(q) - 1 : Tail(q)[i] = q[i + 1]
      OBVIOUS
    <3> QED
      BY <1>1, <3>1
  <2> HIDE DEF t
  <2>2. ASSUME RollbackComes'
        PROVE  RollbackComes
    <3>1. PICK i \in 1 .. Len(request'.tokens) : request'.tokens[i].kind = "rollback"
      BY <2>2 DEF RollbackComes
    <3>2. i + 1 \in 1 .. Len(request.tokens) /\ request.tokens[i + 1].kind = "rollback"
      BY <2>1, <3>1
    <3> QED
      BY <1>1, <3>2 DEF RollbackComes
  <2>3. ASSUME RollbackComes, t.kind # "rollback"
        PROVE  RollbackComes'
    <3>1. PICK i \in 1 .. Len(request.tokens) : request.tokens[i].kind = "rollback"
      BY <2>3 DEF RollbackComes
    <3>2. i # 1
      BY <2>1, <2>3, <3>1
    <3>3. i - 1 \in 1 .. Len(request.tokens) - 1 /\ (i - 1) + 1 = i
      BY <2>1, <3>2
    <3>4. i - 1 \in 1 .. Len(request'.tokens) /\ request'.tokens[i - 1].kind = "rollback"
      BY <2>1, <3>1, <3>3
    <3> QED
      BY <1>1, <3>4 DEF RollbackComes
  <2> QED
    BY <2>2, <2>3
<1>6. t.kind = "rollback" => RollbackComes
  <2>1. \A q : q \in Seq(Tokens) /\ q # <<>> => Head(q) = q[1] /\ 1 \in 1 .. Len(q)
    OBVIOUS
  <2> QED
    BY <1>1, <2>1 DEF RollbackComes
<1> HIDE DEF t
<1>7. \A op : Sent(op)' <=> Sent(op)
  BY <1>1 DEF Sent
<1>8. Levels' /\ Counted'
  BY <1>1, <1>3, <1>4 DEF Whole, Levels, Counted
<1>9. Orderly'
  <2>1. request.op = "commit" => ~RollbackComes /\ ~RollbackComes' /\ frames' = frames
    BY <1>4, <1>5, <1>6 DEF Whole, Orderly
  <2> QED
    BY <1>1, <1>4, <2>1 DEF Whole, Orderly, Inner
<1>10. Savepointed'
  <2>1. /\ \A b : Pending(b)' <=> Pending(b)
        /\ \A i : Save(i)' <=> Save(i)
        /\ \A name, k : SaveOf(name, k)' <=> SaveOf(name, k)
    BY <1>1, <1>4 DEF Pending, Save, SaveOf
  <2>2. \A b \in 2 .. n : frames'[b].name = frames[b].name
    BY <1>3, <1>4
  <2>3. ASSUME NEW b \in 2 .. n, NEW i, Since(b, i)
        PROVE  Since(b, i)'
    <3>1. \A a \in 2 .. b - 1 : frames'[a].name = frames[a].name
      BY <1>3, <1>4
    <3> QED
      BY <1>1, <2>1, <2>2, <2>3, <3>1 DEF Since, SaveOf
  <2>4. ASSUME server.count > 0
        PROVE  /\ \A b \in 2 .. n : SaveOf(frames'[b].name, Len(server.saves)) \/ Pending(b)'
               /\ \A b \in 2 .. n, i \in 1 .. Len(server.saves) :
                    server.saves[i].name = frames'[b].name => Since(b, i)'
               /\ \A i \in 1 .. Len(server.saves) : Save(i)'
    BY <2>1, <2>2, <2>3, <2>4 DEF Whole, Savepointed
  <2> QED
    BY <1>1, <1>4, <2>4 DEF Savepointed, SaveOf
<1>11. Heard'
  <2> SUFFICES ASSUME frames' # <<>>, server.count = 0
               PROVE  \/ request.op = "begin" \/ Sent("commit") \/ Sent("rollback") \/ RollbackComes'
                      \/ \A i \in 1 .. n : frames'[i].failed
    BY <1>1, <1>4, <1>7 DEF Heard
  <2>1. \/ request.op = "begin" \/ Sent("commit") \/ Sent("rollback") \/ RollbackComes
        \/ \A i \in 1 .. n : frames[i].failed
    BY <1>1, <1>3, <1>4 DEF Whole, Heard
  <2> QED
    BY <1>4, <1>5, <2>1
<1>12. InEffect'
  <2>1. frames # <<>> => frames' # <<>> /\ frames'[1].name = frames[1].name
    BY <1>3, <1>4
  <2> QED
    BY <1>1, <1>4, <1>7, <2>1 DEF Whole, InEffect
<1>13. Accounted'
  <2>1. ASSUME NEW m, Doomed(m)
        PROVE  Doomed(m)'
    <3>1. CASE \E k \in around[m] : outcome[k] \in {"failed", "refused", "unknown"}
      BY <1>1, <3>1 DEF Doomed
    <3>2. CASE \E i \in 1 .. n : frames[i].failed /\ frames[i].name \in around[m]
      BY <1>1, <1>4, <3>2 DEF Doomed
    <3>3. CASE Sent("rollback") /\ request.name \in around[m]
      BY <1>1, <1>7, <3>3 DEF Doomed
    <3>4. CASE frames # <<>> /\ frames[1].name \in around[m] /\ RollbackComes
      <4>1. frames' # <<>> /\ frames'[1].name = frames[1].name /\ 1 \in 1 .. Len(frames')
        BY <1>3, <1>4, <3>4
      <4> QED
        BY <1>1, <1>4, <1>5, <3>4, <4>1 DEF Doomed
    <3> QED
      BY <1>1, <2>1, <3>1, <3>2, <3>3, <3>4 DEF Doomed
  <2> QED
    BY <1>1, <2>1 DEF Whole, Accounted
<1> QED
  BY <1>8, <1>9, <1>10, <1>11, <1>12, <1>13 DEF Whole

\* Only a commit that has been executed commits what is still in a transaction().
LEMMA Outside ==
  ASSUME Shape, Whole, frames # <<>>, ~Sent("commit")
  PROVE  \A m \in server.committed : Inner.name \notin around[m]
<1>1. Len(frames) \in 1 .. Len(frames) /\ Inner = frames[Len(frames)]
  BY Basics
<1> QED
  BY <1>1 DEF Whole, InEffect

\* What failed before a callback has failed after it.
LEMMA StillFailed ==
  ASSUME Shape, NEW op \in Ops, NEW err \in BOOLEAN, NEW sure \in BOOLEAN,
         op # "reset" => frames # <<>>, Completed(op, err, sure),
         op \in {"begin", "save"} => ~err, op \notin {"commit", "rollback"}
  PROVE  \A i \in 1 .. Len(frames) : frames[i].failed => frames'[i].failed
<1>1. CASE UNCHANGED frames
  BY <1>1
<1>2. CASE /\ frames # <<>>
           /\ frames' = [frames EXCEPT ![Len(frames)] = [Inner EXCEPT !.failed = @ \/ err]]
  <2> DEFINE f == [Inner EXCEPT !.failed = @ \/ err]
  <2>1. Inner \in Frames /\ Inner = frames[Len(frames)] /\ Len(frames) \in 1 .. Len(frames)
        /\ frames \in Seq(Frames)
    BY <1>2, Basics DEF Shape, TypeOK
  <2>2. f \in Frames /\ (Inner.failed => f.failed)
    BY <2>1 DEF Frames
  <2> HIDE DEF f
  <2>3. frames' = [frames EXCEPT ![Len(frames)] = f]
    BY <1>2 DEF f
  <2>4. \A i \in 1 .. Len(frames) : frames'[i] = IF i = Len(frames) THEN f ELSE frames[i]
    BY <2>1, <2>2, <2>3, ExceptSeq
  <2> QED
    BY <2>1, <2>2, <2>4
<1>3. UNCHANGED frames \/ (frames # <<>> /\ frames' = [frames EXCEPT ![Len(frames)] = [Inner EXCEPT !.failed = @ \/ err]])
  BY CompletedFrames DEF Ops, Control
<1> QED
  BY <1>1, <1>2, <1>3

LEMMA AnsweredWhole ==
  ASSUME Shape, Nested, Whole, Shape', Answered
  PROVE  Whole'
<1> DEFINE err == Err
           sure == ~request.canceled
<1>1. /\ request.op \in Ops /\ request.tokens = <<>> /\ (request.executed \/ request.canceled)
      /\ request.late => request.canceled
      /\ UNCHANGED server /\ Completed(request.op, err, sure) /\ err \in BOOLEAN /\ sure \in BOOLEAN
      /\ request.op # "reset" => frames # <<>>
      /\ state = "SENT_CLIENT_REQUEST" /\ state' \in {"SENT_CLIENT_REQUEST", "LOGGED_IN"}
      /\ IF Isolates THEN request' = Payload("isolation", 0) /\ request'.op = "isolation" /\ ~request'.executed
                     ELSE request' = None
  BY AnsweredEffect, GoingType DEF Acknowledged, Shape, OneRequest
<1>2. ~RollbackComes
  <2>1. Len(request.tokens) = 0
    BY <1>1
  <2> QED
    BY <2>1 DEF RollbackComes
<1>3. request.op \in Control => ~request.canceled /\ request.executed /\ (err <=> request.err)
  BY <1>1 DEF Whole, Orderly, Err
<1> HIDE DEF err, sure
<1>4. /\ UNCHANGED around
      /\ request.op \in {"begin", "save"} /\ err => Told("refused")
      /\ request.op = "commit" => Told(IF ~err THEN "ok" ELSE IF sure THEN "failed" ELSE "unknown")
      /\ request.op = "rollback" => Told("failed")
      /\ request.op # "exec" => UNCHANGED did
      /\ ~(request.op \in {"begin", "save"} /\ err) /\ request.op \notin {"commit", "rollback"} => NamesKept
      /\ request.op = "exec" => did' = IF err \/ ~sure THEN did ELSE did \cup {Inner.name}
  BY <1>1, CompletedFrames
<1>5. Len(frames) \in Nat /\ (frames # <<>> <=> Len(frames) > 0) /\ Inner = frames[Len(frames)]
  BY Basics
<1>6. CASE request.op = "commit"
  <2>1. ~err
    BY <1>3, <1>6 DEF Whole, Orderly, Control
  <2>2. Told("ok") /\ request' = None /\ frames # <<>> /\ UNCHANGED did
    BY <1>1, <1>4, <1>6, <2>1 DEF Isolates
  <2>3. Len(frames) = 1 /\ server.count = 0 /\ ~Inner.failed
    <3>1. ~Inner.useSavepoint /\ Len(frames) \in 1 .. Len(frames)
      BY <1>5, <1>6, <2>2 DEF Shape, OfInnermost
    <3>2. ~(Len(frames) > 1)
      BY <1>5, <3>1 DEF Whole, Levels
    <3>3. server.count = 0 /\ ~Inner.failed
      BY <1>3, <1>6 DEF Whole, Orderly, Control
    <3>4. \A k \in Nat : k > 0 /\ ~(k > 1) => k = 1
      OBVIOUS
    <3>5. Len(frames) = 1
      BY <1>5, <2>2, <3>2, <3>4, Zenon
    <3> QED
      BY <3>3, <3>5
  <2>4. ~Sent("rollback") /\ "ok" \in Results /\ state # "FINAL" /\ state' # "FINAL"
    BY <1>1, <1>6 DEF Sent, Results
  <2>5. ~(Len(frames) > 1)
    BY <2>3
  <2> QED
    BY <1>1, <1>2, <1>4, <2>2, <2>3, <2>4, <2>5, ToldWhole
<1>7. CASE request.op = "rollback"
  <2>1. /\ Told("failed") /\ request' = None /\ frames # <<>> /\ UNCHANGED did
        /\ ~Sent("commit") /\ "failed" \in Results /\ state # "FINAL" /\ state' # "FINAL"
    BY <1>1, <1>4, <1>7 DEF Isolates, Sent, Results
  <2>2. /\ Len(frames) = 1 => server.count = 0
        /\ Len(frames) > 1 => server.count # 0
        /\ \A m \in server.work : Inner.name \notin around[m]
    <3>1. request.executed /\ request.name = Inner.name
      BY <1>3, <1>7 DEF Control, Shape, OfInnermost
    <3>2. /\ server.count = IF Len(frames) = 1 THEN 0 ELSE 1
          /\ \A m \in server.work : request.name \notin around[m]
      BY <1>7, <3>1 DEF Whole, Orderly
    <3>3. Len(frames) > 1 => Len(frames) # 1
      BY <1>5
    <3> QED
      BY <3>1, <3>2, <3>3
  <2>3. \A m \in server.committed : Inner.name \notin around[m]
    BY <2>1, Outside
  <2> QED
    BY <1>1, <1>2, <1>4, <2>1, <2>2, <2>3, ToldWhole
<1>8. CASE request.op \in {"begin", "save"} /\ err
  <2>1. /\ Told("refused") /\ request' = None /\ frames # <<>> /\ UNCHANGED did
        /\ ~Sent("commit") /\ ~Sent("rollback") /\ "refused" \in Results
        /\ state # "FINAL" /\ state' # "FINAL"
    BY <1>1, <1>3, <1>4, <1>8 DEF Isolates, err, Sent, Results, Control
  <2>2. Len(frames) = 1 => server.count = 0
    BY <1>3, <1>8 DEF Whole, Orderly, Control
  <2>3. Len(frames) > 1 /\ server.count = 0 => \A i \in 1 .. Len(frames) : frames[i].failed
    <3>1. Len(frames) > 1 => request.op # "begin"
      <4>1. request.op = "begin" => Len(frames) = 1
        BY DEF Whole, Orderly
      <4>2. \A k : ~(k = 1 /\ k > 1)
        OBVIOUS
      <4> QED
        BY <4>1, <4>2, Zenon
    <3> QED
      BY <1>2, <2>1, <3>1 DEF Whole, Heard
  <2> QED
    BY <1>1, <1>2, <1>4, <2>1, <2>2, <2>3, ToldWhole
<1>9. CASE ~(request.op \in {"begin", "save"} /\ err) /\ request.op \notin {"commit", "rollback"}
  <2>1. NamesKept /\ state # "FINAL" /\ UNCHANGED server
    BY <1>1, <1>4, <1>9
  <2>2. \A i \in 1 .. Len(frames) : frames[i].failed => frames'[i].failed
    BY <1>1, <1>9, StillFailed
  <2>3. request' = None \/ (request'.op = "isolation" /\ ~request'.canceled /\ ~request'.executed)
    <3>1. Isolates => ~request'.canceled
      BY <1>1 DEF Payload
    <3> QED
      BY <1>1, <3>1
  <2>4. did' = did \/ \E m \in server'.work : did' = did \cup {m}
    <3>1. CASE request.op = "exec" /\ ~err /\ sure
      <4>1. request.executed /\ ~request.err /\ request.name = Inner.name
        BY <1>1, <3>1 DEF err, Err, sure, Shape, OfInnermost
      <4>2. request.name \in server.work
        BY <3>1, <4>1 DEF Whole, Orderly
      <4> QED
        BY <1>1, <1>4, <3>1, <4>1, <4>2
    <3> QED
      BY <1>4, <3>1
  <2>5. /\ request.op = "save" => request.executed /\ ~request.err
        /\ request.op = "begin" => server.count = 1
    <3>1. request.op \in {"begin", "save"} => request.executed /\ ~request.err
      BY <1>3, <1>9 DEF Control
    <3> QED
      BY <3>1 DEF Whole, Orderly
  <2> QED
    BY <1>2, <1>9, <2>1, <2>2, <2>3, <2>4, <2>5, KeptWhole
<1> QED
  BY <1>6, <1>7, <1>8, <1>9

LEMMA LostWhole ==
  ASSUME Shape, Nested, Whole, Lost
  PROVE  Whole'
<1>1. /\ Shape' /\ state # "FINAL" /\ state' = "FINAL" /\ request' = None /\ server' = Rollback(server)
      /\ server'.count = 0 /\ server'.work = {}
  BY LostShape, Basics, RollbackType DEF Lost
<1>2. CASE request = None
  <2>1. UNCHANGED <<frames, around, outcome, did>> /\ request.op = "none"
    BY <1>2, NoneIsNoPayload DEF Lost, user
  <2>2. NamesKept
    BY <2>1 DEF NamesKept
  <2> QED
    BY <1>1, <2>1, <2>2, KeptWhole
<1>3. CASE Going
  <2>1. request.op \in Ops /\ Completed(request.op, TRUE, FALSE) /\ (request.op # "reset" => frames # <<>>)
    <3>1. request.op \in Ops /\ Completed(request.op, TRUE, FALSE)
      BY <1>3, GoingType DEF Lost, Going
    <3> QED
      BY <3>1 DEF Shape, OfInnermost, Ops, Control
  <2>2. /\ UNCHANGED <<around, did>>
        /\ request.op \in {"begin", "save"} => Told("refused")
        /\ request.op = "commit" => Told("unknown")
        /\ request.op = "rollback" => Told("failed")
        /\ request.op \in {"isolation", "exec", "reset"} => NamesKept
    BY <2>1, CompletedFrames
  <2>3. CASE request.op \in {"isolation", "exec", "reset"}
    <3>1. \A i \in 1 .. Len(frames) : frames[i].failed => frames'[i].failed
      BY <2>1, <2>3, StillFailed
    <3> QED
      BY <1>1, <2>2, <2>3, <3>1, KeptWhole
  <2>4. ASSUME NEW result \in {"refused", "unknown", "failed"}, Told(result), frames # <<>>,
               result = "failed" => request.op = "rollback"
        PROVE  Whole'
    <3>1. result \in Results /\ result # "ok"
      BY <2>4 DEF Results
    <3>2. result = "failed" => \A m \in server.committed : Inner.name \notin around[m]
      BY <2>4, Outside DEF Sent
    <3>3. Sent("commit") => Len(frames) = 1
      <4>1. Len(frames) \in Nat /\ Len(frames) > 0 /\ Inner = frames[Len(frames)]
        BY <2>4, Basics
      <4>2. Sent("commit") => ~(Len(frames) > 1)
        BY <4>1 DEF Sent, Shape, OfInnermost, Whole, Levels
      <4>3. \A k \in Nat : k > 0 /\ ~(k > 1) => k = 1
        OBVIOUS
      <4> QED
        BY <4>1, <4>2, <4>3, Zenon
    <3> QED
      BY <1>1, <2>2, <2>4, <3>1, <3>2, <3>3, ToldWhole
  <2> QED
    BY <2>1, <2>2, <2>3, <2>4 DEF Ops, Control
<1> QED
  BY <1>2, <1>3 DEF Going

\* txDone: roll back or commit, or the outcome is known already.
LEMMA TxDoneWhole ==
  ASSUME SessionInv, Sure, Whole, Shape', TxDoneErr \/ TxDoneOk
  PROVE  Whole'
<1>1. /\ Shape /\ Nested /\ frames # <<>> /\ request = None /\ request.op = "none" /\ UNCHANGED server
      /\ ~Going /\ ~RollbackComes /\ state \in {"LOGGED_IN", "FINAL"} /\ \A op : op # "none" => ~Sent(op)
      /\ Inner.name \in 0 .. MaxTransactions /\ "rollback" \in Ops /\ "commit" \in Ops /\ Old \in BOOLEAN
  <2>1. /\ Shape /\ Nested /\ frames # <<>> /\ request = None /\ request.op = "none" /\ UNCHANGED server
    BY NoneIsNoPayload DEF SessionInv, TxDoneErr, TxDoneOk
  <2>2. Inner.name \in 0 .. MaxTransactions
    BY <2>1, FrontOfFrames DEF Shape, TypeOK, Names
  <2> QED
    BY <2>1, <2>2 DEF Going, RollbackComes, Sent, Shape, TypeOK, OneRequest, Ops, Control, Old
<1>2. state = "LOGGED_IN" => (inTransaction <=> server.count > 0)
  BY SessionInvAgrees DEF SessionAgrees, Sure
<1>3. ASSUME NEW op \in {"rollback", "commit"}, NEW batch \in BOOLEAN,
             Make(op, Inner.name, batch), UNCHANGED <<user, server>>,
             server.count = 1, op = "commit" => ~Inner.failed
      PROVE  Whole'
  <2>1. /\ Makes /\ request'.op = op /\ UNCHANGED user
    BY <1>1, <1>3, MakeMakes
  <2> QED
    BY <1>1, <1>3, <2>1, MakeWhole DEF user
<1>4. ASSUME NEW result \in {"failed", "ok"}, Told(result),
             UNCHANGED <<state, request, around, did>>,
             result = "failed" => server.count = 0,
             result = "ok" => ~Inner.failed /\ Len(frames) > 1
      PROVE  Whole'
  <2>1. server.count = 0 => server.work = {}
    BY <1>1, Basics
  <2>2. \A m \in server.committed : Inner.name \notin around[m]
    BY <1>1, Outside
  <2>3. state # "FINAL" /\ server.count = 0 => \A i \in 1 .. Len(frames) : frames[i].failed
    BY <1>1 DEF Whole, Heard
  <2>4. result \in Results /\ ~(Len(frames) = 1 /\ Len(frames) > 1)
    <3>1. \A k : ~(k = 1 /\ k > 1)
      OBVIOUS
    <3>2. ~(Len(frames) = 1 /\ Len(frames) > 1)
      BY <3>1, Zenon
    <3> QED
      BY <3>2 DEF Results
  <2> QED
    BY <1>1, <1>4, <2>1, <2>2, <2>3, <2>4, ToldWhole
<1>5. CASE TxDoneErr
  <2>1. CASE inTransaction /\ state = "LOGGED_IN"
    <3>1. server.count = 1
      BY <1>2, <2>1 DEF Whole, Counted
    <3> QED
      BY <1>1, <1>3, <1>5, <2>1, <3>1 DEF TxDoneErr
  <2>2. CASE ~(inTransaction /\ state = "LOGGED_IN")
    <3>1. server.count = 0
      <4>1. CASE state = "LOGGED_IN"
        <5>1. ~(server.count > 0) /\ server.count \in {0, 1}
          BY <1>2, <2>2, <4>1 DEF Whole, Counted
        <5> QED
          BY <5>1
      <4>2. CASE state = "FINAL"
        BY <1>1, <4>2 DEF Shape, Session
      <4> QED
        BY <1>1, <4>1, <4>2
    <3>2. Told("failed") /\ UNCHANGED <<state, request, around, did>>
      BY <1>5, <2>2 DEF TxDoneErr, client
    <3> QED
      BY <1>4, <3>1, <3>2
  <2> QED
    BY <2>1, <2>2
<1>6. CASE TxDoneOk
  <2>1. CASE Inner.useSavepoint /\ Told("ok") /\ UNCHANGED <<state, request, around, did>>
    <3>1. Len(frames) > 1
      <4>1. Len(frames) \in 1 .. Len(frames) /\ Inner = frames[Len(frames)]
        BY <1>1, Basics
      <4> QED
        BY <2>1, <4>1 DEF Whole, Levels
    <3> QED
      BY <1>4, <1>6, <2>1, <3>1 DEF TxDoneOk
  <2>2. CASE Make("commit", Inner.name, Old) /\ UNCHANGED user
    <3>1. ~Inner.failed /\ state = "LOGGED_IN"
      BY <1>6, <2>2 DEF TxDoneOk, Make
    <3>2. server.count = 1
      BY <1>1, <3>1, StillOpen
    <3> QED
      BY <1>1, <1>3, <2>2, <3>1, <3>2
  <2>3. CASE Refuse("commit")
    <3>1. /\ state # "LOGGED_IN" /\ Completed("commit", TRUE, TRUE) /\ UNCHANGED <<state, request>>
      BY <2>3 DEF Refuse
    <3>2. Told("failed") /\ UNCHANGED <<around, did>>
      BY <1>1, <3>1, CompletedFrames
    <3>3. server.count = 0
      BY <1>1, <3>1 DEF Shape, Session
    <3> QED
      BY <1>4, <3>1, <3>2, <3>3
  <2> QED
    BY <1>6, <2>1, <2>2, <2>3 DEF TxDoneOk
<1> QED
  BY <1>5, <1>6

LEMMA AtomicInit ==
  ASSUME Init
  PROVE  Atomic
<1>1. /\ request.op = "none" /\ Len(frames) = 0 /\ server.count = 0 /\ server.work = {}
      /\ server.committed = {} /\ did = {} /\ frames = <<>>
  BY NoneIsNoPayload DEF Init
<1>2. Levels /\ Orderly /\ Counted
  BY <1>1 DEF Levels, Orderly, Counted, Control
<1>3. Savepointed /\ Heard /\ InEffect /\ Accounted
  BY <1>1 DEF Savepointed, Heard, InEffect, Accounted
<1> QED
  BY <1>2, <1>3 DEF Atomic, Whole

LEMMA AtomicNext ==
  ASSUME SessionInv, Atomic, [Next]_vars
  PROVE  Atomic'
<1> SUFFICES ASSUME Sure'
             PROVE  Whole'
  BY DEF Atomic
<1>1. /\ Shape /\ Nested /\ Shape' /\ (Sure => Whole) /\ clouded \in BOOLEAN
  BY ShapeNext DEF SessionInv, Atomic, Shape, TypeOK
<1>2. UNCHANGED <<version, clouded>> => Sure /\ Whole
  BY <1>1 DEF Sure, Old
<1>3. ASSUME UNCHANGED <<version, clouded, frames, around, outcome, did, server, state>>,
             request'.op = request.op, request'.name = request.name, Going' <=> Going,
             request'.executed = request.executed, request'.err = request.err,
             request'.tokens = request.tokens,
             request.op \in Control => request'.canceled = request.canceled
      PROVE  Whole'
  <2>1. Whole /\ (request.op \in Control => ~request.canceled)
    BY <1>2, <1>3 DEF Whole, Orderly
  <2> QED
    BY <1>3, <2>1, SameWhole
<1>4. CASE \E b \in BOOLEAN : Transaction(b)
  <2>1. PICK b \in BOOLEAN : Transaction(b)
    BY <1>4
  <2>2. UNCHANGED <<version, clouded>>
    BY <2>1 DEF Transaction
  <2> QED
    BY <1>1, <1>2, <2>1, <2>2, TransactionWhole
<1>5. CASE \E b \in BOOLEAN : Exec(b)
  <2>1. PICK b \in BOOLEAN : frames # <<>> /\ ~Inner.failed /\ Make("exec", Inner.name, b) /\ UNCHANGED <<user, server>>
    BY <1>5 DEF Exec
  <2>2. Inner.name \in 0 .. MaxTransactions /\ "exec" \in Ops
    BY <1>1, <2>1, FrontOfFrames DEF Shape, TypeOK, Names, Ops
  <2>3. Makes /\ request'.op = "exec" /\ UNCHANGED user
    BY <1>1, <2>1, <2>2, MakeMakes
  <2>4. Whole
    BY <1>2, <2>3 DEF Makes, user
  <2>5. server.count = 1
    BY <1>1, <2>1, <2>3, <2>4, StillOpen DEF Makes
  <2> QED
    BY <1>1, <2>3, <2>4, <2>5, MakeWhole DEF user
<1>6. CASE TransactionRefused
  BY <1>3, <1>6 DEF TransactionRefused, Going
<1>7. CASE TxDoneErr \/ TxDoneOk
  <2>1. UNCHANGED <<version, clouded>>
    BY <1>7 DEF TxDoneErr, TxDoneOk, Make, Refuse, Completed, client, user
  <2> QED
    BY <1>1, <1>2, <1>7, <2>1, TxDoneWhole
<1>8. CASE Reset
  <2>1. /\ Makes /\ request'.op = "reset" /\ UNCHANGED <<frames, around, outcome, did, clouded>>
    BY <1>1, <1>8, ResetMakes
  <2> QED
    BY <1>1, <1>2, <2>1, MakeWhole DEF Makes
<1>9. CASE ResetRefused
  BY <1>9 DEF ResetRefused, Sure
<1>10. CASE MessageFinished \/ Cancel
  <2>1. /\ Progresses
        /\ MessageFinished => UNCHANGED clouded /\ request'.canceled = request.canceled
        /\ Cancel => clouded' = (clouded \/ request.op \in Control)
    BY <1>1, <1>10, ProgressSteps
  <2>2. UNCHANGED clouded /\ (request.op \in Control => request'.canceled = request.canceled)
    BY <1>1, <1>10, <2>1 DEF Sure
  <2> QED
    BY <1>3, <2>1, <2>2 DEF Progresses
<1>11. CASE Execute
  BY <1>1, <1>2, <1>11, ExecuteWhole DEF Execute, user
<1>12. CASE Token
  BY <1>1, <1>2, <1>12, TokenWhole DEF Token
<1>13. CASE Answered
  BY <1>1, <1>2, <1>13, AnsweredWhole DEF Answered, Completed
<1>14. CASE Lost
  BY <1>1, <1>2, <1>14, LostWhole DEF Lost, Completed, user
<1>15. CASE UNCHANGED vars
  BY <1>3, <1>15 DEF vars, client, user, Going
<1> QED
  BY <1>4, <1>5, <1>6, <1>7, <1>8, <1>9, <1>10, <1>11, <1>12, <1>13, <1>14, <1>15 DEF Next

LEMMA AtomicIsAllOrNothing ==
  ASSUME SessionInv, Atomic
  PROVE  AllOrNothing
<1> SUFFICES ASSUME Sure, NEW n \in Names
             PROVE  /\ (\A k \in around[n] : outcome[k] = "ok") /\ n \in did => n \in server.committed
                    /\ (\E k \in around[n] : outcome[k] = "failed") => n \notin server.committed
  BY DEF AllOrNothing, Sure
<1>1. Shape /\ Nested /\ Whole
  BY DEF SessionInv, Atomic
<1>2. \A i \in 1 .. Len(frames) : outcome[frames[i].name] = "open"
  BY <1>1 DEF Nested
<1>3. /\ frames # <<>> => Len(frames) \in 1 .. Len(frames) /\ 1 \in 1 .. Len(frames)
      /\ Inner = frames[Len(frames)]
  BY <1>1, Basics
<1>4. ASSUME \A k \in around[n] : outcome[k] = "ok", n \in did
      PROVE  n \in server.committed
  <2>1. \A i \in 1 .. Len(frames) : frames[i].name \notin around[n]
    BY <1>2, <1>4
  <2>2. n \notin server.work
    BY <1>1, <1>3, <2>1 DEF Whole, InEffect
  <2>3. ~(Sent("rollback") /\ request.name \in around[n])
    BY <1>1, <1>3, <2>1 DEF Sent, Shape, OfInnermost
  <2>4. ~Doomed(n)
    BY <1>3, <1>4, <2>1, <2>3 DEF Doomed
  <2> QED
    BY <1>1, <1>4, <2>2, <2>4 DEF Whole, Accounted
<1>5. (\E k \in around[n] : outcome[k] = "failed") => n \notin server.committed
  BY <1>1 DEF Whole, InEffect
<1> QED
  BY <1>4, <1>5

(* transaction() is all or nothing, for any number and depth of transactions:    *)
(* what the server did in one that is told to have ended well is committed, what *)
(* is told to have failed or lies in one that failed is not                      *)
(* (connection.ts:2921-2972). A statement cancelled late is told as done and not *)
(* sent to the server's work, so it is not in did (connection.ts:3001, 3591).    *)
THEOREM EndsAllOrNothing == Spec => []AllOrNothing
<1>1. Init => SessionInv /\ Atomic
  BY SessionInit, AtomicInit
<1>2. SessionInv /\ Atomic /\ [Next]_vars => SessionInv' /\ Atomic'
  BY SessionNext, AtomicNext
<1>3. SessionInv /\ Atomic => AllOrNothing
  BY AtomicIsAllOrNothing
<1> QED
  BY <1>1, <1>2, <1>3, PTL DEF Spec
===============================================================================
