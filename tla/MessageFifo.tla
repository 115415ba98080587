------------------------------ MODULE MessageFifo ------------------------------
(* What the two message streams promise together (outgoing-message-stream.ts,   *)
(* incoming-message-stream.ts): messages arrive one at a time, in the order     *)
(* they were sent, none is opened before the one before it was read to its end, *)
(* what can be read of a message is a prefix of what was written to it, and a   *)
(* reader is told of the end of a message only when it has read all of it -     *)
(* unless the writer gave the message up.  Under fairness every finished        *)
(* message is read to its end.                                                  *)
EXTENDS Naturals, Sequences, SequencesExt

VARIABLES
  written,   \* the messages in the order they were opened: type, data, and how each stands
  read       \* what the reader has of each message it was given

vars == <<written, read>>

Standing == {"open", "closed", "abandoned"}

Init == written = <<>> /\ read = <<>>

(* Writing side. *)
OpenNext ==
  LET m == Len(written) + 1 IN
  /\ Len(written') = m
  /\ written' = Append(written, [type |-> written'[m].type, data |-> <<>>, is |-> "open"])

Extend(m) ==
  /\ written[m].is = "open"
  /\ written' = [written EXCEPT ![m].data = written'[m].data]
  /\ IsPrefix(written[m].data, written'[m].data)

Finish(m) ==
  /\ written[m].is = "open"
  /\ \E s \in Standing \ {"open"} : written' = [written EXCEPT ![m].is = s]

Write == UNCHANGED read /\ (OpenNext \/ \E m \in DOMAIN written : Extend(m) \/ Finish(m))

(* Reading side. *)
Receive ==
  /\ Len(read) < Len(written)
  /\ \A m \in DOMAIN read : read[m].ended
  /\ read' = Append(read, [type |-> written[Len(read) + 1].type, data |-> <<>>, ended |-> FALSE])

ReadSome(m) ==
  /\ ~read[m].ended
  /\ read' = [read EXCEPT ![m].data = read'[m].data]
  /\ IsPrefix(read[m].data, read'[m].data)
  /\ IsPrefix(read'[m].data, written[m].data)

ReadEnd(m) ==
  /\ ~read[m].ended
  /\ \/ written[m].is = "closed" /\ read[m].data = written[m].data
     \/ written[m].is = "abandoned"
  /\ read' = [read EXCEPT ![m].ended = TRUE]

Read == UNCHANGED written /\ (Receive \/ \E m \in DOMAIN read : ReadSome(m) \/ ReadEnd(m))

Spec == Init /\ [][Write \/ Read]_vars
================================================================================
