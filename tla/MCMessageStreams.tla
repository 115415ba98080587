---------------------------- MODULE MCMessageStreams ----------------------------
(* Two messages through the streams: one of three writes that fill three        *)
(* packets and a bit, and one short one with the reset bit.                      *)
EXTENDS MessageStreams

MCPlan == << [type |-> 1, reset |-> FALSE, writes |-> <<2, 4, 6>>],
             [type |-> 3, reset |-> TRUE, writes |-> <<1>>] >>
MCPacketSizes == {6, 7}
=================================================================================
